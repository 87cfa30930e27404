-------------------------- MODULE IncrementalSync --------------------------
(***************************************************************************)
(* Consecutive runs of one HubSpot object of one organisation: each reads  *)
(* the full list or, from the high-water mark the runs before have left,   *)
(* what was modified since, page by page, while the records change.        *)
(*                                                                         *)
(* HubSpotSync has the life of a single job in every detail.  Here a run   *)
(* is what its checkpoint and its worker know of the source, and whatever  *)
(* stops and restarts it (pause, failure or crash, and then a resume or a  *)
(* recovery) is the one action Interrupt.                                  *)
(*                                                                         *)
(* A version of a record is its modification time.  ClickHouse keeps the   *)
(* row that was loaded last, not the one with the latest version.          *)
(***************************************************************************)
EXTENDS Naturals, FiniteSets

CONSTANTS
  Runs,       \* names for the runs
  R,          \* records the source may hold, in the order they are created
  PageSize,   \* hubspot_page_size
  Overlap,    \* hubspot_incremental_overlap_seconds
  Lag,        \* how long a modification may take to show up in the source
  MaxTime     \* bound on the clock

ASSUME SizesAssumption == R \in Nat /\ PageSize \in Nat \ {0}
ASSUME TimesAssumption == Overlap \in Nat /\ MaxTime \in Nat
\* What the overlap is for: late-committed records.
ASSUME LagAssumption == Lag \in Nat /\ Lag <= Overlap

Records == 1..R
Times   == 0..MaxTime

VARIABLES
  now,        \* the clock, that of HubSpot
  source,     \* the version of each record that can be read, 0 for none
  table,      \* the version of each record's row in ClickHouse, 0 for none
  mark,       \* the row of sync_state, 0 for none
  run,        \* the runs
  disturbed   \* history: a run was disturbed while it read

vars == <<now, source, table, mark, run, disturbed>>

-----------------------------------------------------------------------------
(***************************************************************************)
(* A run.  The checkpoint holds `mode`, `since`, `offset`, `newest` and    *)
(* `completed`; `pc`, `refresh` (the full_refresh argument), `page` (the   *)
(* page in hand: the version read of each of its records) and `last` (no   *)
(* page follows it) are lost with the worker.  `calm` is history: since    *)
(* the run started nothing was modified and no other run was at work.      *)
(***************************************************************************)
Steps == {"new", "open", "fetch", "load", "checkpoint", "insert", "update", "ended"}

NoPage == [r \in Records |-> 0]

NewRun == [pc |-> "new", refresh |-> FALSE, page |-> NoPage, last |-> FALSE,
           mode |-> "none", since |-> 0, offset |-> 0, newest |-> 0,
           completed |-> FALSE, calm |-> FALSE]

Active(k) == run[k].pc \notin {"new", "ended"}

\* Some records exist before the first run, all modified at the same time.
Init ==
  /\ now = 1
  /\ \E n \in 0..R : source = [r \in Records |-> IF r <= n THEN 1 ELSE 0]
  /\ table = NoPage
  /\ mark = 0
  /\ run = [k \in Runs |-> NewRun]
  /\ disturbed = FALSE

-----------------------------------------------------------------------------
(***************************************************************************)
(* What HubSpot lists for a run when its records have the versions s: all  *)
(* of them in the order of creation, or those modified at or after `since` *)
(* with the oldest modification first.  Pages are cut by position.         *)
(***************************************************************************)

\* Bug: the filter is GT, not GTE.
WindowAfter(k, s) ==
  {r \in Records : s[r] # 0 /\ (run[k].mode = "incremental" => s[r] > run[k].since)}

Window(k, s) ==
  {r \in Records : s[r] # 0 /\ (run[k].mode = "incremental" => s[r] >= run[k].since)}

Precedes(k, s, q, r) ==
  IF run[k].mode = "incremental"
    THEN s[q] < s[r] \/ (s[q] = s[r] /\ q < r)
    ELSE q < r

Position(k, s, r) == Cardinality({q \in Window(k, s) : Precedes(k, s, q, r)})

PageAt(k) ==
  {r \in Window(k, source) :
     /\ run[k].offset <= Position(k, source, r)
     /\ Position(k, source, r) < run[k].offset + PageSize}

InHand(k) == {r \in Records : run[k].page[r] # 0}

\* Record r is on one of the pages that run k has read.
Reach(k) == run[k].offset + Cardinality(InHand(k))
WasRead(k, s, r) == r \in Window(k, s) /\ Position(k, s, r) < Reach(k)

-----------------------------------------------------------------------------
\* Time passes.
Tick ==
  /\ now < MaxTime
  /\ now' = now + 1
  /\ UNCHANGED <<source, table, mark, run, disturbed>>

\* A record is created or modified, and can be read at most Lag later.  A run
\* with pages still to come is disturbed when the record leaves, or enters,
\* the part of the listing that it has read.
Modify(r, t) ==
  /\ t <= now /\ now <= t + Lag /\ source[r] < t
  /\ r > 1 => source[r - 1] # 0
  /\ source' = [source EXCEPT ![r] = t]
  /\ run' = [k \in Runs |-> [run[k] EXCEPT !.calm = FALSE]]
  /\ disturbed' = (disturbed \/ \E k \in Runs :
       /\ Active(k) /\ ~run[k].completed
       /\ WasRead(k, source, r) \/ WasRead(k, source', r))
  /\ UNCHANGED <<now, table, mark>>

\* POST /api/hubspot/start.  Nothing keeps two runs from reading at a time.
Start(k, refresh) ==
  /\ run[k].pc = "new"
  /\ LET others == {j \in Runs \ {k} : Active(j)} IN
     /\ run' = [j \in Runs |->
          IF j = k THEN [run[k] EXCEPT !.pc = "open", !.refresh = refresh,
                                       !.calm = (others = {})]
          ELSE [run[j] EXCEPT !.calm = FALSE]]
     /\ disturbed' = (disturbed \/ others # {})
  /\ UNCHANGED <<now, source, table, mark>>

\* with_overlap: a run starts slightly before the mark.
Since == IF mark > Overlap THEN mark - Overlap ELSE 0

\* _choose_mode, and the checkpoint that keeps its choice.  A run that has a
\* checkpoint goes on as it began.
ChooseMode(k) ==
  /\ run[k].pc = "open"
  /\ run' = [run EXCEPT ![k] =
       IF @.mode # "none"
         THEN [@ EXCEPT !.pc = IF run[k].completed THEN "insert" ELSE "fetch"]
       ELSE IF @.refresh \/ mark = 0
         THEN [@ EXCEPT !.pc = "fetch", !.mode = "full"]
         ELSE [@ EXCEPT !.pc = "fetch", !.mode = "incremental", !.since = Since]]
  /\ UNCHANGED <<now, source, table, mark, disturbed>>

\* fetch_page, from the offset of the checkpoint.
Fetched(k) ==
  [run[k] EXCEPT
     !.pc   = "load",
     !.page = [r \in Records |-> IF r \in PageAt(k) THEN source[r] ELSE 0],
     !.last = run[k].offset + Cardinality(PageAt(k)) >= Cardinality(Window(k, source))]

\* Bug: the cursor is saved as soon as the page is fetched.
FetchPageAndSave(k) ==
  /\ run[k].pc = "fetch"
  /\ run' = [run EXCEPT ![k] =
       [Fetched(k) EXCEPT !.offset = @ + Cardinality(PageAt(k)),
                          !.completed = Fetched(k).last]]
  /\ UNCHANGED <<now, source, table, mark, disturbed>>

FetchPage(k) ==
  /\ run[k].pc = "fetch"
  /\ run' = [run EXCEPT ![k] = Fetched(k)]
  /\ UNCHANGED <<now, source, table, mark, disturbed>>

\* load_from_storage: each row of the page replaces the row with its id.
LoadPage(k) ==
  /\ run[k].pc = "load"
  /\ table' = [r \in Records |-> IF r \in InHand(k) THEN run[k].page[r] ELSE table[r]]
  /\ run' = [run EXCEPT ![k].pc = "checkpoint"]
  /\ UNCHANGED <<now, source, mark, disturbed>>

\* newest(): the latest version among those seen before and those in hand.
NewestOf(k) ==
  CHOOSE t \in {run[k].newest} \cup {run[k].page[r] : r \in InHand(k)} :
    \A r \in InHand(k) : run[k].newest <= t /\ run[k].page[r] <= t

\* Bug: the cursor moves by a whole page even when the page was shorter.
CheckpointWholePage(k) ==
  /\ run[k].pc = "checkpoint"
  /\ run' = [run EXCEPT ![k] =
       [@ EXCEPT !.pc = IF run[k].last THEN "insert" ELSE "fetch",
                 !.offset = @ + PageSize,
                 !.newest = NewestOf(k), !.completed = run[k].last,
                 !.page = NoPage, !.last = FALSE]]
  /\ UNCHANGED <<now, source, table, mark, disturbed>>

\* on_page's update_checkpoint: cursor, newest version and completed flag in
\* one commit.
Checkpoint(k) ==
  /\ run[k].pc = "checkpoint"
  /\ run' = [run EXCEPT ![k] =
       [@ EXCEPT !.pc = IF run[k].last THEN "insert" ELSE "fetch",
                 !.offset = Reach(k),
                 !.newest = NewestOf(k), !.completed = run[k].last,
                 !.page = NoPage, !.last = FALSE]]
  /\ UNCHANGED <<now, source, table, mark, disturbed>>

Ended(k) == [run EXCEPT ![k] = [NewRun EXCEPT !.pc = "ended"]]

\* advance_high_water, first half: a run that saw no record moves nothing, and
\* the insert succeeds if the mark does not exist.
InsertMark(k) ==
  /\ run[k].pc = "insert"
  /\ IF run[k].newest = 0 \/ mark = 0
       THEN mark' = run[k].newest + mark /\ run' = Ended(k)
       ELSE run' = [run EXCEPT ![k].pc = "update"] /\ UNCHANGED mark
  /\ UNCHANGED <<now, source, table, disturbed>>

\* Bug: the mark is written whatever it is.
OverwriteMark(k) ==
  /\ run[k].pc = "update"
  /\ mark' = run[k].newest
  /\ run' = Ended(k)
  /\ UNCHANGED <<now, source, table, disturbed>>

\* advance_high_water, second half: one conditional update, of a row that may
\* have been deleted meanwhile.
UpdateMark(k) ==
  /\ run[k].pc = "update"
  /\ mark' = IF mark # 0 /\ mark < run[k].newest THEN run[k].newest ELSE mark
  /\ run' = Ended(k)
  /\ UNCHANGED <<now, source, table, disturbed>>

\* The worker is gone and another goes on from the checkpoint, if there is one.
\* Neither a resume nor a recovery passes full_refresh on.
Interrupt(k) ==
  /\ Active(k)
  /\ run' = [run EXCEPT ![k] =
       [@ EXCEPT !.pc = "open", !.refresh = FALSE, !.page = NoPage, !.last = FALSE]]
  /\ UNCHANGED <<now, source, table, mark, disturbed>>

\* Bug: a run that is given up moves the mark as a finished one does.
AbandonAndAdvance(k) ==
  /\ Active(k)
  /\ run' = Ended(k)
  /\ mark' = IF mark < run[k].newest THEN run[k].newest ELSE mark
  /\ UNCHANGED <<now, source, table, disturbed>>

\* A run is cancelled, or has failed and is never resumed.
Abandon(k) ==
  /\ Active(k)
  /\ run' = Ended(k)
  /\ UNCHANGED <<now, source, table, mark, disturbed>>

\* DELETE /api/hubspot/sync_state/{object}: the mark is forgotten.
Reset ==
  /\ mark # 0
  /\ mark' = 0
  /\ UNCHANGED <<now, source, table, run, disturbed>>

-----------------------------------------------------------------------------
Work(k) ==
  \/ ChooseMode(k) \/ FetchPage(k) \/ LoadPage(k) \/ Checkpoint(k)
  \/ InsertMark(k) \/ UpdateMark(k)

Next ==
  \/ Tick \/ Reset
  \/ \E r \in Records, t \in Times : Modify(r, t)
  \/ \E k \in Runs : Work(k) \/ Interrupt(k) \/ Abandon(k)
  \/ \E k \in Runs, refresh \in BOOLEAN : Start(k, refresh)

Spec == Init /\ [][Next]_vars

-----------------------------------------------------------------------------
(***************************************************************************)
(* Properties.                                                             *)
(***************************************************************************)

\* Every variable holds a value of its kind.
TypeOK ==
  /\ now \in Nat /\ mark \in Nat /\ disturbed \in BOOLEAN
  /\ source \in [Records -> Nat] /\ table \in [Records -> Nat]
  /\ run \in [Runs -> [pc : Steps, refresh : BOOLEAN, page : [Records -> Nat],
                       last : BOOLEAN, mode : {"none", "full", "incremental"},
                       since : Nat, offset : 0..R, newest : Nat,
                       completed : BOOLEAN, calm : BOOLEAN]]

\* The next run covers everything not yet loaded: a record that it is not
\* going to read again is in ClickHouse with its latest version, through
\* pauses, failures, crashes, cancelled runs and late-committed records.
MarkCovers ==
  ~disturbed => \A r \in Records : source[r] < Since => table[r] = source[r]

\* The mark moves forward, never backwards, also when two runs finish at the
\* same time; only a reset takes it away.
MarkMovesForward == [][mark' >= mark \/ Reset]_vars

\* A run during which nothing changes leaves nothing stale behind it, although
\* it may read only what was modified since the mark.
Finished(k) == run[k].pc \in {"insert", "update"}
CalmRunCatchesUp ==
  ~disturbed => \A k \in Runs : Finished(k) /\ run[k].calm => table = source

\* A full refresh during which nothing changes repairs whatever the runs
\* before it have missed.
RefreshReconciles ==
  \A k \in Runs :
    Finished(k) /\ run[k].calm /\ run[k].mode = "full" => table = source

-----------------------------------------------------------------------------
(***************************************************************************)
(* Inductive invariants, proved in IncrementalSync_proofs.                 *)
(***************************************************************************)

\* No time that is held anywhere lies ahead of the clock, no row is newer than
\* its record, and a cut-off is an overlap away from every later modification.
ClockInv ==
  /\ mark <= now
  /\ \A r \in Records : source[r] <= now /\ table[r] <= source[r]
  /\ \A k \in Runs :
       /\ run[k].newest <= now
       /\ run[k].since = 0 \/ run[k].since + Overlap <= now
       /\ \A r \in Records : run[k].page[r] <= source[r]

\* A worker has a page in hand exactly between fetching and checkpointing it.
PageInv ==
  \A k \in Runs :
    /\ Reach(k) <= R
    /\ run[k].pc \notin {"load", "checkpoint"} => run[k].page = NoPage /\ ~run[k].last
    /\ run[k].pc \in {"fetch", "load", "checkpoint"} =>
         run[k].mode # "none" /\ ~run[k].completed
    /\ run[k].pc \in {"insert", "update"} => run[k].completed
    /\ ~Active(k) => run[k].mode = "none"
    /\ run[k].mode = "none" =>
         run[k].offset = 0 /\ run[k].newest = 0 /\ run[k].since = 0 /\ ~run[k].completed

\* Nothing has come between this run and what it has read.
Quiet(k) == Active(k) /\ (~disturbed \/ run[k].calm)

\* Whatever a quiet run has read is loaded, or in hand, in its latest version;
\* behind its last page there is only what was modified after it.
ReadInv ==
  \A k \in Runs : Quiet(k) =>
    /\ \A j \in Runs : Active(j) => j = k
    /\ \A r \in InHand(k) :
         /\ run[k].page[r] = source[r] /\ WasRead(k, source, r)
         /\ run[k].offset <= Position(k, source, r)
    /\ ~run[k].completed => \A r \in Records : WasRead(k, source, r) =>
         table[r] = source[r] \/ (run[k].pc = "load" /\ r \in InHand(k))
    /\ run[k].last => \A r \in Window(k, source) :
         \/ WasRead(k, source, r)
         \/ /\ ~run[k].calm
            /\ run[k].newest <= source[r] + Lag
            /\ \A q \in Records : run[k].page[q] <= source[r] + Lag
    /\ run[k].completed /\ run[k].calm /\ run[k].mode = "full" => table = source

\* Whatever lies before the mark, before a run's cut-off, or before the newest
\* version of a run with nothing left to read, is loaded.
CoverInv ==
  ~disturbed =>
    /\ \A r \in Records : source[r] < Since => table[r] = source[r]
    /\ \A k \in Runs : Active(k) =>
         /\ run[k].mode = "incremental" =>
              \A r \in Records : source[r] < run[k].since => table[r] = source[r]
         /\ run[k].completed =>
              \A r \in Records : source[r] + Overlap < run[k].newest => table[r] = source[r]
         /\ run[k].completed /\ run[k].calm => table = source

-----------------------------------------------------------------------------
(***************************************************************************)
(* What the documents say and the code does not always do.                 *)
(***************************************************************************)

\* The marks are "what each (organisation, object) has been loaded up to",
\* whatever changes while runs read and even granting the overlap.
NothingBehindMark ==
  (\A k \in Runs : ~Active(k)) =>
    \A r \in Records : source[r] < Since => table[r] = source[r]
=============================================================================
