--------------------------- MODULE AnalyticsViews ---------------------------
(***************************************************************************)
(* The two sinks a landed file is loaded into - ClickHouse, and the stand- *)
(* in that keeps the rows in memory - given the same loads, and the two    *)
(* views over several sources, which ClickHouse defines in SQL and the     *)
(* stand-in computes by hand.                                              *)
(*                                                                         *)
(* Threads load at once.  ClickHouse inserts the rows of a file in one     *)
(* statement; the stand-in copies the table, changes the copy and puts it  *)
(* in the table's place, without a lock.                                   *)
(*                                                                         *)
(* Abstractions.  A file holds one row, and has the keys: both sinks skip  *)
(* rows without them.  Names are in the lower case both views compare them *)
(* in (letters of ASCII).  A view's row is what it links, its other        *)
(* columns are functions of that.                                          *)
(***************************************************************************)
EXTENDS Naturals, FiniteSets

CONSTANTS
  Threads,         \* threads that load files
  Orgs,            \* organisations
  OpportunityIds, AccountIds, CompanyIds, DealIds, PipelineIds,
  Names,           \* names of accounts and companies, in lower case
  Null,            \* a missing value
  MaxLoads         \* bound on loads

ASSUME NullAssumption == Null \notin Names
\* Both sinks skip a row whose id or organisation is missing or empty.
ASSUME KeysAssumption ==
  {Null, ""} \cap (Orgs \cup OpportunityIds \cup AccountIds \cup CompanyIds
                      \cup DealIds \cup PipelineIds) = {}
ASSUME NamesAssumption == "" \in Names
ASSUME MaxLoadsAssumption == MaxLoads \in Nat

VARIABLES
  live,     \* the tables of ClickHouse, as FINAL shows them
  memory,   \* the tables of the stand-in
  loader,   \* threads of the stand-in in the middle of a load
  raced,    \* history: tables that two loads were in the middle of
  loads     \* loads so far

vars == <<live, memory, loader, raced, loads>>

-----------------------------------------------------------------------------
OrNull(S) == S \cup {Null}

Rows ==
  [opportunities |-> [id : OpportunityIds, org : Orgs, account : OrNull(AccountIds)],
   accounts      |-> [id : AccountIds, org : Orgs, name : OrNull(Names)],
   companies     |-> [id : CompanyIds, org : Orgs, name : OrNull(Names)],
   deals         |-> [id : DealIds, org : Orgs, company : OrNull(CompanyIds),
                      pipeline : OrNull(PipelineIds)],
   pipelines     |-> [id : PipelineIds, org : Orgs]]

Tables == DOMAIN Rows

\* insert_null_as_default: the String columns of ClickHouse hold no NULL.
Default(row) == [f \in DOMAIN row |-> IF row[f] = Null THEN "" ELSE row[f]]

\* Bug: a NULL is inserted as it is.
InsertLiveNulls(rows, row) ==
  {r \in rows : <<r.org, r.id>> # <<row.org, row.id>>} \cup {row}

\* ORDER BY (organisation_id, id): the last of the rows of a key replaces them.
InsertLive(rows, row) ==
  {r \in rows : <<r.org, r.id>> # <<row.org, row.id>>} \cup {Default(row)}

\* Bug: the first row of a key stays.
InsertFirst(rows, row) ==
  IF \E r \in rows : r.id = row.id THEN rows ELSE rows \cup {row}

\* insert_rows with the default key_columns: the id alone.
InsertMemory(rows, row) == {r \in rows : r.id # row.id} \cup {row}

Idle == [table |-> "none"]

Init ==
  /\ live = [t \in Tables |-> {}]
  /\ memory = [t \in Tables |-> {}]
  /\ loader = [th \in Threads |-> Idle]
  /\ raced = {}
  /\ loads = 0

\* load_from_storage: the statement of the one sink, the copy of the other.
Load(th, t, row) ==
  /\ loader[th] = Idle
  /\ loads < MaxLoads
  /\ loads' = loads + 1
  /\ live' = [live EXCEPT ![t] = InsertLive(@, row)]
  /\ loader' = [loader EXCEPT ![th] = [table |-> t, rows |-> InsertMemory(memory[t], row)]]
  /\ raced' = raced \cup {u \in {t} : \E other \in Threads : loader[other].table = u}
  /\ UNCHANGED memory

\* The copy becomes the table.
Replace(th) ==
  /\ loader[th] # Idle
  /\ memory' = [memory EXCEPT ![loader[th].table] = loader[th].rows]
  /\ loader' = [loader EXCEPT ![th] = Idle]
  /\ UNCHANGED <<live, raced, loads>>

Next ==
  \E th \in Threads :
    \/ \E t \in Tables : \E row \in Rows[t] : Load(th, t, row)
    \/ Replace(th)

Spec == Init /\ [][Next]_vars

-----------------------------------------------------------------------------
(***************************************************************************)
(* v_hubspot_deal_pipeline: a deal with its company and its pipeline.      *)
(***************************************************************************)

\* The row with this id in the organisation, if there is one.
Named(rows, org, id) == {r \in rows : r.org = org /\ r.id = id}

\* The ids of what was found, Null for nothing.
IdOr(found) == IF found = {} THEN {Null} ELSE {r.id : r \in found}

PipelineRows(d, companies, pipelines) ==
  [deal : {d.id}, org : {d.org}, company : IdOr(companies), pipeline : IdOr(pipelines)]

\* LEFT JOIN companies, LEFT JOIN pipelines.
PipelineLive ==
  UNION {PipelineRows(d, Named(live.companies, d.org, d.company),
                         Named(live.pipelines, d.org, d.pipeline)) : d \in live.deals}

\* Bug: the pipeline is looked up by its id alone.
PipelineMemoryById ==
  UNION {PipelineRows(d, Named(memory.companies, d.org, d.company),
                         {p \in memory.pipelines : p.id = d.pipeline}) : d \in memory.deals}

\* Dictionaries by organisation and id.
PipelineMemory ==
  UNION {PipelineRows(d, Named(memory.companies, d.org, d.company),
                         Named(memory.pipelines, d.org, d.pipeline)) : d \in memory.deals}

-----------------------------------------------------------------------------
(***************************************************************************)
(* v_client_360_deals: an opportunity, its account, the companies of the   *)
(* account's name and their deals.                                         *)
(***************************************************************************)
Client360Rows(o, deals) == [opportunity : {o.id}, org : {o.org}, deal : IdOr(deals)]

\* LEFT JOIN accounts, companies by name, deals: a missing account has a NULL
\* name, which equals nothing.
CompaniesLive(o) ==
  {c \in live.companies :
     \E a \in Named(live.accounts, o.org, o.account) : c.name = a.name /\ c.org = a.org}

DealsOf(rows, org, c) == {d \in rows : d.company = c.id /\ d.org = org}

Client360Live ==
  UNION {IF CompaniesLive(o) = {} THEN Client360Rows(o, {})
         ELSE UNION {Client360Rows(o, DealsOf(live.deals, c.org, c)) : c \in CompaniesLive(o)}
           : o \in live.opportunities}

\* (name or ""), also of an account that was not found.
NameOrEmpty(row) == IF row.name = Null THEN "" ELSE row.name

NameInMemory(o) ==
  LET found == Named(memory.accounts, o.org, o.account)
  IN IF found = {} THEN "" ELSE CHOOSE n \in Names : \E a \in found : n = NameOrEmpty(a)

\* Bug: companies are looked up by their name alone.
CompaniesMemoryByName(o) == {c \in memory.companies : NameOrEmpty(c) = NameInMemory(o)}

CompaniesMemory(o) ==
  {c \in memory.companies : c.org = o.org /\ NameOrEmpty(c) = NameInMemory(o)}

\* The deals of all the companies together, or one row without a deal.
Client360Memory ==
  UNION {Client360Rows(o, UNION {DealsOf(memory.deals, o.org, c) : c \in CompaniesMemory(o)})
           : o \in memory.opportunities}

-----------------------------------------------------------------------------
(***************************************************************************)
(* Properties.                                                             *)
(***************************************************************************)

\* Every variable holds a value of its kind.
TypeOK ==
  /\ DOMAIN live = Tables /\ DOMAIN memory = Tables /\ DOMAIN loader = Threads
  /\ \A t \in Tables : memory[t] \subseteq Rows[t]
  /\ \A t \in Tables : live[t] \subseteq {Default(row) : row \in Rows[t]}
  /\ \A th \in Threads : loader[th] = Idle \/
       (loader[th].table \in Tables /\ loader[th].rows \subseteq Rows[loader[th].table])
  /\ raced \subseteq Tables
  /\ loads \in 0 .. MaxLoads

\* No load is in flight, none has raced another into one table, and no two
\* organisations have rows of one id: the stand-in keeps one row of an id.
Comparable ==
  /\ \A th \in Threads : loader[th] = Idle
  /\ raced = {}
  /\ \A t \in Tables : \A r, s \in live[t] : r.id = s.id => r.org = s.org

\* The stand-in "does the same job as the real sink": while no two loads raced
\* into one table and no id is shared by two organisations, the tables are the
\* same whatever was loaded over what, by whichever thread.
TablesAgree ==
  Comparable => \A t \in Tables : live[t] = {Default(r) : r \in memory[t]}

\* The stand-in's deal pipeline is that of the SQL view, of comparable tables.
PipelineAgrees == Comparable => PipelineMemory = PipelineLive

Linked(view) == {r \in view : r.deal # Null}

\* What the stand-in adds: "" stands for the name of an account that was not
\* found, and equals the name of a company without one.
CompaniesInvented(o) ==
  {c \in live.companies :
     Named(live.accounts, o.org, o.account) = {} /\ c.org = o.org /\ c.name = ""}

Client360Invented ==
  UNION {UNION {Client360Rows(o, DealsOf(live.deals, c.org, c)) : c \in CompaniesInvented(o)}
           : o \in live.opportunities}

\* The stand-in's links between opportunities and deals are those of the SQL
\* view and, for every opportunity whose account is not there, the deals of the
\* organisation's nameless companies; it has no other, and misses none.
LinksAgree ==
  Comparable => Linked(Client360Memory) = Linked(Client360Live) \cup Linked(Client360Invented)

-----------------------------------------------------------------------------
(***************************************************************************)
(* The inductive invariant, proved in AnalyticsViews_proofs.               *)
(***************************************************************************)

\* The stand-in's rows are in the table with their defaults, and it has a row
\* of every id the table has.
Follows(rows, table) ==
  /\ \A r \in rows : Default(r) \in table
  /\ \A s \in table : \E r \in rows : r.id = s.id

Loading(th, t) == loader[th].table = t

\* ClickHouse keeps one row of a key.  While no two loads have raced, what
\* follows its table is the copy that a thread has in hand, or the stand-in's
\* table when no thread has one.
AgreeInv ==
  /\ \A t \in Tables : \A r, s \in live[t] : r.org = s.org /\ r.id = s.id => r = s
  /\ \A t \in Tables \ raced :
       /\ \A th, other \in Threads : Loading(th, t) /\ Loading(other, t) => th = other
       /\ \A th \in Threads : Loading(th, t) => Follows(loader[th].rows, live[t])
       /\ (\A th \in Threads : ~Loading(th, t)) => Follows(memory[t], live[t])
=============================================================================
