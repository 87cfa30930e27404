------------------------ MODULE AnalyticsViews_proofs ------------------------
(***************************************************************************)
(* What the two sinks agree on, for every number of threads, organisations *)
(* and rows, and any number of loads.  The tables follow from AgreeInv,    *)
(* and the two views from the tables.                                      *)
(***************************************************************************)
EXTENDS AnalyticsViews, TLAPS

\* The names of the tables.
LEMMA TableNames ==
  Tables = {"opportunities", "accounts", "companies", "deals", "pipelines"}
BY DEF Tables, Rows

\* A default leaves the key of a row as it is: it has no missing value in it.
LEMMA KeyKept ==
  ASSUME NEW t \in Tables, NEW r \in Rows[t]
  PROVE  Default(r).id = r.id /\ Default(r).org = r.org
<1>1. CASE t = "opportunities"
  <2>1. r \in [id : OpportunityIds, org : Orgs, account : OrNull(AccountIds)] BY <1>1 DEF Rows
  <2> QED BY <2>1, KeysAssumption DEF Default
<1>2. CASE t = "accounts"
  <2>1. r \in [id : AccountIds, org : Orgs, name : OrNull(Names)] BY <1>2 DEF Rows
  <2> QED BY <2>1, KeysAssumption DEF Default
<1>3. CASE t = "companies"
  <2>1. r \in [id : CompanyIds, org : Orgs, name : OrNull(Names)] BY <1>3 DEF Rows
  <2> QED BY <2>1, KeysAssumption DEF Default
<1>4. CASE t = "deals"
  <2>1. r \in [id : DealIds, org : Orgs, company : OrNull(CompanyIds),
               pipeline : OrNull(PipelineIds)]
    BY <1>4 DEF Rows
  <2> QED BY <2>1, KeysAssumption DEF Default
<1>5. CASE t = "pipelines"
  <2>1. r \in [id : PipelineIds, org : Orgs] BY <1>5 DEF Rows
  <2> QED BY <2>1, KeysAssumption DEF Default
<1> QED BY <1>1, <1>2, <1>3, <1>4, <1>5, TableNames

\* What a load puts into the two kinds of table.
LEMMA InsertTypes ==
  ASSUME NEW t \in Tables, NEW row \in Rows[t],
         NEW rows \in SUBSET Rows[t], NEW table \in SUBSET {Default(r) : r \in Rows[t]}
  PROVE  /\ InsertMemory(rows, row) \subseteq Rows[t]
         /\ InsertLive(table, row) \subseteq {Default(r) : r \in Rows[t]}
BY DEF InsertMemory, InsertLive

\* A load that goes into both keeps the one behind the other.
LEMMA InsertFollows ==
  ASSUME NEW t \in Tables, NEW row \in Rows[t], NEW rows \in SUBSET Rows[t],
         NEW table, Follows(rows, table)
  PROVE  Follows(InsertMemory(rows, row), InsertLive(table, row))
<1>0. Default(row).id = row.id /\ \A r \in rows : Default(r).id = r.id
  BY KeyKept
<1>1. ASSUME NEW r \in InsertMemory(rows, row)
      PROVE  Default(r) \in InsertLive(table, row)
  <2>1. CASE r = row BY <2>1 DEF InsertLive
  <2>2. CASE r \in rows /\ r.id # row.id
    <3>1. Default(r) \in table BY <2>2 DEF Follows
    <3>2. Default(r).id # row.id BY <1>0, <2>2
    <3> QED BY <3>1, <3>2 DEF InsertLive
  <2> QED BY <2>1, <2>2 DEF InsertMemory
<1>2. ASSUME NEW s \in InsertLive(table, row)
      PROVE  \E r \in InsertMemory(rows, row) : r.id = s.id
  <2>1. CASE s.id = row.id BY <2>1 DEF InsertMemory
  <2>2. CASE s.id # row.id
    <3>1. s \in table BY <1>0, <2>2 DEF InsertLive
    <3>2. PICK r \in rows : r.id = s.id BY <3>1 DEF Follows
    <3> QED BY <2>2, <3>2 DEF InsertMemory
  <2> QED BY <2>1, <2>2
<1> QED BY <1>1, <1>2 DEF Follows

-----------------------------------------------------------------------------
(***************************************************************************)
(* Types.                                                                  *)
(***************************************************************************)

\* A thread in the middle of a load has one of the tables in hand.
LEMMA LoaderTable ==
  ASSUME TypeOK, NEW th \in Threads, loader[th] # Idle
  PROVE  loader[th].table \in Tables /\ loader[th].rows \subseteq Rows[loader[th].table]
BY DEF TypeOK

\* A thread that is loading nothing has none of the tables in hand.
LEMMA IdleTable ==
  ASSUME NEW t \in Tables, NEW th, loader[th] = Idle PROVE ~Loading(th, t)
BY TableNames DEF Loading, Idle


\* Nothing is loaded at first.
LEMMA TypeInit == Init => TypeOK
BY MaxLoadsAssumption DEF Init, TypeOK

\* Every step keeps the types.
LEMMA TypeNext == TypeOK /\ [Next]_vars => TypeOK'
<1> SUFFICES ASSUME TypeOK, [Next]_vars PROVE TypeOK'
  OBVIOUS
<1>1. ASSUME NEW th \in Threads, NEW t \in Tables, NEW row \in Rows[t], Load(th, t, row)
      PROVE  TypeOK'
  <2> DEFINE copy == InsertMemory(memory[t], row)
             next == InsertLive(live[t], row)
  <2>1. copy \subseteq Rows[t] /\ next \subseteq {Default(r) : r \in Rows[t]}
    BY <1>1, InsertTypes DEF TypeOK
  <2>2. live' = [live EXCEPT ![t] = next] /\ memory' = memory
        /\ loader' = [loader EXCEPT ![th] = [table |-> t, rows |-> copy]]
    BY <1>1 DEF Load
  <2> HIDE DEF copy, next
  <2>3. DOMAIN live' = Tables /\ DOMAIN memory' = Tables /\ DOMAIN loader' = Threads
    BY <2>2 DEF TypeOK
  <2>4. \A u \in Tables : live'[u] \subseteq {Default(r) : r \in Rows[u]}
    BY <2>1, <2>2 DEF TypeOK
  <2>5. \A other \in Threads : loader'[other] = Idle \/
          (loader'[other].table \in Tables /\ loader'[other].rows \subseteq Rows[loader'[other].table])
    BY <2>1, <2>2 DEF TypeOK
  <2>6. raced' \subseteq Tables BY <1>1 DEF Load, TypeOK
  <2>7. loads' \in 0 .. MaxLoads BY <1>1, MaxLoadsAssumption DEF Load, TypeOK
  <2> QED BY <2>2, <2>3, <2>4, <2>5, <2>6, <2>7 DEF TypeOK
<1>2. ASSUME NEW th \in Threads, Replace(th) PROVE TypeOK'
  <2>1. loader[th].table \in Tables /\ loader[th].rows \subseteq Rows[loader[th].table]
    BY <1>2, LoaderTable DEF Replace
  <2> QED BY <1>2, <2>1 DEF Replace, TypeOK
<1>3. CASE UNCHANGED vars BY <1>3 DEF vars, TypeOK
<1> QED BY <1>1, <1>2, <1>3 DEF Next

\* The tables of both sinks hold rows of their kind, and a copy in the hands of
\* a thread is one of a table's rows.
THEOREM TypeCorrect == Spec => []TypeOK
<1>1. Init => TypeOK BY TypeInit
<1>2. TypeOK /\ [Next]_vars => TypeOK' BY TypeNext
<1> QED BY <1>1, <1>2, PTL DEF Spec

-----------------------------------------------------------------------------
(***************************************************************************)
(* The tables agree.                                                       *)
(***************************************************************************)

\* A load into a table nobody else is loading: the copy that the thread now has
\* in hand follows the table.
LEMMA AgreeLoad ==
  ASSUME TypeOK, AgreeInv, NEW th \in Threads, NEW t \in Tables, NEW row \in Rows[t],
         Load(th, t, row)
  PROVE  AgreeInv'
<1> DEFINE copy == InsertMemory(memory[t], row)
           next == InsertLive(live[t], row)
<1>1. live' = [live EXCEPT ![t] = next] /\ memory' = memory /\ loader[th] = Idle
      /\ loader' = [loader EXCEPT ![th] = [table |-> t, rows |-> copy]]
      /\ raced' = raced \cup {u \in {t} : \E other \in Threads : loader[other].table = u}
  BY DEF Load
<1>2. Default(row).id = row.id /\ Default(row).org = row.org BY KeyKept
<1>3. \A r, s \in next : r.org = s.org /\ r.id = s.id => r = s
  <2> SUFFICES ASSUME NEW r \in next, NEW s \in next, r.org = s.org, r.id = s.id PROVE r = s
    OBVIOUS
  <2>1. CASE r \in live[t] /\ s \in live[t] BY <2>1 DEF AgreeInv
  <2>2. CASE r = Default(row) BY <1>2, <2>2 DEF InsertLive
  <2>3. CASE s = Default(row) BY <1>2, <2>3 DEF InsertLive
  <2> QED BY <2>1, <2>2, <2>3 DEF InsertLive
<1>4. t \notin raced' => Follows(copy, next)
  <2> SUFFICES ASSUME t \notin raced' PROVE Follows(copy, next)
    OBVIOUS
  <2>1. t \in Tables \ raced /\ \A other \in Threads : ~Loading(other, t)
    BY <1>1 DEF Loading
  <2>2. Follows(memory[t], live[t]) BY <2>1 DEF AgreeInv
  <2> QED BY <2>2, InsertFollows DEF TypeOK
<1> HIDE DEF copy, next
<1>5. \A u \in Tables \ {t} : live'[u] = live[u] /\ memory'[u] = memory[u]
      /\ \A other \in Threads : /\ Loading(other, u)' <=> Loading(other, u)
                                /\ Loading(other, u) => loader'[other] = loader[other]
  <2> SUFFICES ASSUME NEW u \in Tables \ {t}, NEW other \in Threads
               PROVE  /\ live'[u] = live[u] /\ memory'[u] = memory[u]
                      /\ Loading(other, u)' <=> Loading(other, u)
                      /\ Loading(other, u) => loader'[other] = loader[other]
    BY <1>1 DEF TypeOK
  <2>1. ~Loading(th, u) BY <1>1, IdleTable
  <2> QED BY <1>1, <2>1 DEF TypeOK, Loading
<1>6. live'[t] = next /\ loader'[th].table = t /\ loader'[th].rows = copy
      /\ \A other \in Threads \ {th} : loader'[other] = loader[other]
  BY <1>1 DEF TypeOK
<1>7. t \notin raced' => \A other \in Threads : Loading(other, t)' => other = th
  BY <1>1, <1>6 DEF Loading
<1>8. ASSUME NEW u \in Tables
      PROVE  \A r, s \in live'[u] : r.org = s.org /\ r.id = s.id => r = s
  BY <1>3, <1>5, <1>6 DEF AgreeInv
<1>9. ASSUME NEW u \in Tables \ raced'
      PROVE  /\ \A one, other \in Threads : Loading(one, u)' /\ Loading(other, u)' => one = other
             /\ \A one \in Threads : Loading(one, u)' => Follows(loader'[one].rows, live'[u])
             /\ (\A one \in Threads : ~Loading(one, u)') => Follows(memory'[u], live'[u])
  <2>1. CASE u = t
    <3>1. Loading(th, t)' BY <1>6 DEF Loading
    <3> QED BY <1>4, <1>6, <1>7, <1>9, <2>1, <3>1
  <2>2. CASE u # t
    <3>1. u \in Tables \ raced BY <1>1, <1>9
    <3> QED BY <1>5, <2>2, <3>1 DEF AgreeInv
  <2> QED BY <2>1, <2>2
<1> QED BY <1>8, <1>9 DEF AgreeInv

\* The copy becomes the table, and follows it as it did in the thread's hands.
LEMMA AgreeReplace ==
  ASSUME TypeOK, AgreeInv, NEW th \in Threads, Replace(th)
  PROVE  AgreeInv'
<1>a. PICK t \in Tables : t = loader[th].table BY LoaderTable DEF Replace
<1>b. PICK rows \in SUBSET Rows[t] : rows = loader[th].rows BY <1>a, LoaderTable DEF Replace
<1>2. memory' = [memory EXCEPT ![t] = rows] /\ live' = live /\ raced' = raced
      /\ loader' = [loader EXCEPT ![th] = Idle]
  BY <1>a, <1>b DEF Replace
<1>3. Loading(th, t) /\ ~Loading(th, t)' /\ \A u \in Tables : ~Loading(th, u)'
  BY <1>a, <1>b, <1>2, TableNames DEF Loading, Idle, TypeOK
<1>4. \A u \in Tables \ {t} : memory'[u] = memory[u] /\ ~Loading(th, u)
  BY <1>a, <1>b, <1>2 DEF TypeOK, Loading
<1>5. \A other \in Threads \ {th} : loader'[other] = loader[other]
  BY <1>2 DEF TypeOK
<1>6. memory'[t] = rows BY <1>2 DEF TypeOK
<1>7. ASSUME NEW u \in Tables \ raced
      PROVE  /\ \A one, other \in Threads : Loading(one, u)' /\ Loading(other, u)' => one = other
             /\ \A one \in Threads : Loading(one, u)' => Follows(loader'[one].rows, live[u])
             /\ (\A one \in Threads : ~Loading(one, u)') => Follows(memory'[u], live[u])
  <2>1. \A one \in Threads : Loading(one, u)' =>
          Loading(one, u) /\ one # th /\ loader'[one] = loader[one]
    BY <1>3, <1>5 DEF Loading
  <2>2. CASE u = t
    <3>1. Follows(rows, live[t]) BY <1>a, <1>b, <1>3, <1>7, <2>2 DEF AgreeInv
    <3> QED BY <1>3, <1>6, <1>7, <2>1, <2>2, <3>1 DEF AgreeInv
  <2>3. CASE u # t
    <3>1. \A one \in Threads : Loading(one, u)' <=> Loading(one, u)
      BY <1>3, <1>4, <1>5, <2>3 DEF Loading
    <3> QED BY <1>4, <1>7, <2>1, <2>3, <3>1 DEF AgreeInv
  <2> QED BY <2>2, <2>3
<1> QED BY <1>2, <1>7 DEF AgreeInv

\* Nothing is loaded, and nothing has to be followed.
LEMMA AgreeInit == Init => AgreeInv
<1> SUFFICES ASSUME Init PROVE AgreeInv
  OBVIOUS
<1>1. \A th \in Threads, t \in Tables : ~Loading(th, t)
  BY IdleTable DEF Init
<1>2. \A t \in Tables : live[t] = {} /\ memory[t] = {} BY DEF Init
<1> QED BY <1>1, <1>2 DEF AgreeInv, Follows

\* Every step keeps the agreement.
LEMMA AgreeNext == TypeOK /\ AgreeInv /\ [Next]_vars => AgreeInv'
<1> SUFFICES ASSUME TypeOK, AgreeInv, [Next]_vars PROVE AgreeInv'
  OBVIOUS
<1>1. ASSUME NEW th \in Threads, NEW t \in Tables, NEW row \in Rows[t], Load(th, t, row)
      PROVE  AgreeInv'
  BY <1>1, AgreeLoad
<1>2. ASSUME NEW th \in Threads, Replace(th) PROVE AgreeInv' BY <1>2, AgreeReplace
<1>3. CASE UNCHANGED vars BY <1>3 DEF vars, AgreeInv, Loading
<1> QED BY <1>1, <1>2, <1>3 DEF Next

\* Where no loads race and no two organisations use one id, the rows that the
\* stand-in holds are those of ClickHouse.
LEMMA Agreement == TypeOK /\ AgreeInv => TablesAgree
<1> SUFFICES ASSUME TypeOK, AgreeInv, Comparable, NEW t \in Tables
             PROVE  live[t] = {Default(r) : r \in memory[t]}
  BY DEF TablesAgree
<1>1. Follows(memory[t], live[t])
  <2>1. \A th \in Threads : ~Loading(th, t) BY IdleTable DEF Comparable
  <2> QED BY <2>1 DEF AgreeInv, Comparable
<1>2. ASSUME NEW s \in live[t] PROVE s \in {Default(r) : r \in memory[t]}
  <2>1. PICK r \in memory[t] : r.id = s.id BY <1>1 DEF Follows
  <2>2. Default(r) \in live[t] BY <1>1 DEF Follows
  <2>3. Default(r).id = s.id BY <2>1, KeyKept DEF TypeOK
  <2>4. Default(r).org = s.org BY <2>2, <2>3 DEF Comparable
  <2> QED BY <2>2, <2>3, <2>4 DEF AgreeInv
<1>3. ASSUME NEW r \in memory[t] PROVE Default(r) \in live[t]
  BY <1>1 DEF Follows
<1> QED BY <1>2, <1>3

\* The stand-in's tables are those of ClickHouse, for any number of loads by any
\* number of threads, as long as no two of them race.
THEOREM TablesSame == Spec => []TablesAgree
<1>1. Init => AgreeInv BY AgreeInit
<1>2. TypeOK /\ AgreeInv /\ [Next]_vars => AgreeInv' BY AgreeNext
<1> QED BY <1>1, <1>2, TypeCorrect, Agreement, PTL DEF Spec

-----------------------------------------------------------------------------
(***************************************************************************)
(* The views agree.  Mirrored is what TablesAgree says, table by table.    *)
(***************************************************************************)
Mirrored == \A t \in Tables : memory[t] \subseteq Rows[t] /\ live[t] = {Default(r) : r \in memory[t]}

\* The rows of the five tables, and what a default makes of their columns.
LEMMA Columns ==
  /\ \A r \in Rows["opportunities"] :
       /\ r.id \in OpportunityIds /\ r.org \in Orgs /\ r.account \in OrNull(AccountIds)
       /\ Default(r).account = IF r.account = Null THEN "" ELSE r.account
  /\ \A r \in Rows["accounts"] :
       /\ r.id \in AccountIds /\ r.org \in Orgs /\ r.name \in OrNull(Names)
       /\ Default(r).name = NameOrEmpty(r)
  /\ \A r \in Rows["companies"] :
       /\ r.id \in CompanyIds /\ r.org \in Orgs /\ r.name \in OrNull(Names)
       /\ Default(r).name = NameOrEmpty(r)
  /\ \A r \in Rows["deals"] :
       /\ r.id \in DealIds /\ r.org \in Orgs
       /\ r.company \in OrNull(CompanyIds) /\ r.pipeline \in OrNull(PipelineIds)
       /\ Default(r).company = IF r.company = Null THEN "" ELSE r.company
       /\ Default(r).pipeline = IF r.pipeline = Null THEN "" ELSE r.pipeline
  /\ \A r \in Rows["pipelines"] : r.id \in PipelineIds /\ r.org \in Orgs
<1>1. ASSUME NEW r \in [id : OpportunityIds, org : Orgs, account : OrNull(AccountIds)]
      PROVE  /\ r.id \in OpportunityIds /\ r.org \in Orgs /\ r.account \in OrNull(AccountIds)
             /\ Default(r).account = IF r.account = Null THEN "" ELSE r.account
  BY DEF Default
<1>2. ASSUME NEW S, NEW r \in [id : S, org : Orgs, name : OrNull(Names)]
      PROVE  /\ r.id \in S /\ r.org \in Orgs /\ r.name \in OrNull(Names)
             /\ Default(r).name = NameOrEmpty(r)
  BY DEF Default, NameOrEmpty
<1>3. ASSUME NEW r \in [id : DealIds, org : Orgs, company : OrNull(CompanyIds),
                        pipeline : OrNull(PipelineIds)]
      PROVE  /\ r.id \in DealIds /\ r.org \in Orgs
             /\ r.company \in OrNull(CompanyIds) /\ r.pipeline \in OrNull(PipelineIds)
             /\ Default(r).company = IF r.company = Null THEN "" ELSE r.company
             /\ Default(r).pipeline = IF r.pipeline = Null THEN "" ELSE r.pipeline
  BY DEF Default
<1>4. /\ Rows["opportunities"] = [id : OpportunityIds, org : Orgs, account : OrNull(AccountIds)]
      /\ Rows["accounts"] = [id : AccountIds, org : Orgs, name : OrNull(Names)]
      /\ Rows["companies"] = [id : CompanyIds, org : Orgs, name : OrNull(Names)]
      /\ Rows["deals"] = [id : DealIds, org : Orgs, company : OrNull(CompanyIds),
                          pipeline : OrNull(PipelineIds)]
      /\ Rows["pipelines"] = [id : PipelineIds, org : Orgs]
  BY DEF Rows
<1>5. ASSUME NEW r \in [id : PipelineIds, org : Orgs] PROVE r.id \in PipelineIds /\ r.org \in Orgs
  OBVIOUS
<1> QED BY <1>1, <1>2, <1>3, <1>4, <1>5

\* A table of the stand-in, and what it mirrors, row by row.
LEMMA MirrorRows ==
  ASSUME Mirrored, NEW t \in Tables
  PROVE  /\ \A r \in memory[t] : /\ r \in Rows[t] /\ Default(r) \in live[t]
                                 /\ Default(r).id = r.id /\ Default(r).org = r.org
         /\ \A s \in live[t] : \E r \in memory[t] : /\ r \in Rows[t] /\ s = Default(r)
                                                   /\ s.id = r.id /\ s.org = r.org
<1>1. \A r \in memory[t] : r \in Rows[t] /\ Default(r).id = r.id /\ Default(r).org = r.org
  BY KeyKept DEF Mirrored
<1> QED BY <1>1 DEF Mirrored

\* A lookup by organisation and id finds the same in both, a missing id nothing.
LEMMA LookupSame ==
  ASSUME Mirrored, NEW t \in Tables, \A r \in Rows[t] : r.id \notin {Null, ""}
  PROVE  \A org, id, key : (key = IF id = Null THEN "" ELSE id) =>
           IdOr(Named(memory[t], org, id)) = IdOr(Named(live[t], org, key))
<1> SUFFICES ASSUME NEW org, NEW id, NEW key, key = IF id = Null THEN "" ELSE id
             PROVE  IdOr(Named(memory[t], org, id)) = IdOr(Named(live[t], org, key))
  OBVIOUS
<1>1. ASSUME NEW r \in Named(memory[t], org, id) PROVE id = key /\ Default(r) \in Named(live[t], org, key)
  BY <1>1, MirrorRows DEF Named
<1>2. ASSUME NEW s \in Named(live[t], org, key)
      PROVE  id = key /\ \E r \in Named(memory[t], org, id) : TRUE
  <2>1. PICK r \in memory[t] : r \in Rows[t] /\ s.id = r.id /\ s.org = r.org
    BY <1>2, MirrorRows DEF Named
  <2> QED BY <1>2, <2>1 DEF Named
<1>3. CASE Named(memory[t], org, id) = {}
  BY <1>2, <1>3 DEF IdOr
<1>4. CASE Named(memory[t], org, id) # {}
  <2>1. Named(live[t], org, key) # {} /\ id = key BY <1>1, <1>4
  <2>2. {r.id : r \in Named(memory[t], org, id)} = {id} BY <1>4 DEF Named
  <2>3. {r.id : r \in Named(live[t], org, key)} = {key} BY <2>1 DEF Named
  <2> QED BY <1>4, <2>1, <2>2, <2>3 DEF IdOr
<1> QED BY <1>3, <1>4

\* Equal tables give equal deal pipelines.
LEMMA PipelineSame == Mirrored => PipelineMemory = PipelineLive
<1> SUFFICES ASSUME Mirrored PROVE PipelineMemory = PipelineLive
  OBVIOUS
<1> DEFINE InMemory(d) == PipelineRows(d, Named(memory.companies, d.org, d.company),
                                          Named(memory.pipelines, d.org, d.pipeline))
           InLive(d) == PipelineRows(d, Named(live.companies, d.org, d.company),
                                        Named(live.pipelines, d.org, d.pipeline))
<1>1. ASSUME NEW d \in memory.deals PROVE InMemory(d) = InLive(Default(d))
  <2>1. d \in Rows["deals"] /\ Default(d).id = d.id /\ Default(d).org = d.org
    BY MirrorRows, TableNames
  <2>2. IdOr(Named(memory.companies, d.org, d.company))
          = IdOr(Named(live.companies, Default(d).org, Default(d).company))
    <3>1. \A r \in Rows["companies"] : r.id \notin {Null, ""} BY Columns, KeysAssumption
    <3>2. Default(d).company = IF d.company = Null THEN "" ELSE d.company BY <2>1, Columns
    <3>3. \A t \in Tables : (\A r \in Rows[t] : r.id \notin {Null, ""}) =>
            IdOr(Named(memory[t], d.org, d.company)) = IdOr(Named(live[t], d.org, Default(d).company))
      BY <3>2, LookupSame
    <3>4. IdOr(Named(memory["companies"], d.org, d.company))
            = IdOr(Named(live["companies"], d.org, Default(d).company))
      BY <3>1, <3>3, TableNames
    <3> QED BY <2>1, <3>4
  <2>3. IdOr(Named(memory.pipelines, d.org, d.pipeline))
          = IdOr(Named(live.pipelines, Default(d).org, Default(d).pipeline))
    <3>1. \A r \in Rows["pipelines"] : r.id \notin {Null, ""} BY Columns, KeysAssumption
    <3>2. Default(d).pipeline = IF d.pipeline = Null THEN "" ELSE d.pipeline BY <2>1, Columns
    <3>3. \A t \in Tables : (\A r \in Rows[t] : r.id \notin {Null, ""}) =>
            IdOr(Named(memory[t], d.org, d.pipeline)) = IdOr(Named(live[t], d.org, Default(d).pipeline))
      BY <3>2, LookupSame
    <3>4. IdOr(Named(memory["pipelines"], d.org, d.pipeline))
            = IdOr(Named(live["pipelines"], d.org, Default(d).pipeline))
      BY <3>1, <3>3, TableNames
    <3> QED BY <2>1, <3>4
  <2> QED BY <2>1, <2>2, <2>3 DEF PipelineRows
<1>2. live.deals = {Default(d) : d \in memory.deals} BY TableNames DEF Mirrored
<1> HIDE DEF InMemory, InLive
<1>3. UNION {InMemory(d) : d \in memory.deals} = UNION {InLive(d) : d \in live.deals}
  BY <1>1, <1>2
<1> QED BY <1>3 DEF PipelineMemory, PipelineLive, InMemory, InLive

\* TablesAgree mirrors every table.
LEMMA Mirroring == TypeOK /\ TablesAgree /\ Comparable => Mirrored
BY DEF TypeOK, TablesAgree, Mirrored

\* The stand-in's deal pipeline has the rows of the SQL view, whatever is missing
\* or empty in the deals, the companies and the pipelines.
THEOREM PipelineSameView == Spec => []PipelineAgrees
<1>1. TypeOK /\ TablesAgree => PipelineAgrees BY Mirroring, PipelineSame DEF PipelineAgrees
<1> QED BY <1>1, TypeCorrect, TablesSame, PTL

-----------------------------------------------------------------------------
(***************************************************************************)
(* v_client_360_deals.  A linked row is an opportunity, a company of its   *)
(* account's name, and a deal of that company.                             *)
(***************************************************************************)
Link(o, d) == [opportunity |-> o.id, org |-> o.org, deal |-> d.id]

\* A linked row has a deal; the rows without one stand for nothing found.
LEMMA LinkedRow ==
  ASSUME NEW o, NEW deals, \A d \in deals : d.id # Null, NEW row
  PROVE  (row \in Client360Rows(o, deals) /\ row.deal # Null)
           <=> (\E d \in deals : row = Link(o, d))
<1>1. ASSUME row \in Client360Rows(o, deals), row.deal # Null
      PROVE  \E d \in deals : row = Link(o, d)
  <2>1. row \in [opportunity : {o.id}, org : {o.org}, deal : IdOr(deals)]
    BY <1>1 DEF Client360Rows
  <2>2. row.deal \in IdOr(deals) /\ row.opportunity = o.id /\ row.org = o.org
        /\ row = [opportunity |-> row.opportunity, org |-> row.org, deal |-> row.deal]
    BY <2>1
  <2>3. PICK d \in deals : row.deal = d.id BY <1>1, <2>2 DEF IdOr
  <2> QED BY <2>2, <2>3 DEF Link
<1>2. ASSUME NEW d \in deals, row = Link(o, d)
      PROVE  row \in Client360Rows(o, deals) /\ row.deal # Null
  <2>1. d.id \in IdOr(deals) BY DEF IdOr
  <2>2. row.deal = d.id BY <1>2 DEF Link
  <2> QED BY <1>2, <2>1, <2>2 DEF Client360Rows, Link
<1> QED BY <1>1, <1>2

\* Every deal of either sink has an id.
LEMMA DealHasId ==
  ASSUME Mirrored
  PROVE  (\A d \in memory.deals : d.id # Null) /\ (\A d \in live.deals : d.id # Null)
<1>1. \A r \in Rows["deals"] : r.id # Null BY Columns, KeysAssumption
<1> QED BY <1>1, MirrorRows, TableNames

\* What the SQL view links.
LEMMA LinkedLive ==
  ASSUME Mirrored, NEW row
  PROVE  row \in Linked(Client360Live) <=>
           \E o \in live.opportunities : \E c \in CompaniesLive(o) :
             \E d \in DealsOf(live.deals, c.org, c) : row = Link(o, d)
<1>1. \A o \in live.opportunities : \A c \in CompaniesLive(o) :
        (row \in Client360Rows(o, DealsOf(live.deals, c.org, c)) /\ row.deal # Null)
          <=> (\E d \in DealsOf(live.deals, c.org, c) : row = Link(o, d))
  BY DealHasId, LinkedRow DEF DealsOf
<1>2. \A o : ~(row \in Client360Rows(o, {}) /\ row.deal # Null)
  BY LinkedRow
<1> DEFINE Of(o) == IF CompaniesLive(o) = {} THEN Client360Rows(o, {})
                    ELSE UNION {Client360Rows(o, DealsOf(live.deals, c.org, c)) : c \in CompaniesLive(o)}
<1>3. \A o \in live.opportunities : (row \in Of(o) /\ row.deal # Null) <=>
        (\E c \in CompaniesLive(o) : \E d \in DealsOf(live.deals, c.org, c) : row = Link(o, d))
  BY <1>1, <1>2
<1> HIDE DEF Of
<1>4. Linked(UNION {Of(o) : o \in live.opportunities})
        = {r \in UNION {Of(o) : o \in live.opportunities} : r.deal # Null}
  BY DEF Linked
<1>5. row \in Linked(UNION {Of(o) : o \in live.opportunities}) <=>
        (\E o \in live.opportunities : row \in Of(o) /\ row.deal # Null)
  BY <1>4
<1> QED BY <1>3, <1>5 DEF Client360Live, Of

\* What the stand-in adds.
LEMMA LinkedInvented ==
  ASSUME Mirrored, NEW row
  PROVE  row \in Linked(Client360Invented) <=>
           \E o \in live.opportunities : \E c \in CompaniesInvented(o) :
             \E d \in DealsOf(live.deals, c.org, c) : row = Link(o, d)
<1>1. \A o \in live.opportunities : \A c \in CompaniesInvented(o) :
        (row \in Client360Rows(o, DealsOf(live.deals, c.org, c)) /\ row.deal # Null)
          <=> (\E d \in DealsOf(live.deals, c.org, c) : row = Link(o, d))
  BY DealHasId, LinkedRow DEF DealsOf
<1> DEFINE Of(o) == UNION {Client360Rows(o, DealsOf(live.deals, c.org, c)) : c \in CompaniesInvented(o)}
<1>2. \A o \in live.opportunities : (row \in Of(o) /\ row.deal # Null) <=>
        (\E c \in CompaniesInvented(o) : \E d \in DealsOf(live.deals, c.org, c) : row = Link(o, d))
  BY <1>1
<1> HIDE DEF Of
<1>3. Linked(UNION {Of(o) : o \in live.opportunities})
        = {r \in UNION {Of(o) : o \in live.opportunities} : r.deal # Null}
  BY DEF Linked
<1>4. row \in Linked(UNION {Of(o) : o \in live.opportunities}) <=>
        (\E o \in live.opportunities : row \in Of(o) /\ row.deal # Null)
  BY <1>3
<1> QED BY <1>2, <1>4 DEF Client360Invented, Of

\* What the stand-in's view links.
LEMMA LinkedMemory ==
  ASSUME Mirrored, NEW row
  PROVE  row \in Linked(Client360Memory) <=>
           \E o \in memory.opportunities : \E c \in CompaniesMemory(o) :
             \E d \in DealsOf(memory.deals, o.org, c) : row = Link(o, d)
<1> DEFINE Found(o) == UNION {DealsOf(memory.deals, o.org, c) : c \in CompaniesMemory(o)}
           Of(o) == Client360Rows(o, Found(o))
<1>1. \A o : \A d \in Found(o) : d.id # Null BY DealHasId DEF DealsOf
<1>2. \A o : \A d : d \in Found(o) <=> \E c \in CompaniesMemory(o) : d \in DealsOf(memory.deals, o.org, c)
  OBVIOUS
<1> HIDE DEF Found
<1>3. \A o : (row \in Of(o) /\ row.deal # Null) <=> (\E d \in Found(o) : row = Link(o, d))
  BY <1>1, LinkedRow
<1> HIDE DEF Of
<1>4. row \in Linked(UNION {Of(o) : o \in memory.opportunities}) <=>
        (\E o \in memory.opportunities : row \in Of(o) /\ row.deal # Null)
  BY DEF Linked
<1>5. row \in Linked(UNION {Of(o) : o \in memory.opportunities}) <=>
           \E o \in memory.opportunities : \E c \in CompaniesMemory(o) :
             \E d \in DealsOf(memory.deals, o.org, c) : row = Link(o, d)
  BY <1>2, <1>3, <1>4
<1> QED BY <1>5 DEF Client360Memory, Of, Found

\* The accounts of one id in an organisation have one name.
LEMMA AccountName ==
  ASSUME Mirrored, \A r, s \in live.accounts : r.org = s.org /\ r.id = s.id => r = s,
         NEW o, NEW a \in Named(memory.accounts, o.org, o.account)
  PROVE  NameInMemory(o) = NameOrEmpty(a)
<1> DEFINE found == Named(memory.accounts, o.org, o.account)
<1>1. \A b \in found : NameOrEmpty(b) = NameOrEmpty(a) /\ NameOrEmpty(b) \in Names
  <2> SUFFICES ASSUME NEW b \in found
               PROVE  NameOrEmpty(b) = NameOrEmpty(a) /\ NameOrEmpty(b) \in Names
    OBVIOUS
  <2>1. a \in memory.accounts /\ b \in memory.accounts /\ a.org = b.org /\ a.id = b.id
    BY DEF Named
  <2>2. a \in Rows["accounts"] /\ b \in Rows["accounts"] /\ Default(a) = Default(b)
    BY <2>1, MirrorRows, TableNames
  <2>3. NameOrEmpty(b) = NameOrEmpty(a) /\ b.name \in OrNull(Names)
    BY <2>2, Columns
  <2> QED BY <2>3, NamesAssumption DEF NameOrEmpty, OrNull
<1>2. found # {} /\ a \in found OBVIOUS
<1> HIDE DEF found
<1>3. \E n \in Names : \E b \in found : n = NameOrEmpty(b) BY <1>1, <1>2
<1>4. \A n \in Names : (\E b \in found : n = NameOrEmpty(b)) => n = NameOrEmpty(a) BY <1>1
<1>5. (CHOOSE n \in Names : \E b \in found : n = NameOrEmpty(b)) = NameOrEmpty(a)
  BY <1>3, <1>4
<1> QED BY <1>2, <1>5 DEF NameInMemory, found

\* What the SQL view links, the stand-in's links.
LEMMA LiveIsInMemory ==
  ASSUME Mirrored, \A r, s \in live.accounts : r.org = s.org /\ r.id = s.id => r = s
  PROVE  \A o \in live.opportunities : \A c \in CompaniesLive(o) :
           \A d \in DealsOf(live.deals, c.org, c) :
             \E p \in memory.opportunities : \E k \in CompaniesMemory(p) :
               \E e \in DealsOf(memory.deals, p.org, k) : Link(p, e) = Link(o, d)
<1> TAKE o \in live.opportunities
<1> TAKE c \in CompaniesLive(o)
<1> TAKE d \in DealsOf(live.deals, c.org, c)
<1>1. PICK a \in live.accounts : /\ a.org = o.org /\ a.id = o.account
                                /\ c.name = a.name /\ c.org = a.org
  BY DEF CompaniesLive, Named
<1>2. c \in live.companies /\ d \in live.deals /\ d.company = c.id /\ d.org = c.org
  BY DEF CompaniesLive, DealsOf
<1>3. PICK p \in memory.opportunities :
        p \in Rows["opportunities"] /\ o = Default(p) /\ o.id = p.id /\ o.org = p.org
  BY MirrorRows, TableNames
<1>4. PICK b \in memory.accounts :
        b \in Rows["accounts"] /\ a = Default(b) /\ a.id = b.id /\ a.org = b.org
  BY MirrorRows, TableNames
<1>5. PICK k \in memory.companies :
        k \in Rows["companies"] /\ c = Default(k) /\ c.id = k.id /\ c.org = k.org
  BY <1>2, MirrorRows, TableNames
<1>6. PICK e \in memory.deals :
        e \in Rows["deals"] /\ d = Default(e) /\ d.id = e.id /\ d.org = e.org
  BY <1>2, MirrorRows, TableNames
<1>7. b \in Named(memory.accounts, p.org, p.account)
  <2>1. o.account = IF p.account = Null THEN "" ELSE p.account BY <1>3, Columns
  <2>2. b.id \in AccountIds /\ {Null, ""} \cap AccountIds = {} BY <1>4, Columns, KeysAssumption
  <2>3. p.account = b.id BY <1>1, <1>4, <2>1, <2>2
  <2> QED BY <1>1, <1>3, <1>4, <2>3 DEF Named
<1>8. k \in CompaniesMemory(p)
  <2>1. NameInMemory(p) = NameOrEmpty(b) BY <1>7, AccountName
  <2>2. NameOrEmpty(b) = a.name /\ NameOrEmpty(k) = c.name BY <1>4, <1>5, Columns
  <2> QED BY <1>1, <1>3, <1>5, <2>1, <2>2 DEF CompaniesMemory
<1>9. e \in DealsOf(memory.deals, p.org, k)
  <2>1. d.company = IF e.company = Null THEN "" ELSE e.company BY <1>6, Columns
  <2>2. k.id \in CompanyIds /\ {Null, ""} \cap CompanyIds = {} BY <1>5, Columns, KeysAssumption
  <2>3. e.company = k.id BY <1>2, <1>5, <2>1, <2>2
  <2> QED BY <1>1, <1>2, <1>3, <1>6, <2>3 DEF DealsOf
<1>10. Link(p, e) = Link(o, d) BY <1>3, <1>6 DEF Link
<1> QED BY <1>8, <1>9, <1>10

\* What the stand-in adds, it links.
LEMMA InventedIsInMemory ==
  ASSUME Mirrored
  PROVE  \A o \in live.opportunities : \A c \in CompaniesInvented(o) :
           \A d \in DealsOf(live.deals, c.org, c) :
             \E p \in memory.opportunities : \E k \in CompaniesMemory(p) :
               \E e \in DealsOf(memory.deals, p.org, k) : Link(p, e) = Link(o, d)
<1> TAKE o \in live.opportunities
<1> TAKE c \in CompaniesInvented(o)
<1> TAKE d \in DealsOf(live.deals, c.org, c)
<1>1. Named(live.accounts, o.org, o.account) = {} /\ c.org = o.org /\ c.name = ""
  BY DEF CompaniesInvented
<1>2. c \in live.companies /\ d \in live.deals /\ d.company = c.id /\ d.org = c.org
  BY DEF CompaniesInvented, DealsOf
<1>3. PICK p \in memory.opportunities :
        p \in Rows["opportunities"] /\ o = Default(p) /\ o.id = p.id /\ o.org = p.org
  BY MirrorRows, TableNames
<1>4. PICK k \in memory.companies :
        k \in Rows["companies"] /\ c = Default(k) /\ c.id = k.id /\ c.org = k.org
  BY <1>2, MirrorRows, TableNames
<1>5. PICK e \in memory.deals :
        e \in Rows["deals"] /\ d = Default(e) /\ d.id = e.id /\ d.org = e.org
  BY <1>2, MirrorRows, TableNames
<1>6. Named(memory.accounts, p.org, p.account) = {}
  <2> SUFFICES ASSUME NEW b \in Named(memory.accounts, p.org, p.account) PROVE FALSE
    OBVIOUS
  <2>1. b \in memory.accounts /\ b.org = p.org /\ b.id = p.account BY DEF Named
  <2>2. /\ b \in Rows["accounts"] /\ Default(b) \in live.accounts
        /\ Default(b).id = b.id /\ Default(b).org = b.org
    BY <2>1, MirrorRows, TableNames, Columns
  <2>3. o.account = IF p.account = Null THEN "" ELSE p.account BY <1>3, Columns
  <2>4. b.id \in AccountIds /\ {Null, ""} \cap AccountIds = {} BY <2>2, Columns, KeysAssumption
  <2>5. Default(b) \in Named(live.accounts, o.org, o.account)
    BY <1>3, <2>1, <2>2, <2>3, <2>4 DEF Named
  <2> QED BY <1>1, <2>5
<1>7. k \in CompaniesMemory(p)
  <2>1. NameInMemory(p) = "" BY <1>6 DEF NameInMemory
  <2>2. NameOrEmpty(k) = c.name BY <1>4, Columns
  <2> QED BY <1>1, <1>3, <1>4, <2>1, <2>2 DEF CompaniesMemory
<1>8. e \in DealsOf(memory.deals, p.org, k)
  <2>1. d.company = IF e.company = Null THEN "" ELSE e.company BY <1>5, Columns
  <2>2. k.id \in CompanyIds /\ {Null, ""} \cap CompanyIds = {} BY <1>4, Columns, KeysAssumption
  <2>3. e.company = k.id BY <1>2, <1>4, <2>1, <2>2
  <2> QED BY <1>1, <1>2, <1>3, <1>5, <2>3 DEF DealsOf
<1>9. Link(p, e) = Link(o, d) BY <1>3, <1>5 DEF Link
<1> QED BY <1>7, <1>8, <1>9

\* What the stand-in's view links, the SQL view links or the stand-in adds for
\* an account that is not there.
LEMMA MemoryIsLive ==
  ASSUME Mirrored,
         \A r, s \in live.accounts : r.org = s.org /\ r.id = s.id => r = s
  PROVE  \A p \in memory.opportunities : \A k \in CompaniesMemory(p) :
           \A e \in DealsOf(memory.deals, p.org, k) :
             \E o \in live.opportunities : \E c \in CompaniesLive(o) \cup CompaniesInvented(o) :
               \E d \in DealsOf(live.deals, c.org, c) : Link(p, e) = Link(o, d)
<1> TAKE p \in memory.opportunities
<1> TAKE k \in CompaniesMemory(p)
<1> TAKE e \in DealsOf(memory.deals, p.org, k)
<1> DEFINE o == Default(p)
           c == Default(k)
           d == Default(e)
<1>1. /\ p \in Rows["opportunities"] /\ o \in live.opportunities
      /\ o.id = p.id /\ o.org = p.org
  BY MirrorRows, TableNames
<1>2. k \in memory.companies /\ k.org = p.org /\ NameOrEmpty(k) = NameInMemory(p)
      /\ e \in memory.deals /\ e.company = k.id /\ e.org = p.org
  BY DEF CompaniesMemory, DealsOf
<1>3. /\ k \in Rows["companies"] /\ c \in live.companies /\ c.id = k.id /\ c.org = k.org
      /\ c.name = NameOrEmpty(k)
  BY <1>2, MirrorRows, TableNames, Columns
<1>4. e \in Rows["deals"] /\ d \in live.deals /\ d.id = e.id /\ d.org = e.org
  BY <1>2, MirrorRows, TableNames
<1>5. o.account = IF p.account = Null THEN "" ELSE p.account BY <1>1, Columns
<1>6. d.company = e.company
  <2>1. d.company = IF e.company = Null THEN "" ELSE e.company BY <1>4, Columns
  <2>2. k.id \in CompanyIds /\ {Null, ""} \cap CompanyIds = {} BY <1>3, Columns, KeysAssumption
  <2> QED BY <1>2, <2>1, <2>2
<1> HIDE DEF o, c, d
<1>7. c \in CompaniesLive(o) \cup CompaniesInvented(o)
  <2>1. CASE Named(memory.accounts, p.org, p.account) # {}
    <3>1. PICK b \in memory.accounts : b \in Named(memory.accounts, p.org, p.account)
      BY <2>1 DEF Named
    <3>2. /\ b \in Rows["accounts"] /\ Default(b) \in live.accounts
          /\ Default(b).id = b.id /\ Default(b).org = b.org /\ Default(b).name = NameOrEmpty(b)
          /\ b.org = p.org /\ b.id = p.account
      BY <3>1, MirrorRows, TableNames, Columns DEF Named
    <3>3. b.id \in AccountIds /\ {Null, ""} \cap AccountIds = {} BY <3>2, Columns, KeysAssumption
    <3>4. Default(b).id = o.account BY <1>5, <3>2, <3>3
    <3>5. NameInMemory(p) = NameOrEmpty(b) BY <3>1, AccountName
    <3>6. c.name = Default(b).name BY <1>2, <1>3, <3>2, <3>5
    <3>7. Default(b) \in Named(live.accounts, o.org, o.account) BY <1>1, <3>2, <3>4 DEF Named
    <3> QED BY <1>2, <1>3, <3>2, <3>6, <3>7 DEF CompaniesLive
  <2>2. CASE Named(memory.accounts, p.org, p.account) = {}
    <3>1. c.name = "" BY <1>2, <1>3, <2>2 DEF NameInMemory
    <3>2. Named(live.accounts, o.org, o.account) = {}
      <4> SUFFICES ASSUME NEW a \in live.accounts, a.org = o.org, a.id = o.account PROVE FALSE
        BY DEF Named
      <4>1. PICK b \in memory.accounts : b \in Rows["accounts"] /\ a.id = b.id /\ a.org = b.org
        BY MirrorRows, TableNames
      <4>2. b.id \in AccountIds /\ {Null, ""} \cap AccountIds = {} BY <4>1, Columns, KeysAssumption
      <4>3. b.id = p.account BY <1>5, <4>1, <4>2
      <4>4. b \in Named(memory.accounts, p.org, p.account) BY <1>1, <4>1, <4>3 DEF Named
      <4> QED BY <2>2, <4>4
    <3> QED BY <1>1, <1>2, <1>3, <3>1, <3>2 DEF CompaniesInvented
  <2> QED BY <2>1, <2>2
<1>8. d \in DealsOf(live.deals, c.org, c) BY <1>2, <1>3, <1>4, <1>6 DEF DealsOf
<1>9. Link(p, e) = Link(o, d) BY <1>1, <1>4 DEF Link
<1> QED BY <1>1, <1>7, <1>8, <1>9

\* Equal tables link equal opportunities and deals, but for what the stand-in
\* adds.
LEMMA LinksSame == TypeOK /\ AgreeInv /\ TablesAgree => LinksAgree
<1> SUFFICES ASSUME TypeOK, AgreeInv, TablesAgree, Comparable, NEW row
             PROVE  row \in Linked(Client360Memory) <=>
                      row \in Linked(Client360Live) \/ row \in Linked(Client360Invented)
  BY DEF LinksAgree
<1>1. Mirrored BY Mirroring
<1>2. \A r, s \in live.accounts : r.org = s.org /\ r.id = s.id => r = s
  BY TableNames DEF AgreeInv
<1>3. row \in Linked(Client360Live) \/ row \in Linked(Client360Invented) <=>
        \E o \in live.opportunities : \E c \in CompaniesLive(o) \cup CompaniesInvented(o) :
          \E d \in DealsOf(live.deals, c.org, c) : row = Link(o, d)
  BY <1>1, LinkedLive, LinkedInvented
<1>4. \A o \in live.opportunities : \A c \in CompaniesLive(o) \cup CompaniesInvented(o) :
        \A d \in DealsOf(live.deals, c.org, c) :
          \E p \in memory.opportunities : \E k \in CompaniesMemory(p) :
            \E e \in DealsOf(memory.deals, p.org, k) : Link(p, e) = Link(o, d)
  <2> TAKE o \in live.opportunities
  <2> TAKE c \in CompaniesLive(o) \cup CompaniesInvented(o)
  <2> TAKE d \in DealsOf(live.deals, c.org, c)
  <2>1. CASE c \in CompaniesLive(o) BY <1>1, <1>2, <2>1, LiveIsInMemory
  <2>2. CASE c \in CompaniesInvented(o) BY <1>1, <2>2, InventedIsInMemory
  <2> QED BY <2>1, <2>2
<1>5. \A p \in memory.opportunities : \A k \in CompaniesMemory(p) :
        \A e \in DealsOf(memory.deals, p.org, k) :
          \E o \in live.opportunities : \E c \in CompaniesLive(o) \cup CompaniesInvented(o) :
            \E d \in DealsOf(live.deals, c.org, c) : Link(p, e) = Link(o, d)
  BY <1>1, <1>2, MemoryIsLive
<1>6. ASSUME NEW o \in live.opportunities, NEW c \in CompaniesLive(o) \cup CompaniesInvented(o),
             NEW d \in DealsOf(live.deals, c.org, c), row = Link(o, d)
      PROVE  row \in Linked(Client360Memory)
  <2>1. \E p \in memory.opportunities : \E k \in CompaniesMemory(p) :
          \E e \in DealsOf(memory.deals, p.org, k) : row = Link(p, e)
    BY <1>4, <1>6
  <2> QED BY <1>1, <2>1, LinkedMemory
<1>7. ASSUME row \in Linked(Client360Memory)
      PROVE  \E o \in live.opportunities : \E c \in CompaniesLive(o) \cup CompaniesInvented(o) :
               \E d \in DealsOf(live.deals, c.org, c) : row = Link(o, d)
  <2>1. PICK p \in memory.opportunities : \E k \in CompaniesMemory(p) :
          \E e \in DealsOf(memory.deals, p.org, k) : row = Link(p, e)
    BY <1>1, <1>7, LinkedMemory
  <2>2. PICK k \in CompaniesMemory(p) : \E e \in DealsOf(memory.deals, p.org, k) : row = Link(p, e)
    BY <2>1
  <2>3. PICK e \in DealsOf(memory.deals, p.org, k) : row = Link(p, e) BY <2>2
  <2> QED BY <1>5, <2>3
<1> QED BY <1>3, <1>6, <1>7

\* The stand-in links the opportunities and deals that the SQL view links, for
\* any accounts, companies and deals, missing, nameless or of one name, and
\* beside them exactly the deals of nameless companies to the opportunities
\* whose account is not there.
THEOREM LinksSameView == Spec => []LinksAgree
<1>1. Init => AgreeInv BY AgreeInit
<1>2. TypeOK /\ AgreeInv /\ [Next]_vars => AgreeInv' BY AgreeNext
<1>3. TypeOK /\ AgreeInv /\ TablesAgree => LinksAgree BY LinksSame
<1> QED BY <1>1, <1>2, <1>3, TypeCorrect, TablesSame, PTL DEF Spec
=============================================================================
