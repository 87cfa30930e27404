----------------------- MODULE IncrementalSync_proofs -----------------------
(***************************************************************************)
(* Theorems about IncrementalSync, for every number of runs and records,   *)
(* every page size and clock bound, and every overlap that is not shorter  *)
(* than the lag.                                                           *)
(***************************************************************************)
EXTENDS IncrementalSync, FiniteSetTheorems, FunctionTheorems, TLAPS

-----------------------------------------------------------------------------
(***************************************************************************)
(* Finite sets of numbers.                                                 *)
(***************************************************************************)

\* A finite set of numbers that is not empty has a greatest element: counting
\* the smaller ones numbers its elements from 0, so one of them is the last.
LEMMA Greatest ==
  ASSUME NEW S \in SUBSET Nat, IsFiniteSet(S), S # {}
  PROVE  \E m \in S : \A i \in S : i <= m
<1> DEFINE Smaller(x) == {y \in S : y < x}
           n == Cardinality(S)
           f == [x \in S |-> Cardinality(Smaller(x))]
<1>1. n \in Nat \ {0}
  BY FS_CardinalityType, FS_EmptySet
<1>2. ASSUME NEW x \in S
      PROVE  /\ IsFiniteSet(Smaller(x)) /\ Cardinality(Smaller(x)) \in Nat
             /\ Cardinality(Smaller(x)) < n
             /\ Cardinality(Smaller(x)) = n - 1 => Smaller(x) = S \ {x}
  <2>1. Smaller(x) \in SUBSET (S \ {x}) OBVIOUS
  <2>2. IsFiniteSet(S \ {x}) /\ Cardinality(S \ {x}) = n - 1
    BY FS_RemoveElement
  <2> HIDE DEF Smaller, n
  <2>3. IsFiniteSet(Smaller(x)) /\ Cardinality(Smaller(x)) <= n - 1
        /\ (Cardinality(S \ {x}) = Cardinality(Smaller(x)) => S \ {x} = Smaller(x))
    BY <2>1, <2>2, FS_Subset
  <2>4. Cardinality(Smaller(x)) \in Nat BY <2>3, FS_CardinalityType
  <2> QED BY <1>1, <2>2, <2>3, <2>4
<1>3. ASSUME NEW x \in S, NEW y \in S, x < y
      PROVE  Cardinality(Smaller(x)) < Cardinality(Smaller(y))
  <2>1. Smaller(x) \cup {x} \in SUBSET Smaller(y) /\ x \notin Smaller(x)
    <3>1. /\ \A z \in S : z < x => z < y
          /\ ~(x < x) /\ x < y
      BY <1>3
    <3>2. Smaller(x) \subseteq Smaller(y) BY <3>1
    <3>3. x \in Smaller(y) /\ x \notin Smaller(x) BY <3>1
    <3> HIDE DEF Smaller
    <3> QED BY <3>2, <3>3
  <2> HIDE DEF Smaller
  <2>2. IsFiniteSet(Smaller(x)) /\ IsFiniteSet(Smaller(y))
        /\ Cardinality(Smaller(x)) \in Nat /\ Cardinality(Smaller(y)) \in Nat
    BY <1>2
  <2>3. Cardinality(Smaller(x) \cup {x}) = Cardinality(Smaller(x)) + 1
    BY <2>1, <2>2, FS_AddElement
  <2>4. Cardinality(Smaller(x) \cup {x}) <= Cardinality(Smaller(y))
    BY <2>1, <2>2, FS_Subset
  <2> QED BY <2>2, <2>3, <2>4
<1>4. f \in Injection(S, 0..(n-1))
  <2> HIDE DEF Smaller, n
  <2>1. f \in [S -> 0..(n-1)] BY <1>1, <1>2
  <2>2. ASSUME NEW x \in S, NEW y \in S, f[x] = f[y] PROVE x = y
    <3>1. Cardinality(Smaller(x)) = Cardinality(Smaller(y)) BY <2>2
    <3>2. ~(x < y) /\ ~(y < x) BY <3>1, <1>2, <1>3
    <3> QED BY <3>2
  <2> HIDE DEF f
  <2> QED BY <2>1, <2>2, Fun_IsInj
<1>5. f \in Surjection(S, 0..(n-1))
  <2>1. IsFiniteSet(0..(n-1)) /\ Cardinality(0..(n-1)) = n
    <3> HIDE DEF n
    <3>1. 0 \in Int /\ n - 1 \in Int /\ ~(0 > n - 1) /\ n - 1 - 0 + 1 = n BY <1>1
    <3> QED BY <3>1, FS_Interval
  <2> HIDE DEF f
  <2> QED BY <2>1, <1>4, FS_Injection
<1>6. PICK x \in S : f[x] = n - 1
  <2>1. n - 1 \in 0..(n-1) BY <1>1
  <2>2. \A t \in 0..(n-1) : \E x \in S : f[x] = t
    <3> HIDE DEF f, n
    <3> QED BY <1>5, Fun_SurjectionProperties
  <2> HIDE DEF f, n
  <2> QED BY <2>1, <2>2
<1>7. Smaller(x) = S \ {x}
  <2>1. Cardinality(Smaller(x)) = n - 1 BY <1>6
  <2> HIDE DEF Smaller, n
  <2> QED BY <1>2, <2>1
<1>8. \A i \in S : i <= x
  BY <1>7
<1> QED BY <1>8

\* What newest() returns: one of the versions it is given, and none is later.
LEMMA NewestIsLatest ==
  ASSUME TypeOK, ClockInv, NEW k \in Runs
  PROVE  /\ NewestOf(k) \in Nat
         /\ NewestOf(k) = run[k].newest \/ \E r \in InHand(k) : NewestOf(k) = run[k].page[r]
         /\ run[k].newest <= NewestOf(k)
         /\ \A r \in InHand(k) : run[k].page[r] <= NewestOf(k)
<1> DEFINE S == {run[k].newest} \cup {run[k].page[r] : r \in InHand(k)}
<1>1. now \in Nat /\ S \in SUBSET Nat /\ \A v \in S : v <= now
  BY DEF TypeOK, ClockInv, InHand
<1>2. IsFiniteSet(S) /\ S # {}
  <2>1. S # {} OBVIOUS
  <2> HIDE DEF S
  <2> QED BY <1>1, <2>1, FS_BoundedSetOfNaturals
<1>3. PICK m \in S : \A i \in S : i <= m
  <2> HIDE DEF S
  <2> QED BY <1>1, <1>2, Greatest
<1>4. \A r \in InHand(k) : run[k].newest <= m /\ run[k].page[r] <= m
  BY <1>3
<1>5. NewestOf(k) \in S /\ \A r \in InHand(k) : run[k].newest <= NewestOf(k)
                                              /\ run[k].page[r] <= NewestOf(k)
  <2> DEFINE P(t) == \A r \in InHand(k) : run[k].newest <= t /\ run[k].page[r] <= t
  <2>1. NewestOf(k) = CHOOSE t \in S : P(t) BY DEF NewestOf
  <2>2. \E t \in S : P(t) BY <1>4
  <2> HIDE DEF S, P
  <2>3. NewestOf(k) \in S /\ P(NewestOf(k)) BY <2>1, <2>2
  <2> QED BY <2>3 DEF P
<1> QED BY <1>1, <1>5

-----------------------------------------------------------------------------
(***************************************************************************)
(* Positions in a listing.                                                 *)
(***************************************************************************)

Versions == [Records -> Nat]
Before(k, s, r) == {q \in Window(k, s) : Precedes(k, s, q, r)}

\* The listing is in a strict total order.
LEMMA OrderIsTotal ==
  ASSUME NEW k, NEW s \in Versions
  PROVE  \A p, q, r \in Records :
           /\ ~Precedes(k, s, q, q)
           /\ Precedes(k, s, p, q) /\ Precedes(k, s, q, r) => Precedes(k, s, p, r)
           /\ q # r => Precedes(k, s, q, r) \/ Precedes(k, s, r, q)
<1>1. \A r \in Records : r \in Nat /\ s[r] \in Nat
  BY SizesAssumption DEF Records, Versions
<1>2. CASE run[k].mode = "incremental"
  BY <1>1, <1>2 DEF Precedes
<1>3. CASE run[k].mode # "incremental"
  BY <1>1, <1>3 DEF Precedes
<1> QED BY <1>2, <1>3

\* Listings are finite.
LEMMA ListingIsFinite ==
  ASSUME NEW k, NEW s
  PROVE  /\ Window(k, s) \subseteq Records
         /\ IsFiniteSet(Window(k, s)) /\ Cardinality(Window(k, s)) \in Nat
         /\ Cardinality(Window(k, s)) <= R
         /\ \A r : /\ IsFiniteSet(Before(k, s, r))
                   /\ Position(k, s, r) = Cardinality(Before(k, s, r))
                   /\ Position(k, s, r) \in Nat
<1>1. IsFiniteSet(Records) /\ Cardinality(Records) <= R
  <2>1. IsFiniteSet(1..R) /\ Cardinality(1..R) = IF 1 > R THEN 0 ELSE R - 1 + 1
    BY SizesAssumption, FS_Interval
  <2> QED BY <2>1, SizesAssumption DEF Records
<1>2. Window(k, s) \in SUBSET Records BY DEF Window
<1>3. IsFiniteSet(Window(k, s)) /\ Cardinality(Window(k, s)) <= Cardinality(Records)
  BY <1>1, <1>2, FS_Subset
<1>4. ASSUME NEW r
      PROVE  /\ IsFiniteSet(Before(k, s, r))
             /\ Position(k, s, r) = Cardinality(Before(k, s, r))
  <2>1. Before(k, s, r) \in SUBSET Window(k, s) BY DEF Before
  <2>2. IsFiniteSet(Before(k, s, r)) BY <1>3, <2>1, FS_Subset
  <2>3. Position(k, s, r) = Cardinality(Before(k, s, r)) BY DEF Position, Before
  <2> QED BY <2>2, <2>3
<1>5. Cardinality(Records) \in Nat /\ Cardinality(Window(k, s)) \in Nat
  BY <1>1, <1>3, FS_CardinalityType
<1>6. \A r : Position(k, s, r) \in Nat
  BY <1>4, FS_CardinalityType
<1> QED BY <1>1, <1>2, <1>3, <1>4, <1>5, <1>6, SizesAssumption

\* A record comes at a lower position than those it precedes.
LEMMA PositionGrows ==
  ASSUME NEW k, NEW s \in Versions, NEW q \in Window(k, s), NEW r \in Records,
         Precedes(k, s, q, r)
  PROVE  Position(k, s, q) < Position(k, s, r)
<1>1. q \in Records BY ListingIsFinite
<1>2. Before(k, s, q) \subseteq Before(k, s, r)
  BY <1>1, OrderIsTotal, ListingIsFinite DEF Before
<1>3. q \in Before(k, s, r) /\ q \notin Before(k, s, q)
  BY <1>1, OrderIsTotal DEF Before
<1>4. Before(k, s, q) \cup {q} \in SUBSET Before(k, s, r)
  BY <1>2, <1>3
<1>5. Cardinality(Before(k, s, q) \cup {q}) <= Cardinality(Before(k, s, r))
  BY <1>4, ListingIsFinite, FS_Subset
<1>6. Cardinality(Before(k, s, q) \cup {q}) = Cardinality(Before(k, s, q)) + 1
  BY <1>3, ListingIsFinite, FS_AddElement
<1> QED BY <1>5, <1>6, ListingIsFinite

\* Positions in a listing are below its length, and no two records share one.
LEMMA PositionsAreDistinct ==
  ASSUME NEW k, NEW s \in Versions
  PROVE  \A q, r \in Window(k, s) :
           /\ Position(k, s, r) < Cardinality(Window(k, s))
           /\ q # r => Position(k, s, q) # Position(k, s, r)
<1>1. ASSUME NEW r \in Window(k, s)
      PROVE  Position(k, s, r) < Cardinality(Window(k, s))
  <2>1. r \in Records BY ListingIsFinite
  <2>2. Before(k, s, r) \in SUBSET (Window(k, s) \ {r})
    BY <2>1, OrderIsTotal DEF Before
  <2>3. /\ IsFiniteSet(Window(k, s) \ {r})
        /\ Cardinality(Window(k, s) \ {r}) = Cardinality(Window(k, s)) - 1
    BY ListingIsFinite, FS_RemoveElement
  <2>4. Cardinality(Before(k, s, r)) <= Cardinality(Window(k, s) \ {r})
    BY <2>2, <2>3, FS_Subset
  <2> QED BY <2>3, <2>4, ListingIsFinite
<1>2. ASSUME NEW q \in Window(k, s), NEW r \in Window(k, s), q # r
      PROVE  Position(k, s, q) # Position(k, s, r)
  <2>1. q \in Records /\ r \in Records BY ListingIsFinite
  <2>2. CASE Precedes(k, s, q, r)
    BY <2>1, <2>2, PositionGrows, ListingIsFinite
  <2>3. CASE Precedes(k, s, r, q)
    BY <2>1, <2>3, PositionGrows, ListingIsFinite
  <2> QED BY <1>2, <2>1, <2>2, <2>3, OrderIsTotal
<1> QED BY <1>1, <1>2

\* No more records than positions lie in a stretch of a listing.
LEMMA StretchIsShort ==
  ASSUME NEW k, NEW s \in Versions, NEW lo \in Nat, NEW hi \in Nat,
         NEW S \in SUBSET Window(k, s),
         \A r \in S : lo <= Position(k, s, r) /\ Position(k, s, r) < hi
  PROVE  /\ IsFiniteSet(S) /\ Cardinality(S) \in Nat
         /\ lo <= hi => Cardinality(S) <= hi - lo
         /\ hi <= lo => Cardinality(S) = 0
<1> DEFINE f == [r \in S |-> Position(k, s, r)]
<1>1. IsFiniteSet(S) /\ Cardinality(S) \in Nat
  BY ListingIsFinite, FS_Subset, FS_CardinalityType
<1>2. f \in [S -> lo..(hi-1)]
  BY ListingIsFinite
<1>3. \A q, r \in S : f[q] = f[r] => q = r
  BY PositionsAreDistinct
<1>4. f \in Injection(S, lo..(hi-1))
  <2> HIDE DEF f
  <2> QED BY <1>2, <1>3, Fun_IsInj
<1>5. /\ IsFiniteSet(lo..(hi-1))
      /\ Cardinality(lo..(hi-1)) = IF lo > hi - 1 THEN 0 ELSE hi - 1 - lo + 1
  <2>1. lo \in Int /\ hi - 1 \in Int OBVIOUS
  <2> QED BY <2>1, FS_Interval
<1>6. Cardinality(S) <= Cardinality(lo..(hi-1))
  <2> HIDE DEF f
  <2> QED BY <1>4, <1>5, FS_Injection
<1> QED BY <1>1, <1>5, <1>6

-----------------------------------------------------------------------------
(***************************************************************************)
(* Pages.                                                                  *)
(***************************************************************************)

\* A page is not longer than PageSize, ends within the listing, and has no
\* gap; the records before its end are those before its start and its own.
LEMMA PageIsCut ==
  ASSUME TypeOK, NEW k \in Runs
  PROVE  LET n == Cardinality(PageAt(k))  W == Window(k, source) IN
         /\ IsFiniteSet(PageAt(k)) /\ n \in Nat /\ n <= PageSize
         /\ run[k].offset + n <= R
         /\ \A r \in W : Position(k, source, r) < run[k].offset + n <=>
                           Position(k, source, r) < run[k].offset \/ r \in PageAt(k)
<1> DEFINE n == Cardinality(PageAt(k))
           W == Window(k, source)
           o == run[k].offset
<1>1. source \in Versions /\ o \in Nat /\ o <= R /\ R \in Nat /\ PageSize \in Nat
  BY SizesAssumption DEF TypeOK, Versions
<1>2. PageAt(k) \in SUBSET W BY DEF PageAt
<1>3. /\ IsFiniteSet(PageAt(k)) /\ n \in Nat /\ n <= PageSize
  <2>1. \A r \in PageAt(k) : o <= Position(k, source, r)
                             /\ Position(k, source, r) < o + PageSize
    BY DEF PageAt
  <2>2. o + PageSize \in Nat /\ o <= o + PageSize /\ o + PageSize - o = PageSize
    BY <1>1
  <2> HIDE DEF n, W, o
  <2> QED BY <1>1, <1>2, <2>1, <2>2, StretchIsShort DEF n, W
<1>4. o + n <= R
  <2>1. Cardinality(W) \in Nat /\ Cardinality(W) <= R BY ListingIsFinite
  <2>2. \A r \in PageAt(k) : o <= Position(k, source, r)
                             /\ Position(k, source, r) < Cardinality(W)
    BY <1>1, <1>2, PositionsAreDistinct DEF PageAt
  <2>3. /\ o <= Cardinality(W) => n <= Cardinality(W) - o
        /\ Cardinality(W) <= o => n = 0
    <3> HIDE DEF o
    <3> QED BY <1>1, <1>2, <2>1, <2>2, StretchIsShort
  <2> HIDE DEF n, W, o
  <2> QED BY <1>1, <1>3, <2>1, <2>3
<1>5. ASSUME NEW r \in PageAt(k) PROVE Position(k, source, r) < o + n
  <2> DEFINE A == {q \in W : Position(k, source, q) < o}
             B == PageAt(k) \ {r}
  <2>1. r \in W /\ r \in Records BY <1>2, ListingIsFinite
  <2>2. IsFiniteSet(A) /\ Cardinality(A) \in Nat /\ Cardinality(A) <= o
    <3>1. \A q \in A : 0 <= Position(k, source, q) /\ Position(k, source, q) < o
      BY ListingIsFinite
    <3>2. A \in SUBSET Window(k, source) OBVIOUS
    <3> HIDE DEF A, o
    <3> QED BY <1>1, <3>1, <3>2, StretchIsShort
  <2>3. IsFiniteSet(B) /\ Cardinality(B) = n - 1
    BY <1>3, FS_RemoveElement
  <2>4. Before(k, source, r) \in SUBSET (A \cup B)
    <3>1. SUFFICES ASSUME NEW q \in Before(k, source, r), q \notin A
                   PROVE  q \in B
      OBVIOUS
    <3>2. q \in W /\ q \in Records /\ Precedes(k, source, q, r)
      BY ListingIsFinite DEF Before
    <3>3. Position(k, source, q) < Position(k, source, r) /\ q # r
      BY <1>1, <2>1, <3>2, PositionGrows, OrderIsTotal
    <3>4. Position(k, source, q) \in Nat /\ Position(k, source, r) \in Nat
      BY ListingIsFinite
    <3>5. Position(k, source, r) < o + PageSize BY DEF PageAt
    <3>6. o <= Position(k, source, q) /\ Position(k, source, q) < o + PageSize
      BY <1>1, <3>1, <3>2, <3>3, <3>4, <3>5
    <3> QED BY <3>2, <3>3, <3>6 DEF PageAt
  <2>5. /\ IsFiniteSet(A \cup B)
        /\ Cardinality(A \cup B) = Cardinality(A) + Cardinality(B) - Cardinality(A \cap B)
        /\ Cardinality(A \cap B) \in Nat
    <3> HIDE DEF A, B
    <3> QED BY <2>2, <2>3, FS_Union, FS_Intersection, FS_CardinalityType
  <2>6. Cardinality(Before(k, source, r)) <= Cardinality(A \cup B)
    <3> HIDE DEF A, B
    <3> QED BY <2>4, <2>5, FS_Subset
  <2>7. /\ Position(k, source, r) = Cardinality(Before(k, source, r))
        /\ Position(k, source, r) \in Nat
    BY ListingIsFinite
  <2> HIDE DEF A, B, n, o
  <2>8. Cardinality(A \cup B) <= o + (n - 1)
    BY <1>1, <1>3, <2>2, <2>3, <2>5
  <2>9. Cardinality(A \cup B) \in Nat BY <2>5, FS_CardinalityType
  <2> QED BY <1>1, <1>3, <2>6, <2>7, <2>8, <2>9
<1>6. ASSUME NEW r \in W, Position(k, source, r) < o + n
      PROVE  Position(k, source, r) < o \/ r \in PageAt(k)
  <2>1. Position(k, source, r) \in Nat BY ListingIsFinite
  <2> HIDE DEF n
  <2> QED BY <1>1, <1>3, <1>6, <2>1 DEF PageAt
<1>7. ASSUME NEW r \in W, Position(k, source, r) < o
      PROVE  Position(k, source, r) < o + n
  <2>1. Position(k, source, r) \in Nat BY ListingIsFinite
  <2> HIDE DEF n, o
  <2> QED BY <1>1, <1>3, <1>7, <2>1
<1> QED BY <1>3, <1>4, <1>5, <1>6, <1>7

-----------------------------------------------------------------------------
(***************************************************************************)
(* What each action does to the runs.                                      *)
(***************************************************************************)

RunStates ==
  [pc : Steps, refresh : BOOLEAN, page : [Records -> Nat], last : BOOLEAN,
   mode : {"none", "full", "incremental"}, since : Nat, offset : 0..R,
   newest : Nat, completed : BOOLEAN, calm : BOOLEAN]

\* Run k becomes the record n, and the other runs stay.
Becomes(k, n) ==
  /\ n \in RunStates
  /\ run' \in [Runs -> RunStates]
  /\ run'[k] = n
  /\ \A j \in Runs : j # k => run'[j] = run[j]

LEMMA PutRun ==
  ASSUME TypeOK, NEW k \in Runs, NEW n \in RunStates, run' = [run EXCEPT ![k] = n]
  PROVE  Becomes(k, n)
BY DEF TypeOK, RunStates, Becomes

\* The type of a run, field by field.
LEMMA RunFields ==
  ASSUME TypeOK, NEW k \in Runs
  PROVE  /\ run[k] \in RunStates
         /\ run[k].pc \in Steps /\ run[k].refresh \in BOOLEAN
         /\ run[k].page \in [Records -> Nat] /\ run[k].last \in BOOLEAN
         /\ run[k].mode \in {"none", "full", "incremental"}
         /\ run[k].since \in Nat /\ run[k].offset \in 0..R /\ run[k].newest \in Nat
         /\ run[k].completed \in BOOLEAN /\ run[k].calm \in BOOLEAN
BY DEF TypeOK, RunStates

\* The checkpoint of run k, except for what Checkpoint writes, and its history.
Keeps(k) ==
  /\ run'[k].mode = run[k].mode /\ run'[k].since = run[k].since
  /\ run'[k].calm = run[k].calm

\* A page is taken in hand.
LEMMA FetchEffect ==
  ASSUME TypeOK, NEW k \in Runs, FetchPage(k)
  PROVE  /\ run' \in [Runs -> RunStates]
         /\ \A j \in Runs : j # k => run'[j] = run[j]
         /\ Keeps(k) /\ run'[k].pc = "load"
         /\ run'[k].page = [r \in Records |-> IF r \in PageAt(k) THEN source[r] ELSE 0]
         /\ run'[k].last = (run[k].offset + Cardinality(PageAt(k)) >= Cardinality(Window(k, source)))
         /\ run'[k].offset = run[k].offset /\ run'[k].newest = run[k].newest
         /\ run'[k].completed = run[k].completed
<1> DEFINE p == [r \in Records |-> IF r \in PageAt(k) THEN source[r] ELSE 0]
           l == (run[k].offset + Cardinality(PageAt(k)) >= Cardinality(Window(k, source)))
           n == [run[k] EXCEPT !.pc = "load", !.page = p, !.last = l]
<1>1. run' = [run EXCEPT ![k] = n] BY DEF FetchPage, Fetched
<1>2. p \in [Records -> Nat] /\ l \in BOOLEAN BY DEF TypeOK
<1> HIDE DEF p, l
<1>3. n \in RunStates BY <1>2, RunFields DEF RunStates, Steps
<1>4. Becomes(k, n) BY <1>1, <1>3, PutRun
<1>5. /\ n.pc = "load" /\ n.page = p /\ n.last = l /\ n.offset = run[k].offset
      /\ n.newest = run[k].newest /\ n.completed = run[k].completed
      /\ n.mode = run[k].mode /\ n.since = run[k].since /\ n.calm = run[k].calm
  BY RunFields DEF RunStates
<1> HIDE DEF n
<1>6. QED BY <1>4, <1>5 DEF Becomes, Keeps, p, l

\* The page in hand has been loaded.
LEMMA LoadEffect ==
  ASSUME TypeOK, NEW k \in Runs, LoadPage(k)
  PROVE  /\ run' \in [Runs -> RunStates]
         /\ \A j \in Runs : j # k => run'[j] = run[j]
         /\ Keeps(k) /\ run'[k].pc = "checkpoint"
         /\ run'[k].page = run[k].page /\ run'[k].last = run[k].last
         /\ run'[k].offset = run[k].offset /\ run'[k].newest = run[k].newest
         /\ run'[k].completed = run[k].completed
<1> DEFINE n == [run[k] EXCEPT !.pc = "checkpoint"]
<1>1. run' = [run EXCEPT ![k] = n] BY DEF LoadPage
<1>2. n \in RunStates BY RunFields DEF RunStates, Steps
<1>3. Becomes(k, n) BY <1>1, <1>2, PutRun
<1>4. /\ n.pc = "checkpoint" /\ n.page = run[k].page /\ n.last = run[k].last
      /\ n.offset = run[k].offset
      /\ n.newest = run[k].newest /\ n.completed = run[k].completed
      /\ n.mode = run[k].mode /\ n.since = run[k].since /\ n.calm = run[k].calm
  BY RunFields DEF RunStates
<1> HIDE DEF n
<1> QED BY <1>3, <1>4 DEF Becomes, Keeps

\* The page is counted into the cursor.
LEMMA CheckpointEffect ==
  ASSUME TypeOK, ClockInv, PageInv, NEW k \in Runs, Checkpoint(k)
  PROVE  /\ run' \in [Runs -> RunStates]
         /\ \A j \in Runs : j # k => run'[j] = run[j]
         /\ Keeps(k)
         /\ run'[k].pc = IF run[k].last THEN "insert" ELSE "fetch"
         /\ run'[k].page = NoPage /\ run'[k].last = FALSE
         /\ run'[k].offset = Reach(k) /\ run'[k].newest = NewestOf(k)
         /\ run'[k].completed = run[k].last
<1> DEFINE p == IF run[k].last THEN "insert" ELSE "fetch"
           o == Reach(k)
           w == NewestOf(k)
           n == [run[k] EXCEPT !.pc = p, !.offset = o, !.newest = w,
                   !.completed = run[k].last, !.page = NoPage, !.last = FALSE]
<1>1. run' = [run EXCEPT ![k] = n] BY DEF Checkpoint
<1>2. w \in Nat BY NewestIsLatest
<1>3. o \in 0..R
  <2>1. InHand(k) \in SUBSET Records /\ IsFiniteSet(Records)
    BY SizesAssumption, FS_Interval DEF InHand, Records
  <2>2. Cardinality(InHand(k)) \in Nat BY <2>1, FS_Subset, FS_CardinalityType
  <2> QED BY <2>2, RunFields, SizesAssumption DEF PageInv, Reach
<1>4. p \in Steps /\ NoPage \in [Records -> Nat] BY DEF Steps, NoPage
<1> HIDE DEF p, o, w, NoPage
<1>6. n \in RunStates BY <1>2, <1>3, <1>4, RunFields DEF RunStates
<1>7. Becomes(k, n) BY <1>1, <1>6, PutRun
<1>8. /\ n.pc = p /\ n.page = NoPage /\ n.last = FALSE /\ n.offset = o
      /\ n.newest = w /\ n.completed = run[k].last
      /\ n.mode = run[k].mode /\ n.since = run[k].since /\ n.calm = run[k].calm
  BY RunFields DEF RunStates
<1> HIDE DEF n
<1> QED BY <1>7, <1>8 DEF Becomes, Keeps, p, o, w

\* A new worker goes on from the checkpoint, or decides how to begin.
LEMMA ChooseEffect ==
  ASSUME TypeOK, NEW k \in Runs, ChooseMode(k)
  PROVE  /\ run' \in [Runs -> RunStates]
         /\ \A j \in Runs : j # k => run'[j] = run[j]
         /\ run'[k].page = run[k].page /\ run'[k].last = run[k].last
         /\ run'[k].offset = run[k].offset /\ run'[k].newest = run[k].newest
         /\ run'[k].completed = run[k].completed /\ run'[k].calm = run[k].calm
         /\ run[k].mode # "none" =>
              Keeps(k) /\ run'[k].pc = IF run[k].completed THEN "insert" ELSE "fetch"
         /\ run[k].mode = "none" =>
              /\ run'[k].pc = "fetch"
              /\ \/ run'[k].mode = "full" /\ run'[k].since = run[k].since
                 \/ run'[k].mode = "incremental" /\ run'[k].since = Since
<1>1. Since \in Nat BY TimesAssumption DEF Since, TypeOK
<1> DEFINE a == [run[k] EXCEPT !.pc = IF run[k].completed THEN "insert" ELSE "fetch"]
           b == [run[k] EXCEPT !.pc = "fetch", !.mode = "full"]
           c == [run[k] EXCEPT !.pc = "fetch", !.mode = "incremental", !.since = Since]
           n == IF run[k].mode # "none" THEN a
                ELSE IF run[k].refresh \/ mark = 0 THEN b ELSE c
<1>2. run' = [run EXCEPT ![k] = n] BY DEF ChooseMode
<1> HIDE DEF Since
<1>3. a \in RunStates BY RunFields DEF RunStates, Steps
<1>4. b \in RunStates BY RunFields DEF RunStates, Steps
<1>5. c \in RunStates BY <1>1, RunFields DEF RunStates, Steps
<1>6. n \in RunStates BY <1>3, <1>4, <1>5
<1>7. Becomes(k, n)
  <2> HIDE DEF n
  <2> QED BY <1>2, <1>6, PutRun
<1>8. CASE run[k].mode # "none"
  <2>1. n = a BY <1>8
  <2>2. /\ a.pc = (IF run[k].completed THEN "insert" ELSE "fetch")
        /\ a.page = run[k].page /\ a.last = run[k].last /\ a.offset = run[k].offset
        /\ a.newest = run[k].newest /\ a.completed = run[k].completed
        /\ a.mode = run[k].mode /\ a.since = run[k].since /\ a.calm = run[k].calm
    BY RunFields DEF RunStates
  <2> HIDE DEF n, a
  <2> QED BY <1>7, <1>8, <2>1, <2>2 DEF Becomes, Keeps
<1>9. CASE run[k].mode = "none" /\ (run[k].refresh \/ mark = 0)
  <2>1. n = b BY <1>9
  <2>2. /\ b.pc = "fetch"
        /\ b.page = run[k].page /\ b.last = run[k].last /\ b.offset = run[k].offset
        /\ b.newest = run[k].newest /\ b.completed = run[k].completed
        /\ b.mode = "full" /\ b.since = run[k].since /\ b.calm = run[k].calm
    BY RunFields DEF RunStates
  <2> HIDE DEF n, b
  <2> QED BY <1>7, <1>9, <2>1, <2>2 DEF Becomes
<1>10. CASE run[k].mode = "none" /\ ~(run[k].refresh \/ mark = 0)
  <2>1. n = c BY <1>10
  <2>2. /\ c.pc = "fetch"
        /\ c.page = run[k].page /\ c.last = run[k].last /\ c.offset = run[k].offset
        /\ c.newest = run[k].newest /\ c.completed = run[k].completed
        /\ c.mode = "incremental" /\ c.since = Since /\ c.calm = run[k].calm
    BY RunFields DEF RunStates
  <2> HIDE DEF n, c
  <2> QED BY <1>7, <1>10, <2>1, <2>2 DEF Becomes
<1> QED BY <1>8, <1>9, <1>10

\* A worker stops, or loses the race for the mark's first row.
LEMMA InterruptEffect ==
  ASSUME TypeOK, NEW k \in Runs, Interrupt(k)
  PROVE  /\ run' \in [Runs -> RunStates]
         /\ \A j \in Runs : j # k => run'[j] = run[j]
         /\ Keeps(k) /\ run'[k].pc = "open"
         /\ run'[k].page = NoPage /\ run'[k].last = FALSE
         /\ run'[k].offset = run[k].offset /\ run'[k].newest = run[k].newest
         /\ run'[k].completed = run[k].completed
<1> DEFINE n == [run[k] EXCEPT !.pc = "open", !.refresh = FALSE, !.page = NoPage,
                               !.last = FALSE]
<1>1. run' = [run EXCEPT ![k] = n] BY DEF Interrupt
<1>2. NoPage \in [Records -> Nat] BY DEF NoPage
<1> HIDE DEF NoPage
<1>3. n \in RunStates BY <1>2, RunFields DEF RunStates, Steps
<1>4. Becomes(k, n) BY <1>1, <1>3, PutRun
<1>5. /\ n.pc = "open" /\ n.page = NoPage /\ n.last = FALSE
      /\ n.offset = run[k].offset
      /\ n.newest = run[k].newest /\ n.completed = run[k].completed
      /\ n.mode = run[k].mode /\ n.since = run[k].since /\ n.calm = run[k].calm
  BY RunFields DEF RunStates
<1> HIDE DEF n
<1> QED BY <1>4, <1>5 DEF Becomes, Keeps

LEMMA RetryMarkEffect ==
  ASSUME TypeOK, NEW k \in Runs, run' = [run EXCEPT ![k].pc = "update"]
  PROVE  /\ run' \in [Runs -> RunStates]
         /\ \A j \in Runs : j # k => run'[j] = run[j]
         /\ Keeps(k) /\ run'[k].pc = "update"
         /\ run'[k].page = run[k].page /\ run'[k].last = run[k].last
         /\ run'[k].offset = run[k].offset /\ run'[k].newest = run[k].newest
         /\ run'[k].completed = run[k].completed
<1> DEFINE n == [run[k] EXCEPT !.pc = "update"]
<1>1. run' = [run EXCEPT ![k] = n] OBVIOUS
<1>2. n \in RunStates BY RunFields DEF RunStates, Steps
<1>3. Becomes(k, n) BY <1>1, <1>2, PutRun
<1>4. /\ n.pc = "update" /\ n.page = run[k].page /\ n.last = run[k].last
      /\ n.offset = run[k].offset
      /\ n.newest = run[k].newest /\ n.completed = run[k].completed
      /\ n.mode = run[k].mode /\ n.since = run[k].since /\ n.calm = run[k].calm
  BY RunFields DEF RunStates
<1> HIDE DEF n
<1> QED BY <1>3, <1>4 DEF Becomes, Keeps

\* A run is over and leaves nothing behind.
LEMMA EndedEffect ==
  ASSUME TypeOK, NEW k \in Runs, run' = Ended(k)
  PROVE  /\ run' \in [Runs -> RunStates]
         /\ \A j \in Runs : j # k => run'[j] = run[j]
         /\ run'[k].pc = "ended" /\ run'[k].mode = "none"
         /\ run'[k].page = NoPage /\ run'[k].last = FALSE
         /\ run'[k].offset = 0 /\ run'[k].newest = 0 /\ run'[k].since = 0
         /\ run'[k].completed = FALSE /\ run'[k].calm = FALSE
<1> DEFINE n == [NewRun EXCEPT !.pc = "ended"]
<1>1. run' = [run EXCEPT ![k] = n] BY DEF Ended
<1>2. NoPage \in [Records -> Nat] BY DEF NoPage
<1> HIDE DEF NoPage
<1>3. n \in RunStates
  <2>1. 0 \in 0..R /\ 0 \in Nat BY SizesAssumption
  <2>2. NewRun \in RunStates BY <1>2, <2>1 DEF RunStates, Steps, NewRun
  <2> QED BY <2>2 DEF RunStates, Steps
<1>4. Becomes(k, n) BY <1>1, <1>3, PutRun
<1>5. /\ n.pc = "ended" /\ n.mode = "none" /\ n.page = NoPage /\ n.last = FALSE
      /\ n.offset = 0 /\ n.newest = 0 /\ n.since = 0 /\ n.completed = FALSE
      /\ n.calm = FALSE
  BY DEF NewRun
<1> HIDE DEF n
<1> QED BY <1>4, <1>5 DEF Becomes

\* A run keeps everything but its pc and its history.
SameWork(j) ==
  /\ run'[j].mode = run[j].mode /\ run'[j].since = run[j].since
  /\ run'[j].page = run[j].page /\ run'[j].last = run[j].last
  /\ run'[j].offset = run[j].offset /\ run'[j].newest = run[j].newest
  /\ run'[j].completed = run[j].completed

LEMMA StartEffect ==
  ASSUME TypeOK, NEW k \in Runs, NEW refresh \in BOOLEAN, Start(k, refresh)
  PROVE  /\ run' \in [Runs -> RunStates]
         /\ \A j \in Runs : SameWork(j)
         /\ run'[k].pc = "open"
         /\ \A j \in Runs : j # k => run'[j].pc = run[j].pc /\ run'[j].calm = FALSE
         /\ run'[k].calm \/ ~disturbed' => \A j \in Runs : j # k => ~Active(j)
         /\ disturbed => disturbed'
<1> DEFINE others == {j \in Runs \ {k} : Active(j)}
           a == [run[k] EXCEPT !.pc = "open", !.refresh = refresh, !.calm = (others = {})]
           b(j) == [run[j] EXCEPT !.calm = FALSE]
<1>1. run' = [j \in Runs |-> IF j = k THEN a ELSE b(j)] BY DEF Start
<1>2. (others = {}) \in BOOLEAN OBVIOUS
<1>3. /\ a \in RunStates /\ a.pc = "open" /\ a.calm = (others = {})
      /\ a.page = run[k].page /\ a.last = run[k].last /\ a.offset = run[k].offset
      /\ a.newest = run[k].newest /\ a.completed = run[k].completed
      /\ a.mode = run[k].mode /\ a.since = run[k].since
  <2> HIDE DEF others
  <2> QED BY <1>2, RunFields DEF RunStates, Steps
<1>4. ASSUME NEW j \in Runs
      PROVE  /\ b(j) \in RunStates /\ b(j).pc = run[j].pc /\ b(j).calm = FALSE
             /\ b(j).page = run[j].page /\ b(j).last = run[j].last /\ b(j).offset = run[j].offset
             /\ b(j).newest = run[j].newest /\ b(j).completed = run[j].completed
             /\ b(j).mode = run[j].mode /\ b(j).since = run[j].since
  BY RunFields DEF RunStates
<1>5. disturbed' = (disturbed \/ others # {}) BY DEF Start
<1>6. others = {} => \A j \in Runs : j # k => ~Active(j) OBVIOUS
<1> HIDE DEF a, b, others
<1>7. run'[k] = a /\ \A j \in Runs : j # k => run'[j] = b(j) BY <1>1
<1>8. run' \in [Runs -> RunStates] BY <1>1, <1>3, <1>4
<1>9. \A j \in Runs : SameWork(j) BY <1>3, <1>4, <1>7 DEF SameWork
<1>10. run'[k].calm \/ ~disturbed' => others = {}
  <2>1. run'[k].calm = (others = {}) BY <1>3, <1>7
  <2> QED BY <2>1, <1>5
<1>11. disturbed => disturbed' BY <1>5
<1>12. run'[k].pc = "open" BY <1>3, <1>7
<1>13. \A j \in Runs : j # k => run'[j].pc = run[j].pc /\ run'[j].calm = FALSE
  BY <1>4, <1>7
<1> QED BY <1>6, <1>8, <1>9, <1>10, <1>11, <1>12, <1>13

LEMMA ModifyEffect ==
  ASSUME TypeOK, NEW r \in Records, NEW t \in Times, Modify(r, t)
  PROVE  /\ run' \in [Runs -> RunStates]
         /\ \A j \in Runs : SameWork(j) /\ run'[j].pc = run[j].pc /\ run'[j].calm = FALSE
         /\ ~disturbed' => ~disturbed /\ \A j \in Runs : Active(j) /\ ~run[j].completed =>
              ~WasRead(j, source, r) /\ ~WasRead(j, source', r)
         /\ source' \in Versions /\ source'[r] = t
         /\ \A q \in Records : q # r => source'[q] = source[q]
<1> DEFINE b(j) == [run[j] EXCEPT !.calm = FALSE]
<1>1. run' = [j \in Runs |-> b(j)] BY DEF Modify
<1>2. ASSUME NEW j \in Runs
      PROVE  /\ b(j) \in RunStates /\ b(j).pc = run[j].pc /\ b(j).calm = FALSE
             /\ b(j).page = run[j].page /\ b(j).last = run[j].last /\ b(j).offset = run[j].offset
             /\ b(j).newest = run[j].newest /\ b(j).completed = run[j].completed
             /\ b(j).mode = run[j].mode /\ b(j).since = run[j].since
  BY RunFields DEF RunStates
<1>3. ~disturbed' => ~disturbed /\ \A j \in Runs : Active(j) /\ ~run[j].completed =>
              ~WasRead(j, source, r) /\ ~WasRead(j, source', r)
  BY DEF Modify
<1>4. /\ source' \in Versions /\ source'[r] = t
      /\ \A q \in Records : q # r => source'[q] = source[q]
  <2>1. source \in [Records -> Nat] /\ t \in Nat
    BY TimesAssumption DEF TypeOK, Times
  <2>2. source' = [source EXCEPT ![r] = t] BY DEF Modify
  <2> QED BY <2>1, <2>2 DEF Versions
<1> HIDE DEF b
<1>5. \A j \in Runs : run'[j] = b(j) BY <1>1
<1>6. run' \in [Runs -> RunStates] BY <1>1, <1>2
<1>7. \A j \in Runs : SameWork(j) /\ run'[j].pc = run[j].pc /\ run'[j].calm = FALSE
  BY <1>2, <1>5 DEF SameWork
<1> QED BY <1>3, <1>4, <1>6, <1>7

-----------------------------------------------------------------------------
(***************************************************************************)
(* Types, times and pages.                                                 *)
(***************************************************************************)

LEMMA StepType ==
  ASSUME TypeOK, ClockInv, PageInv, [Next]_vars
  PROVE  TypeOK'
<1> USE DEF RunStates
<1>t. /\ now \in Nat /\ mark \in Nat /\ disturbed \in BOOLEAN
      /\ source \in [Records -> Nat] /\ table \in [Records -> Nat]
      /\ run \in [Runs -> RunStates]
  BY DEF TypeOK
<1>1. CASE Tick BY <1>1, <1>t DEF Tick, TypeOK
<1>2. CASE Reset BY <1>2, <1>t DEF Reset, TypeOK
<1>3. ASSUME NEW r \in Records, NEW t \in Times, Modify(r, t) PROVE TypeOK'
  <2>1. run' \in [Runs -> RunStates] /\ source' \in Versions BY <1>3, ModifyEffect
  <2> QED BY <1>3, <1>t, <2>1 DEF Modify, TypeOK, Versions
<1>4. ASSUME NEW k \in Runs, NEW refresh \in BOOLEAN, Start(k, refresh) PROVE TypeOK'
  <2>1. run' \in [Runs -> RunStates] BY <1>4, StartEffect
  <2> QED BY <1>4, <1>t, <2>1 DEF Start, TypeOK
<1>5. ASSUME NEW k \in Runs, ChooseMode(k) PROVE TypeOK'
  <2>1. run' \in [Runs -> RunStates] BY <1>5, ChooseEffect
  <2> QED BY <1>5, <1>t, <2>1 DEF ChooseMode, TypeOK
<1>6. ASSUME NEW k \in Runs, FetchPage(k) PROVE TypeOK'
  <2>1. run' \in [Runs -> RunStates] BY <1>6, FetchEffect
  <2> QED BY <1>6, <1>t, <2>1 DEF FetchPage, TypeOK
<1>7. ASSUME NEW k \in Runs, LoadPage(k) PROVE TypeOK'
  <2>1. run' \in [Runs -> RunStates] BY <1>7, LoadEffect
  <2>2. table' \in [Records -> Nat]
    <3>1. run[k].page \in [Records -> Nat] BY RunFields
    <3> QED BY <1>7, <1>t, <3>1 DEF LoadPage
  <2> QED BY <1>7, <1>t, <2>1, <2>2 DEF LoadPage, TypeOK
<1>8. ASSUME NEW k \in Runs, Checkpoint(k) PROVE TypeOK'
  <2>1. run' \in [Runs -> RunStates] BY <1>8, CheckpointEffect
  <2> QED BY <1>8, <1>t, <2>1 DEF Checkpoint, TypeOK
<1>9. ASSUME NEW k \in Runs, InsertMark(k) PROVE TypeOK'
  <2>1. run[k].newest \in Nat BY RunFields
  <2>2. run' \in [Runs -> RunStates] /\ mark' \in Nat
    <3>1. CASE run' = Ended(k) /\ mark' = run[k].newest + mark
      <4>1. run' \in [Runs -> RunStates] BY <3>1, EndedEffect
      <4>2. mark' \in Nat BY <1>t, <2>1, <3>1
      <4> QED BY <4>1, <4>2
    <3>2. CASE run' = [run EXCEPT ![k].pc = "update"] /\ mark' = mark
      BY <1>t, <3>2, RetryMarkEffect
    <3> QED BY <1>9, <3>1, <3>2 DEF InsertMark
  <2> QED BY <1>9, <1>t, <2>2 DEF InsertMark, TypeOK
<1>10. ASSUME NEW k \in Runs, UpdateMark(k) PROVE TypeOK'
  <2>1. run[k].newest \in Nat BY RunFields
  <2>2. run' = Ended(k) BY <1>10 DEF UpdateMark
  <2>3. run' \in [Runs -> RunStates] BY <2>2, EndedEffect
  <2> QED BY <1>10, <1>t, <2>1, <2>3 DEF UpdateMark, TypeOK
<1>11. ASSUME NEW k \in Runs, Interrupt(k) PROVE TypeOK'
  <2>1. run' \in [Runs -> RunStates] BY <1>11, InterruptEffect
  <2> QED BY <1>11, <1>t, <2>1 DEF Interrupt, TypeOK
<1>12. ASSUME NEW k \in Runs, Abandon(k) PROVE TypeOK'
  <2>1. run' = Ended(k) BY <1>12 DEF Abandon
  <2>2. run' \in [Runs -> RunStates] BY <2>1, EndedEffect
  <2> QED BY <1>12, <1>t, <2>2 DEF Abandon, TypeOK
<1>13. CASE UNCHANGED vars BY <1>13, <1>t DEF vars, TypeOK
<1>14. ASSUME NEW k \in Runs, Work(k) PROVE TypeOK'
  BY <1>5, <1>6, <1>7, <1>8, <1>9, <1>10, <1>14 DEF Work
<1> QED
  <2> HIDE DEF RunStates
  <2> QED BY <1>1, <1>2, <1>3, <1>4, <1>11, <1>12, <1>13, <1>14 DEF Next

\* The records in hand, and how far a run has read.
LEMMA ReachIs ==
  ASSUME TypeOK, NEW k \in Runs
  PROVE  /\ InHand(k) \subseteq Records
         /\ Reach(k) \in Nat /\ run[k].offset <= Reach(k)
         /\ run[k].page = NoPage => InHand(k) = {} /\ Reach(k) = run[k].offset
<1>1. InHand(k) \in SUBSET Records /\ IsFiniteSet(Records)
  BY SizesAssumption, FS_Interval DEF InHand, Records
<1>2. Cardinality(InHand(k)) \in Nat BY <1>1, FS_Subset, FS_CardinalityType
<1>3. run[k].page = NoPage => InHand(k) = {} BY DEF InHand, NoPage
<1>4. InHand(k) = {} => Cardinality(InHand(k)) = 0 BY FS_EmptySet
<1>5. run[k].offset \in Nat BY RunFields, SizesAssumption
<1> QED BY <1>1, <1>2, <1>3, <1>4, <1>5 DEF Reach

\* The same after a step that leaves the page and the cursor alone, that puts
\* the page away, or that takes one in hand.
LEMMA ReachStays ==
  ASSUME NEW k \in Runs, run'[k].page = run[k].page, run'[k].offset = run[k].offset
  PROVE  InHand(k)' = InHand(k) /\ Reach(k)' = Reach(k)
<1>1. InHand(k)' = InHand(k) BY DEF InHand
<1> QED BY <1>1 DEF Reach

LEMMA ReachWithout ==
  ASSUME NEW k \in Runs, run'[k].page = NoPage, run'[k].offset \in Nat
  PROVE  InHand(k)' = {} /\ Reach(k)' = run'[k].offset
<1>1. InHand(k)' = {} BY DEF InHand, NoPage
<1>2. Cardinality(InHand(k)') = 0 BY <1>1, FS_EmptySet
<1> QED BY <1>1, <1>2 DEF Reach

LEMMA ReachFetched ==
  ASSUME TypeOK, NEW k \in Runs, FetchPage(k)
  PROVE  /\ InHand(k)' = PageAt(k)
         /\ \A r \in PageAt(k) : run'[k].page[r] = source[r]
         /\ Reach(k)' = run[k].offset + Cardinality(PageAt(k))
<1>1. run'[k].page = [r \in Records |-> IF r \in PageAt(k) THEN source[r] ELSE 0]
  BY FetchEffect
<1>2. \A r \in PageAt(k) : r \in Records /\ source[r] # 0 BY DEF PageAt, Window
<1>3. InHand(k)' = PageAt(k) BY <1>1, <1>2 DEF InHand
<1>4. run'[k].offset = run[k].offset BY FetchEffect
<1> QED BY <1>1, <1>2, <1>3, <1>4 DEF Reach

\* The versions of the listing and the cut-off decide the listing.
LEMMA ListingStays ==
  ASSUME NEW k \in Runs, run'[k].mode = run[k].mode, run'[k].since = run[k].since
  PROVE  /\ Window(k, source)' = Window(k, source')
         /\ \A r : Position(k, source, r)' = Position(k, source', r)
<1>1. Window(k, source)' = Window(k, source') BY DEF Window
<1>2. \A q, r : Precedes(k, source, q, r)' <=> Precedes(k, source', q, r)
  BY DEF Precedes
<1>3. \A r : {q \in Window(k, source)' : Precedes(k, source, q, r)'}
             = {q \in Window(k, source') : Precedes(k, source', q, r)}
  BY <1>1, <1>2
<1> QED BY <1>1, <1>3 DEF Position

\* ClockInv, run by run.
RunClock(k) ==
  /\ run[k].newest <= now
  /\ run[k].since = 0 \/ run[k].since + Overlap <= now
  /\ \A r \in Records : run[k].page[r] <= source[r]

\* A step that keeps the clock and the records keeps ClockInv, if what it does
\* to run k and to the mark does.
LEMMA ClockOfOne ==
  ASSUME TypeOK, ClockInv, NEW k \in Runs,
         now' = now, source' = source, table' = table, mark' <= now,
         \A j \in Runs : j # k => run'[j] = run[j],
         run'[k].newest <= now,
         run'[k].since = 0 \/ run'[k].since + Overlap <= now,
         \A r \in Records : run'[k].page[r] <= source[r]
  PROVE  ClockInv'
<1>1. RunClock(k)' BY DEF RunClock
<1>2. ASSUME NEW j \in Runs, j # k PROVE RunClock(j)'
  BY <1>2 DEF ClockInv, RunClock
<1>3. \A j \in Runs : RunClock(j)' BY <1>1, <1>2
<1> QED BY <1>3 DEF ClockInv, RunClock

LEMMA ClockOfEnded ==
  ASSUME TypeOK, ClockInv, NEW k \in Runs,
         now' = now, source' = source, table' = table, mark' <= now, run' = Ended(k)
  PROVE  ClockInv'
<1>1. run'[k].page = NoPage /\ run'[k].newest = 0 /\ run'[k].since = 0
      /\ \A j \in Runs : j # k => run'[j] = run[j]
  BY EndedEffect
<1>2. now \in Nat /\ source \in [Records -> Nat] BY DEF TypeOK
<1>3. \A r \in Records : run'[k].page[r] <= source[r] BY <1>1, <1>2 DEF NoPage
<1>4. run'[k].newest <= now BY <1>1, <1>2
<1> QED BY <1>1, <1>3, <1>4, ClockOfOne

LEMMA StepClock ==
  ASSUME TypeOK, ClockInv, PageInv, [Next]_vars
  PROVE  ClockInv'
<1>t. /\ now \in Nat /\ mark \in Nat /\ mark <= now
      /\ source \in [Records -> Nat] /\ table \in [Records -> Nat]
      /\ \A r \in Records : source[r] <= now /\ table[r] <= source[r]
  BY DEF TypeOK, ClockInv
<1>r. ASSUME NEW k \in Runs
      PROVE  /\ run[k].newest \in Nat /\ run[k].since \in Nat /\ run[k].page \in [Records -> Nat]
             /\ run[k].newest <= now
             /\ run[k].since = 0 \/ run[k].since + Overlap <= now
             /\ \A r \in Records : run[k].page[r] <= source[r]
  BY RunFields DEF ClockInv
<1>1. CASE Tick
  <2>1. now' = now + 1 /\ UNCHANGED <<source, table, mark, run>> BY <1>1 DEF Tick
  <2>2. ASSUME NEW k \in Runs PROVE RunClock(k)'
    BY <2>1, <1>t, <1>r, TimesAssumption DEF RunClock
  <2>3. mark' <= now' /\ \A r \in Records : source'[r] <= now' /\ table'[r] <= source'[r]
    BY <2>1, <1>t
  <2> QED BY <2>2, <2>3 DEF ClockInv, RunClock
<1>2. CASE Reset
  BY <1>2, <1>t DEF Reset, ClockInv
<1>3. ASSUME NEW m \in Records, NEW t \in Times, Modify(m, t) PROVE ClockInv'
  <2>1. /\ now' = now /\ table' = table /\ mark' = mark
        /\ t <= now /\ source[m] < t /\ t \in Nat
    BY <1>3, TimesAssumption DEF Modify, Times
  <2>2. \A r \in Records : source'[r] \in Nat /\ source[r] <= source'[r] /\ source'[r] <= now
    <3>1. /\ source' \in [Records -> Nat] /\ source'[m] = t
          /\ \A q \in Records : q # m => source'[q] = source[q]
      BY <1>3, ModifyEffect DEF Versions
    <3> QED BY <2>1, <3>1, <1>t
  <2>3. ASSUME NEW k \in Runs PROVE RunClock(k)'
    <3>1. SameWork(k) BY <1>3, ModifyEffect
    <3> QED BY <3>1, <2>1, <2>2, <1>t, <1>r DEF RunClock, SameWork
  <2>4. \A r \in Records : source'[r] <= now' /\ table'[r] <= source'[r]
    BY <2>1, <2>2, <1>t
  <2> QED BY <2>1, <2>3, <2>4, <1>t DEF ClockInv, RunClock
<1>4. ASSUME NEW k \in Runs, NEW refresh \in BOOLEAN, Start(k, refresh) PROVE ClockInv'
  <2>1. UNCHANGED <<now, source, table, mark>> BY <1>4 DEF Start
  <2>2. ASSUME NEW j \in Runs PROVE RunClock(j)'
    <3>1. SameWork(j) BY <1>4, StartEffect
    <3> QED BY <2>1, <3>1, <1>r DEF RunClock, SameWork
  <2> QED BY <2>1, <2>2, <1>t DEF ClockInv, RunClock
<1>5. ASSUME NEW k \in Runs, ChooseMode(k) PROVE ClockInv'
  <2>1. UNCHANGED <<now, source, table, mark>> BY <1>5 DEF ChooseMode
  <2>2. /\ \A j \in Runs : j # k => run'[j] = run[j]
        /\ run'[k].page = run[k].page /\ run'[k].newest = run[k].newest
        /\ run'[k].since = run[k].since \/ run'[k].since = Since
    BY <1>5, ChooseEffect DEF Keeps
  <2>3. Since = 0 \/ Since + Overlap <= now
    BY <1>t, TimesAssumption DEF Since
  <2>4. run'[k].since = 0 \/ run'[k].since + Overlap <= now BY <2>2, <2>3, <1>r
  <2> QED BY <2>1, <2>2, <2>4, <1>t, <1>r, ClockOfOne
<1>6. ASSUME NEW k \in Runs, FetchPage(k) PROVE ClockInv'
  <2>1. UNCHANGED <<now, source, table, mark>> BY <1>6 DEF FetchPage
  <2>2. /\ \A j \in Runs : j # k => run'[j] = run[j]
        /\ run'[k].newest = run[k].newest /\ run'[k].since = run[k].since
        /\ run'[k].page = [r \in Records |-> IF r \in PageAt(k) THEN source[r] ELSE 0]
    BY <1>6, FetchEffect DEF Keeps
  <2>3. \A r \in Records : run'[k].page[r] <= source[r] BY <2>2, <1>t
  <2> QED BY <2>1, <2>2, <2>3, <1>t, <1>r, ClockOfOne
<1>7. ASSUME NEW k \in Runs, LoadPage(k) PROVE ClockInv'
  <2>1. UNCHANGED <<now, source, mark>> BY <1>7 DEF LoadPage
  <2>2. /\ \A j \in Runs : j # k => run'[j] = run[j]
        /\ run'[k].newest = run[k].newest /\ run'[k].since = run[k].since
        /\ run'[k].page = run[k].page
    BY <1>7, LoadEffect DEF Keeps
  <2>3. \A r \in Records : table'[r] <= source[r]
    BY <1>7, <1>t, <1>r DEF LoadPage
  <2>4. ASSUME NEW j \in Runs PROVE RunClock(j)'
    <3>1. run'[j].newest = run[j].newest /\ run'[j].since = run[j].since
          /\ run'[j].page = run[j].page
      BY <2>2
    <3> QED BY <2>1, <3>1, <1>r DEF RunClock
  <2> QED BY <2>1, <2>3, <2>4, <1>t DEF ClockInv, RunClock
<1>8. ASSUME NEW k \in Runs, Checkpoint(k) PROVE ClockInv'
  <2>1. UNCHANGED <<now, source, table, mark>> BY <1>8 DEF Checkpoint
  <2>2. /\ \A j \in Runs : j # k => run'[j] = run[j]
        /\ run'[k].newest = NewestOf(k) /\ run'[k].since = run[k].since
        /\ run'[k].page = NoPage
    BY <1>8, CheckpointEffect DEF Keeps
  <2>3. NewestOf(k) <= now
    <3>1. \A r \in InHand(k) : run[k].page[r] \in Nat /\ run[k].page[r] <= now
      BY <1>t, <1>r DEF InHand
    <3> QED BY <3>1, <1>r, NewestIsLatest
  <2>4. \A r \in Records : run'[k].page[r] <= source[r] BY <2>2, <1>t DEF NoPage
  <2>5. run'[k].newest <= now BY <2>2, <2>3
  <2>6. run'[k].since = 0 \/ run'[k].since + Overlap <= now BY <2>2, <1>r
  <2> QED BY <2>1, <2>2, <2>4, <2>5, <2>6, <1>t, ClockOfOne
<1>9. ASSUME NEW k \in Runs, InsertMark(k) PROVE ClockInv'
  <2>1. UNCHANGED <<now, source, table>> BY <1>9 DEF InsertMark
  <2>2. CASE run[k].newest = 0 \/ mark = 0
    <3>1. mark' = run[k].newest + mark /\ run' = Ended(k) BY <1>9, <2>2 DEF InsertMark
    <3>2. mark' <= now BY <3>1, <2>2, <1>t, <1>r
    <3> QED BY <2>1, <3>1, <3>2, ClockOfEnded
  <2>3. CASE ~(run[k].newest = 0 \/ mark = 0)
    <3>1. mark' = mark /\ run' = [run EXCEPT ![k].pc = "update"]
      BY <1>9, <2>3 DEF InsertMark
    <3>2. /\ \A j \in Runs : j # k => run'[j] = run[j]
          /\ run'[k].newest = run[k].newest /\ run'[k].since = run[k].since
          /\ run'[k].page = run[k].page
      BY <3>1, RetryMarkEffect DEF Keeps
    <3> QED BY <2>1, <3>1, <3>2, <1>t, <1>r, ClockOfOne
  <2> QED BY <2>2, <2>3
<1>10. ASSUME NEW k \in Runs, UpdateMark(k) PROVE ClockInv'
  <2>1. UNCHANGED <<now, source, table>> /\ run' = Ended(k)
        /\ mark' \in {mark, run[k].newest}
    BY <1>10 DEF UpdateMark
  <2>2. mark' <= now BY <2>1, <1>t, <1>r
  <2> QED BY <2>1, <2>2, ClockOfEnded
<1>11. ASSUME NEW k \in Runs, Interrupt(k) PROVE ClockInv'
  <2>1. UNCHANGED <<now, source, table, mark>> BY <1>11 DEF Interrupt
  <2>2. /\ \A j \in Runs : j # k => run'[j] = run[j]
        /\ run'[k].newest = run[k].newest /\ run'[k].since = run[k].since
        /\ run'[k].page = NoPage
    BY <1>11, InterruptEffect DEF Keeps
  <2>3. \A r \in Records : run'[k].page[r] <= source[r] BY <2>2, <1>t DEF NoPage
  <2> QED BY <2>1, <2>2, <2>3, <1>t, <1>r, ClockOfOne
<1>12. ASSUME NEW k \in Runs, Abandon(k) PROVE ClockInv'
  <2>1. UNCHANGED <<now, source, table, mark>> /\ run' = Ended(k) BY <1>12 DEF Abandon
  <2> QED BY <2>1, <1>t, ClockOfEnded
<1>13. CASE UNCHANGED vars BY <1>13, <1>t DEF vars, ClockInv
<1>14. ASSUME NEW k \in Runs, Work(k) PROVE ClockInv'
  BY <1>5, <1>6, <1>7, <1>8, <1>9, <1>10, <1>14 DEF Work
<1> QED BY <1>1, <1>2, <1>3, <1>4, <1>11, <1>12, <1>13, <1>14 DEF Next

\* PageInv, run by run.
RunPage(k) ==
  /\ Reach(k) <= R
  /\ run[k].pc \notin {"load", "checkpoint"} => run[k].page = NoPage /\ ~run[k].last
  /\ run[k].pc \in {"fetch", "load", "checkpoint"} =>
       run[k].mode # "none" /\ ~run[k].completed
  /\ run[k].pc \in {"insert", "update"} => run[k].completed
  /\ run[k].pc \in {"new", "ended"} => run[k].mode = "none"
  /\ run[k].mode = "none" =>
       run[k].offset = 0 /\ run[k].newest = 0 /\ run[k].since = 0 /\ ~run[k].completed

LEMMA PageByRun == PageInv <=> \A k \in Runs : RunPage(k)
BY DEF PageInv, RunPage, Active

\* Only run k took a step.
LEMMA PageOfOne ==
  ASSUME PageInv, NEW k \in Runs, RunPage(k)',
         \A j \in Runs : j # k => run'[j] = run[j]
  PROVE  PageInv'
<1>1. ASSUME NEW j \in Runs, j # k PROVE RunPage(j)'
  <2>1. run'[j] = run[j] BY <1>1
  <2>2. Reach(j)' = Reach(j) BY <2>1, ReachStays
  <2>3. RunPage(j) BY PageByRun
  <2> QED BY <2>1, <2>2, <2>3 DEF RunPage
<1>2. \A j \in Runs : RunPage(j)' BY <1>1
<1> QED BY <1>2 DEF PageInv, RunPage, Active

LEMMA PageOfEnded ==
  ASSUME TypeOK, PageInv, NEW k \in Runs, run' = Ended(k)
  PROVE  PageInv'
<1>1. /\ run'[k].page = NoPage /\ run'[k].last = FALSE /\ run'[k].pc = "ended"
      /\ run'[k].mode = "none" /\ run'[k].offset = 0 /\ run'[k].newest = 0
      /\ run'[k].since = 0 /\ run'[k].completed = FALSE
      /\ \A j \in Runs : j # k => run'[j] = run[j]
  BY EndedEffect
<1>2. Reach(k)' = 0 BY <1>1, ReachWithout
<1>3. RunPage(k)' BY <1>1, <1>2, SizesAssumption DEF RunPage
<1> QED BY <1>1, <1>3, PageOfOne

LEMMA StepPage ==
  ASSUME TypeOK, ClockInv, PageInv, [Next]_vars
  PROVE  PageInv'
<1>r. ASSUME NEW k \in Runs
      PROVE  RunPage(k) /\ run[k].last \in BOOLEAN /\ run[k].completed \in BOOLEAN
             /\ run[k].offset \in Nat /\ run[k].pc \in Steps
             /\ run[k].offset <= R
  <2>1. RunPage(k) BY PageByRun
  <2> QED BY <2>1, RunFields, SizesAssumption
<1>1. CASE UNCHANGED run
  <2>1. \A j \in Runs : Reach(j)' = Reach(j) BY <1>1, ReachStays
  <2>2. \A j \in Runs : RunPage(j)' BY <1>1, <1>r, <2>1 DEF RunPage
  <2> QED BY <2>2 DEF PageInv, RunPage, Active
<1>3. ASSUME NEW m \in Records, NEW t \in Times, Modify(m, t) PROVE PageInv'
  <2>1. ASSUME NEW j \in Runs PROVE RunPage(j)'
    <3>1. SameWork(j) /\ run'[j].pc = run[j].pc BY <1>3, ModifyEffect
    <3>2. Reach(j)' = Reach(j) BY <3>1, ReachStays DEF SameWork
    <3> QED BY <3>1, <3>2, <1>r DEF RunPage, SameWork
  <2> QED BY <2>1 DEF PageInv, RunPage, Active
<1>4. ASSUME NEW k \in Runs, NEW refresh \in BOOLEAN, Start(k, refresh) PROVE PageInv'
  <2>1. ASSUME NEW j \in Runs PROVE RunPage(j)'
    <3>1. SameWork(j) BY <1>4, StartEffect
    <3>2. Reach(j)' = Reach(j) BY <3>1, ReachStays DEF SameWork
    <3>3. CASE j = k
      <4>1. run[j].pc = "new" /\ run'[j].pc = "open" BY <1>4, <3>3, StartEffect DEF Start
      <4> QED BY <3>1, <3>2, <4>1, <1>r DEF RunPage, SameWork
    <3>4. CASE j # k
      <4>1. run'[j].pc = run[j].pc BY <1>4, <3>4, StartEffect
      <4> QED BY <3>1, <3>2, <4>1, <1>r DEF RunPage, SameWork
    <3> QED BY <3>3, <3>4
  <2> QED BY <2>1 DEF PageInv, RunPage, Active
<1>5. ASSUME NEW k \in Runs, ChooseMode(k) PROVE PageInv'
  <2>1. /\ run[k].pc = "open" /\ RunPage(k)
        /\ \A j \in Runs : j # k => run'[j] = run[j]
        /\ run'[k].page = run[k].page /\ run'[k].last = run[k].last
        /\ run'[k].offset = run[k].offset /\ run'[k].newest = run[k].newest
        /\ run'[k].completed = run[k].completed
    BY <1>5, <1>r, ChooseEffect DEF ChooseMode
  <2>2. Reach(k)' = Reach(k) BY <2>1, ReachStays
  <2>3. \/ /\ run'[k].mode = run[k].mode /\ run[k].mode # "none"
           /\ run'[k].pc = IF run[k].completed THEN "insert" ELSE "fetch"
        \/ run[k].mode = "none" /\ run'[k].pc = "fetch" /\ run'[k].mode # "none"
    BY <1>5, ChooseEffect DEF Keeps
  <2>4. RunPage(k)' BY <2>1, <2>2, <2>3, <1>r DEF RunPage
  <2> QED BY <2>1, <2>4, PageOfOne
<1>6. ASSUME NEW k \in Runs, FetchPage(k) PROVE PageInv'
  <2>1. /\ run[k].pc = "fetch" /\ RunPage(k)
        /\ \A j \in Runs : j # k => run'[j] = run[j]
        /\ run'[k].pc = "load" /\ run'[k].mode = run[k].mode
        /\ run'[k].offset = run[k].offset /\ run'[k].newest = run[k].newest
        /\ run'[k].completed = run[k].completed
    BY <1>6, <1>r, FetchEffect DEF FetchPage, Keeps
  <2>2. Reach(k)' <= R BY <1>6, ReachFetched, PageIsCut
  <2>3. RunPage(k)' BY <2>1, <2>2 DEF RunPage
  <2> QED BY <2>1, <2>3, PageOfOne
<1>7. ASSUME NEW k \in Runs, LoadPage(k) PROVE PageInv'
  <2>1. /\ run[k].pc = "load" /\ RunPage(k)
        /\ \A j \in Runs : j # k => run'[j] = run[j]
        /\ run'[k].pc = "checkpoint" /\ run'[k].mode = run[k].mode
        /\ run'[k].offset = run[k].offset /\ run'[k].newest = run[k].newest
        /\ run'[k].completed = run[k].completed
        /\ run'[k].page = run[k].page
    BY <1>7, <1>r, LoadEffect DEF LoadPage, Keeps
  <2>2. Reach(k)' = Reach(k) BY <2>1, ReachStays
  <2>3. RunPage(k)' BY <2>1, <2>2 DEF RunPage
  <2> QED BY <2>1, <2>3, PageOfOne
<1>8. ASSUME NEW k \in Runs, Checkpoint(k) PROVE PageInv'
  <2>1. /\ run[k].pc = "checkpoint" /\ RunPage(k)
        /\ \A j \in Runs : j # k => run'[j] = run[j]
        /\ run'[k].pc = (IF run[k].last THEN "insert" ELSE "fetch")
        /\ run'[k].mode = run[k].mode
        /\ run'[k].offset = Reach(k) /\ run'[k].page = NoPage /\ run'[k].last = FALSE
        /\ run'[k].completed = run[k].last
    BY <1>8, <1>r, CheckpointEffect DEF Checkpoint, Keeps
  <2>2. Reach(k)' = Reach(k) BY <2>1, ReachIs, ReachWithout
  <2>3. RunPage(k)' BY <2>1, <2>2, <1>r DEF RunPage
  <2> QED BY <2>1, <2>3, PageOfOne
<1>9. ASSUME NEW k \in Runs, InsertMark(k) PROVE PageInv'
  <2>1. CASE run' = Ended(k) BY <2>1, PageOfEnded
  <2>2. CASE run' = [run EXCEPT ![k].pc = "update"]
    <3>1. /\ run[k].pc = "insert" /\ RunPage(k) BY <1>9, <1>r DEF InsertMark
    <3>2. /\ \A j \in Runs : j # k => run'[j] = run[j]
          /\ run'[k].pc = "update" /\ run'[k].mode = run[k].mode
          /\ run'[k].offset = run[k].offset /\ run'[k].newest = run[k].newest
          /\ run'[k].completed = run[k].completed /\ run'[k].since = run[k].since
          /\ run'[k].page = run[k].page /\ run'[k].last = run[k].last
      BY <2>2, RetryMarkEffect DEF Keeps
    <3>3. Reach(k)' = Reach(k) BY <3>2, ReachStays
    <3>4. RunPage(k)' BY <3>1, <3>2, <3>3 DEF RunPage
    <3> QED BY <3>2, <3>4, PageOfOne
  <2> QED BY <1>9, <2>1, <2>2 DEF InsertMark
<1>10. ASSUME NEW k \in Runs, UpdateMark(k) PROVE PageInv'
  BY <1>10, PageOfEnded DEF UpdateMark
<1>11. ASSUME NEW k \in Runs, Interrupt(k) PROVE PageInv'
  <2>1. /\ RunPage(k)
        /\ \A j \in Runs : j # k => run'[j] = run[j]
        /\ run'[k].pc = "open" /\ run'[k].mode = run[k].mode
        /\ run'[k].offset = run[k].offset /\ run'[k].newest = run[k].newest
        /\ run'[k].completed = run[k].completed /\ run'[k].since = run[k].since
        /\ run'[k].page = NoPage /\ run'[k].last = FALSE
    BY <1>11, <1>r, InterruptEffect DEF Keeps
  <2>2. Reach(k)' <= R BY <2>1, <1>r, ReachWithout
  <2>3. RunPage(k)' BY <2>1, <2>2 DEF RunPage
  <2> QED BY <2>1, <2>3, PageOfOne
<1>12. ASSUME NEW k \in Runs, Abandon(k) PROVE PageInv'
  BY <1>12, PageOfEnded DEF Abandon
<1>13. CASE UNCHANGED vars \/ Tick \/ Reset
  BY <1>1, <1>13 DEF vars, Tick, Reset
<1>14. ASSUME NEW k \in Runs, Work(k) PROVE PageInv'
  BY <1>5, <1>6, <1>7, <1>8, <1>9, <1>10, <1>14 DEF Work
<1> QED BY <1>3, <1>4, <1>11, <1>12, <1>13, <1>14 DEF Next

-----------------------------------------------------------------------------
(***************************************************************************)
(* What a quiet run has read.                                              *)
(***************************************************************************)

\* A record that is not among those read, neither before nor after it changes,
\* moves none of them.
LEMMA ReadStaysPut ==
  ASSUME TypeOK, NEW k \in Runs, NEW s \in Versions, NEW z \in Versions,
         NEW m \in Records, \A q \in Records : q # m => s[q] = z[q],
         ~WasRead(k, s, m), ~WasRead(k, z, m),
         NEW r \in Records, WasRead(k, s, r)
  PROVE  /\ r # m /\ WasRead(k, z, r)
         /\ Position(k, z, r) = Position(k, s, r)
<1>1. r # m OBVIOUS
<1>2. Reach(k) \in Nat BY ReachIs
<1>3. \A q \in Records : q # m => (q \in Window(k, s) <=> q \in Window(k, z))
  BY DEF Window
<1>4. \A p, q \in Records : p # m /\ q # m =>
        (Precedes(k, s, p, q) <=> Precedes(k, z, p, q))
  BY DEF Precedes
<1>5. r \in Window(k, s) /\ Position(k, s, r) < Reach(k) BY DEF WasRead
<1>6. m \notin Before(k, s, r)
  <2>1. SUFFICES ASSUME m \in Before(k, s, r) PROVE FALSE OBVIOUS
  <2>2. m \in Window(k, s) /\ Precedes(k, s, m, r) BY <2>1 DEF Before
  <2>3. Position(k, s, m) < Position(k, s, r) BY <2>2, PositionGrows
  <2>4. Position(k, s, m) < Reach(k) BY <2>3, <1>2, <1>5, ListingIsFinite
  <2> QED BY <2>2, <2>4 DEF WasRead
<1>7. m \notin Before(k, z, r)
  <2>1. SUFFICES ASSUME m \in Before(k, z, r) PROVE FALSE OBVIOUS
  <2>2. m \in Window(k, z) /\ Precedes(k, z, m, r) BY <2>1 DEF Before
  <2>3. Before(k, z, m) \in SUBSET Before(k, s, r)
    <3>1. SUFFICES ASSUME NEW q \in Before(k, z, m) PROVE q \in Before(k, s, r)
      OBVIOUS
    <3>2. q \in Window(k, z) /\ q \in Records /\ Precedes(k, z, q, m)
      BY ListingIsFinite DEF Before
    <3>3. q # m /\ Precedes(k, z, q, r) BY <2>2, <3>2, OrderIsTotal
    <3>4. q \in Window(k, s) /\ Precedes(k, s, q, r) BY <1>1, <1>3, <1>4, <3>2, <3>3
    <3> QED BY <3>4 DEF Before
  <2>4. Cardinality(Before(k, z, m)) <= Cardinality(Before(k, s, r))
    BY <2>3, ListingIsFinite, FS_Subset
  <2>5. Position(k, z, m) <= Position(k, s, r) BY <2>4, ListingIsFinite
  <2>6. Position(k, z, m) < Reach(k)
    <3>1. Position(k, z, m) \in Nat /\ Position(k, s, r) \in Nat BY ListingIsFinite
    <3> QED BY <3>1, <2>5, <1>2, <1>5
  <2> QED BY <2>2, <2>6 DEF WasRead
<1>8. Before(k, z, r) = Before(k, s, r)
  <2>1. ASSUME NEW q PROVE q \in Before(k, z, r) <=> q \in Before(k, s, r)
    <3>1. CASE q = m BY <3>1, <1>6, <1>7
    <3>2. CASE q \in Records /\ q # m BY <3>2, <1>1, <1>3, <1>4 DEF Before
    <3>3. CASE q \notin Records BY <3>3, ListingIsFinite DEF Before
    <3> QED BY <3>1, <3>2, <3>3
  <2> QED BY <2>1
<1>9. Position(k, z, r) = Position(k, s, r) BY <1>8, ListingIsFinite
<1> QED BY <1>1, <1>3, <1>5, <1>9 DEF WasRead

\* ReadInv, run by run and without the first conjunct.
ReadRun(k) ==
  /\ \A r \in InHand(k) :
       /\ run[k].page[r] = source[r] /\ WasRead(k, source, r)
       /\ run[k].offset <= Position(k, source, r)
  /\ ~run[k].completed => \A r \in Records : WasRead(k, source, r) =>
       table[r] = source[r] \/ (run[k].pc = "load" /\ r \in InHand(k))
  /\ run[k].last => \A r \in Window(k, source) :
       \/ WasRead(k, source, r)
       \/ /\ ~run[k].calm
          /\ run[k].newest <= source[r] + Lag
          /\ \A q \in Records : run[k].page[q] <= source[r] + Lag
  /\ run[k].completed /\ run[k].calm /\ run[k].mode = "full" => table = source

LEMMA ReadByRun ==
  ReadInv <=> \A k \in Runs : Quiet(k) => ReadRun(k) /\ \A j \in Runs : Active(j) => j = k
BY DEF ReadInv, ReadRun

\* Only run k took a step, and it is at work.
LEMMA ReadOfOne ==
  ASSUME ReadInv, NEW k \in Runs, Active(k), disturbed' = disturbed,
         \A j \in Runs : j # k => run'[j] = run[j],
         Active(k)' => run'[k].calm = run[k].calm,
         Quiet(k) /\ Active(k)' => ReadRun(k)'
  PROVE  ReadInv'
<1>1. SUFFICES ASSUME NEW j \in Runs, Quiet(j)'
               PROVE  ReadRun(j)' /\ \A i \in Runs : Active(i)' => i = j
  BY DEF ReadInv, ReadRun
<1>2. CASE j = k
  <2>1. Quiet(k) /\ Active(k)' BY <1>1, <1>2 DEF Quiet
  <2>2. \A i \in Runs : Active(i) => i = k BY <2>1, ReadByRun
  <2>3. \A i \in Runs : Active(i)' => i = k BY <2>2 DEF Active
  <2> QED BY <1>2, <2>1, <2>3
<1>3. CASE j # k
  <2>1. Quiet(j) BY <1>1, <1>3 DEF Quiet, Active
  <2> QED BY <1>3, <2>1, ReadByRun
<1> QED BY <1>2, <1>3

LEMMA ReadOfEnded ==
  ASSUME TypeOK, ReadInv, NEW k \in Runs, Active(k), disturbed' = disturbed,
         run' = Ended(k)
  PROVE  ReadInv'
<1>1. run'[k].pc = "ended" /\ \A j \in Runs : j # k => run'[j] = run[j]
  BY EndedEffect
<1>2. ~Active(k)' BY <1>1 DEF Active
<1> QED BY <1>1, <1>2, ReadOfOne

\* The same records as before are read, when the run keeps its page, its
\* cursor and its cut-off.
LEMMA SameRead ==
  ASSUME NEW k \in Runs, source' = source, Reach(k)' = Reach(k),
         run'[k].mode = run[k].mode, run'[k].since = run[k].since
  PROVE  /\ Window(k, source)' = Window(k, source)
         /\ \A r : Position(k, source, r)' = Position(k, source, r)
         /\ \A r : WasRead(k, source, r)' <=> WasRead(k, source, r)
BY ListingStays DEF WasRead

\* A page taken in hand by a quiet run.
LEMMA FetchRead ==
  ASSUME TypeOK, ClockInv, PageInv, ReadInv, NEW k \in Runs, FetchPage(k)
  PROVE  ReadInv'
<1>1. /\ run[k].pc = "fetch" /\ UNCHANGED <<now, source, table, mark, disturbed>>
      /\ Active(k)
  BY DEF FetchPage, Active
<1>2. /\ \A j \in Runs : j # k => run'[j] = run[j]
      /\ run'[k].mode = run[k].mode /\ run'[k].since = run[k].since
      /\ run'[k].calm = run[k].calm /\ run'[k].pc = "load"
      /\ run'[k].offset = run[k].offset /\ run'[k].completed = run[k].completed
      /\ run'[k].last = (run[k].offset + Cardinality(PageAt(k)) >= Cardinality(Window(k, source)))
  BY FetchEffect DEF Keeps
<1>3. /\ run[k].page = NoPage /\ InHand(k) = {} /\ Reach(k) = run[k].offset
      /\ ~run[k].completed
  BY <1>1, PageByRun, ReachIs DEF RunPage
<1>4. /\ InHand(k)' = PageAt(k)
      /\ \A r \in PageAt(k) : run'[k].page[r] = source[r]
      /\ Reach(k)' = run[k].offset + Cardinality(PageAt(k))
  BY ReachFetched
<1>5. /\ Window(k, source)' = Window(k, source)
      /\ \A r : Position(k, source, r)' = Position(k, source, r)
  BY <1>1, <1>2, ListingStays
<1>6. \A r : WasRead(k, source, r)' <=>
               r \in Window(k, source) /\ Position(k, source, r) < Reach(k)'
  BY <1>5 DEF WasRead
<1>7. \A r \in Window(k, source) :
        WasRead(k, source, r)' <=> WasRead(k, source, r) \/ r \in PageAt(k)
  BY <1>3, <1>4, <1>6, PageIsCut DEF WasRead
<1>8. SUFFICES ASSUME Quiet(k) PROVE ReadRun(k)'
  BY <1>1, <1>2, ReadOfOne
<1>9. ReadRun(k) BY <1>8, ReadByRun
<1>10. ASSUME NEW r \in InHand(k)'
       PROVE  /\ run'[k].page[r] = source'[r] /\ WasRead(k, source, r)'
              /\ run'[k].offset <= Position(k, source, r)'
  <2>1. r \in PageAt(k) /\ r \in Window(k, source)
        /\ run[k].offset <= Position(k, source, r)
    BY <1>4, <1>10 DEF PageAt
  <2> QED BY <2>1, <1>1, <1>2, <1>4, <1>5, <1>7
<1>11. ASSUME NEW r \in Records, WasRead(k, source, r)'
       PROVE  table'[r] = source'[r] \/ (run'[k].pc = "load" /\ r \in InHand(k)')
  <2>1. r \in Window(k, source) BY <1>6, <1>11
  <2>2. WasRead(k, source, r) \/ r \in PageAt(k) BY <2>1, <1>7, <1>11
  <2> QED BY <2>2, <1>1, <1>2, <1>3, <1>4, <1>9 DEF ReadRun
<1>12. ASSUME run'[k].last, NEW r \in Window(k, source)'
       PROVE  WasRead(k, source, r)'
  <2>1. r \in Window(k, source) BY <1>5, <1>12
  <2>2. Position(k, source, r) < Cardinality(Window(k, source))
    BY <2>1, PositionsAreDistinct DEF TypeOK, Versions
  <2>3. Cardinality(Window(k, source)) <= Reach(k)'
    <3>1. Reach(k)' \in Nat /\ Cardinality(Window(k, source)) \in Nat
      BY <1>4, RunFields, PageIsCut, ListingIsFinite, SizesAssumption
    <3> QED BY <3>1, <1>2, <1>4, <1>12
  <2>4. Position(k, source, r) < Reach(k)'
    <3>1. /\ Reach(k)' \in Nat /\ Cardinality(Window(k, source)) \in Nat
          /\ Position(k, source, r) \in Nat
      BY <1>4, RunFields, PageIsCut, ListingIsFinite, SizesAssumption
    <3> QED BY <3>1, <2>2, <2>3
  <2> QED BY <2>1, <2>4, <1>6
<1> QED BY <1>2, <1>3, <1>10, <1>11, <1>12 DEF ReadRun

\* A page that a quiet run loads.
LEMMA LoadRead ==
  ASSUME TypeOK, ClockInv, PageInv, ReadInv, NEW k \in Runs, LoadPage(k)
  PROVE  ReadInv'
<1>1. /\ run[k].pc = "load" /\ UNCHANGED <<now, source, mark, disturbed>>
      /\ table' = [r \in Records |-> IF r \in InHand(k) THEN run[k].page[r] ELSE table[r]]
      /\ Active(k)
  BY DEF LoadPage, Active
<1>2. /\ \A j \in Runs : j # k => run'[j] = run[j]
      /\ run'[k].mode = run[k].mode /\ run'[k].since = run[k].since
      /\ run'[k].calm = run[k].calm /\ run'[k].newest = run[k].newest
      /\ run'[k].offset = run[k].offset /\ run'[k].completed = run[k].completed
      /\ run'[k].last = run[k].last /\ run'[k].page = run[k].page
  BY LoadEffect DEF Keeps
<1>3. InHand(k)' = InHand(k) /\ Reach(k)' = Reach(k) BY <1>2, ReachStays
<1>4. /\ Window(k, source)' = Window(k, source)
      /\ \A r : Position(k, source, r)' = Position(k, source, r)
      /\ \A r : WasRead(k, source, r)' <=> WasRead(k, source, r)
  BY <1>1, <1>2, <1>3, SameRead
<1>5. SUFFICES ASSUME Quiet(k) PROVE ReadRun(k)'
  BY <1>1, <1>2, ReadOfOne
<1>6. ReadRun(k) /\ ~run[k].completed BY <1>1, <1>5, ReadByRun, PageByRun DEF RunPage
<1>7. \A r \in Records : WasRead(k, source, r) => table'[r] = source[r]
  BY <1>1, <1>6 DEF ReadRun
<1> QED BY <1>1, <1>2, <1>3, <1>4, <1>6, <1>7 DEF ReadRun

\* The records that a run on its last page does not list are older than its
\* cut-off, or do not exist.
LEMMA NotListed ==
  ASSUME TypeOK, ClockInv, NEW k \in Runs, run[k].mode # "none",
         NEW r \in Records, r \notin Window(k, source)
  PROVE  table[r] = source[r] \/ (run[k].mode = "incremental" /\ source[r] < run[k].since)
<1>1. source[r] \in Nat /\ table[r] \in Nat /\ run[k].since \in Nat
  BY RunFields DEF TypeOK
<1>2. source[r] = 0 \/ (run[k].mode = "incremental" /\ source[r] < run[k].since)
  BY <1>1 DEF Window
<1>3. table[r] <= source[r] BY DEF ClockInv
<1> QED BY <1>1, <1>2, <1>3

\* A page that a quiet run counts into its cursor.
LEMMA CheckpointRead ==
  ASSUME TypeOK, ClockInv, PageInv, ReadInv, NEW k \in Runs, Checkpoint(k)
  PROVE  ReadInv'
<1>1. /\ run[k].pc = "checkpoint" /\ UNCHANGED <<now, source, table, mark, disturbed>>
      /\ Active(k)
  BY DEF Checkpoint, Active
<1>2. /\ \A j \in Runs : j # k => run'[j] = run[j]
      /\ run'[k].mode = run[k].mode /\ run'[k].since = run[k].since
      /\ run'[k].calm = run[k].calm
      /\ run'[k].offset = Reach(k) /\ run'[k].completed = run[k].last
      /\ run'[k].last = FALSE /\ run'[k].page = NoPage
  BY CheckpointEffect DEF Keeps
<1>3. InHand(k)' = {} /\ Reach(k)' = Reach(k) BY <1>2, ReachIs, ReachWithout
<1>4. \A r : WasRead(k, source, r)' <=> WasRead(k, source, r)
  BY <1>1, <1>2, <1>3, SameRead
<1>5. SUFFICES ASSUME Quiet(k) PROVE ReadRun(k)'
  BY <1>1, <1>2, ReadOfOne
<1>6. ReadRun(k) /\ ~run[k].completed /\ run[k].mode # "none"
  BY <1>1, <1>5, ReadByRun, PageByRun DEF RunPage
<1>7. \A r \in Records : WasRead(k, source, r) => table[r] = source[r]
  BY <1>1, <1>6 DEF ReadRun
<1>8. ASSUME run[k].last, run[k].calm, run[k].mode = "full" PROVE table = source
  <2>1. ASSUME NEW r \in Records PROVE table[r] = source[r]
    <3>1. CASE r \in Window(k, source)
      BY <3>1, <1>6, <1>7, <1>8 DEF ReadRun
    <3>2. CASE r \notin Window(k, source)
      BY <3>2, <1>6, <1>8, NotListed
    <3> QED BY <3>1, <3>2
  <2> QED BY <2>1 DEF TypeOK
<1> QED BY <1>1, <1>2, <1>3, <1>4, <1>7, <1>8 DEF ReadRun

LEMMA PositionIsNumber ==
  ASSUME NEW k \in Runs
  PROVE  \A r : Position(k, source, r)' \in Nat
<1>1. IsFiniteSet(Records) BY SizesAssumption, FS_Interval DEF Records
<1>2. SUFFICES ASSUME NEW r PROVE Position(k, source, r)' \in Nat OBVIOUS
<1>3. Before(k, source, r)' \in SUBSET Records BY DEF Before, Window
<1>4. Cardinality(Before(k, source, r)') \in Nat
  BY <1>1, <1>3, FS_Subset, FS_CardinalityType
<1> QED BY <1>4 DEF Position, Before

\* A worker that goes on from the checkpoint of a quiet run, or begins.
LEMMA ChooseRead ==
  ASSUME TypeOK, ClockInv, PageInv, ReadInv, NEW k \in Runs, ChooseMode(k)
  PROVE  ReadInv'
<1>1. /\ run[k].pc = "open" /\ UNCHANGED <<now, source, table, mark, disturbed>>
      /\ Active(k)
  BY DEF ChooseMode, Active
<1>2. /\ \A j \in Runs : j # k => run'[j] = run[j]
      /\ run'[k].calm = run[k].calm /\ run'[k].newest = run[k].newest
      /\ run'[k].offset = run[k].offset /\ run'[k].completed = run[k].completed
      /\ run'[k].last = run[k].last /\ run'[k].page = run[k].page
  BY ChooseEffect
<1>3. /\ run[k].page = NoPage /\ ~run[k].last /\ InHand(k) = {}
      /\ Reach(k) = run[k].offset
      /\ run[k].mode = "none" => run[k].offset = 0 /\ ~run[k].completed
  BY <1>1, PageByRun, ReachIs DEF RunPage
<1>4. InHand(k)' = {} /\ Reach(k)' = Reach(k) BY <1>2, <1>3, ReachStays
<1>5. SUFFICES ASSUME Quiet(k) PROVE ReadRun(k)'
  BY <1>1, <1>2, ReadOfOne
<1>6. ReadRun(k) BY <1>5, ReadByRun
<1>7. CASE run[k].mode # "none"
  <2>1. run'[k].mode = run[k].mode /\ run'[k].since = run[k].since
    BY <1>7, ChooseEffect DEF Keeps
  <2>2. \A r : WasRead(k, source, r)' <=> WasRead(k, source, r)
    BY <1>1, <1>4, <2>1, SameRead
  <2> QED BY <1>1, <1>2, <1>3, <1>4, <1>6, <2>1, <2>2 DEF ReadRun
<1>8. CASE run[k].mode = "none"
  <2>1. ASSUME NEW r \in Records PROVE ~WasRead(k, source, r)'
    <3>1. Reach(k)' = 0 BY <1>3, <1>4, <1>8
    <3>2. Position(k, source, r)' \in Nat BY PositionIsNumber
    <3> QED BY <3>1, <3>2 DEF WasRead
  <2> QED BY <1>2, <1>3, <1>4, <1>8, <2>1 DEF ReadRun
<1> QED BY <1>7, <1>8

\* A quiet run that is interrupted loses the page in hand and nothing else.
LEMMA InterruptRead ==
  ASSUME TypeOK, ClockInv, PageInv, ReadInv, NEW k \in Runs, Interrupt(k)
  PROVE  ReadInv'
<1>1. UNCHANGED <<now, source, table, mark, disturbed>> /\ Active(k)
  BY DEF Interrupt
<1>2. /\ \A j \in Runs : j # k => run'[j] = run[j]
      /\ run'[k].mode = run[k].mode /\ run'[k].since = run[k].since
      /\ run'[k].calm = run[k].calm
      /\ run'[k].offset = run[k].offset /\ run'[k].completed = run[k].completed
      /\ run'[k].last = FALSE /\ run'[k].page = NoPage
  BY InterruptEffect DEF Keeps
<1>3. InHand(k)' = {} /\ Reach(k)' = run[k].offset
  BY <1>2, RunFields, SizesAssumption, ReachWithout
<1>4. /\ Window(k, source)' = Window(k, source)
      /\ \A r : Position(k, source, r)' = Position(k, source, r)
  BY <1>1, <1>2, ListingStays
<1>5. SUFFICES ASSUME Quiet(k) PROVE ReadRun(k)'
  BY <1>1, <1>2, ReadOfOne
<1>6. ReadRun(k) BY <1>5, ReadByRun
<1>7. ASSUME ~run[k].completed, NEW r \in Records, WasRead(k, source, r)'
      PROVE  table[r] = source[r]
  <2>1. r \in Window(k, source) /\ Position(k, source, r) < run[k].offset
    BY <1>3, <1>4, <1>7 DEF WasRead
  <2>2. run[k].offset \in Nat /\ Reach(k) \in Nat /\ run[k].offset <= Reach(k)
        /\ Position(k, source, r) \in Nat
    <3>1. run[k].offset \in Nat BY RunFields, SizesAssumption
    <3>2. Reach(k) \in Nat /\ run[k].offset <= Reach(k) BY ReachIs
    <3>3. Position(k, source, r) \in Nat BY ListingIsFinite
    <3> QED BY <3>1, <3>2, <3>3
  <2>3. WasRead(k, source, r) BY <2>1, <2>2 DEF WasRead
  <2>4. r \notin InHand(k)
    <3>1. ~(run[k].offset <= Position(k, source, r)) BY <2>1, <2>2
    <3> QED BY <3>1, <1>6 DEF ReadRun
  <2> QED BY <2>3, <2>4, <1>6, <1>7 DEF ReadRun
<1> QED BY <1>1, <1>2, <1>3, <1>6, <1>7 DEF ReadRun

\* The loser of the race for the mark's first row.
LEMMA RetryRead ==
  ASSUME TypeOK, PageInv, ReadInv, NEW k \in Runs, run[k].pc = "insert",
         run' = [run EXCEPT ![k].pc = "update"], UNCHANGED <<source, table, disturbed>>
  PROVE  ReadInv'
<1>1. /\ \A j \in Runs : j # k => run'[j] = run[j]
      /\ run'[k].mode = run[k].mode /\ run'[k].since = run[k].since
      /\ run'[k].calm = run[k].calm
      /\ run'[k].offset = run[k].offset /\ run'[k].completed = run[k].completed
      /\ run'[k].last = run[k].last /\ run'[k].page = run[k].page
  BY RetryMarkEffect DEF Keeps
<1>2. Active(k) /\ run[k].completed /\ run[k].page = NoPage /\ ~run[k].last
      /\ InHand(k) = {}
  BY PageByRun, ReachIs DEF RunPage, Active
<1>3. InHand(k)' = {} BY <1>1, <1>2, ReachStays
<1>4. SUFFICES ASSUME Quiet(k) PROVE ReadRun(k)'
  BY <1>1, <1>2, ReadOfOne
<1>5. ReadRun(k) BY <1>4, ReadByRun
<1> QED BY <1>1, <1>2, <1>3, <1>5 DEF ReadRun

\* A record that is modified without disturbing a run.
LEMMA ModifyRead ==
  ASSUME TypeOK, ClockInv, PageInv, ReadInv,
         NEW m \in Records, NEW t \in Times, Modify(m, t)
  PROVE  ReadInv'
<1>1. SUFFICES ASSUME NEW k \in Runs, Quiet(k)'
               PROVE  ReadRun(k)' /\ \A i \in Runs : Active(i)' => i = k
  BY DEF ReadInv, ReadRun
<1>2. \A j \in Runs : SameWork(j) /\ run'[j].pc = run[j].pc /\ run'[j].calm = FALSE
  BY ModifyEffect
<1>3. ~disturbed' /\ ~disturbed /\ Quiet(k)
  BY <1>1, <1>2, ModifyEffect DEF Quiet, Active
<1>4. /\ UNCHANGED <<now, table, mark>> /\ now <= t + Lag /\ t \in Nat
      /\ source' \in Versions /\ source'[m] = t
      /\ \A r \in Records : r # m => source'[r] = source[r]
  <2>1. UNCHANGED <<now, table, mark>> /\ now <= t + Lag BY DEF Modify
  <2>2. t \in Nat BY TimesAssumption DEF Times
  <2>3. /\ source' \in Versions /\ source'[m] = t
        /\ \A r \in Records : r # m => source'[r] = source[r]
    BY ModifyEffect
  <2> QED BY <2>1, <2>2, <2>3
<1>5. ReadRun(k) /\ \A i \in Runs : Active(i) => i = k BY <1>3, ReadByRun
<1>6. \A i \in Runs : Active(i)' => i = k BY <1>2, <1>5 DEF Active
<1>7. InHand(k)' = InHand(k) /\ Reach(k)' = Reach(k)
  BY <1>2, ReachStays DEF SameWork
<1>8. /\ Window(k, source)' = Window(k, source')
      /\ \A r : Position(k, source, r)' = Position(k, source', r)
  BY <1>2, ListingStays DEF SameWork
<1>9. \A r : WasRead(k, source, r)' <=> WasRead(k, source', r)
  BY <1>7, <1>8 DEF WasRead
<1>10. CASE run[k].completed
  <2>1. run[k].page = NoPage /\ ~run[k].last /\ InHand(k) = {}
    <3>1. run[k].pc \notin {"load", "checkpoint"} BY <1>10, PageByRun DEF RunPage
    <3> QED BY <3>1, PageByRun, ReachIs DEF RunPage
  <2>2. ReadRun(k)' BY <1>2, <1>7, <1>10, <2>1 DEF ReadRun, SameWork
  <2> QED BY <1>6, <2>2
<1>11. CASE ~run[k].completed
  <2>1. ~WasRead(k, source, m) /\ ~WasRead(k, source', m)
    BY <1>3, <1>11, ModifyEffect DEF Quiet
  <2>2. source \in Versions BY DEF TypeOK, Versions
  <2>3. ASSUME NEW r \in Records, WasRead(k, source, r)
        PROVE  r # m /\ WasRead(k, source', r)
               /\ Position(k, source', r) = Position(k, source, r)
    BY <1>4, <2>1, <2>2, <2>3, ReadStaysPut
  <2>4. ASSUME NEW r \in Records, WasRead(k, source', r)
        PROVE  r # m /\ WasRead(k, source, r)
    BY <1>4, <2>1, <2>2, <2>4, ReadStaysPut
  <2>5. ASSUME NEW r \in InHand(k)'
        PROVE  /\ run'[k].page[r] = source'[r] /\ WasRead(k, source, r)'
               /\ run'[k].offset <= Position(k, source, r)'
    <3>1. r \in InHand(k) /\ r \in Records BY <1>7, <2>5, ReachIs
    <3>2. run[k].page[r] = source[r] /\ WasRead(k, source, r)
          /\ run[k].offset <= Position(k, source, r)
      BY <3>1, <1>5 DEF ReadRun
    <3>3. r # m /\ WasRead(k, source', r)
          /\ Position(k, source', r) = Position(k, source, r)
      BY <3>1, <3>2, <2>3
    <3> QED BY <3>1, <3>2, <3>3, <1>2, <1>4, <1>8, <1>9 DEF SameWork
  <2>6. ASSUME NEW r \in Records, WasRead(k, source, r)'
        PROVE  table'[r] = source'[r] \/ (run'[k].pc = "load" /\ r \in InHand(k)')
    <3>1. r # m /\ WasRead(k, source, r) BY <1>9, <2>4, <2>6
    <3>2. table[r] = source[r] \/ (run[k].pc = "load" /\ r \in InHand(k))
      BY <3>1, <1>5, <1>11 DEF ReadRun
    <3> QED BY <3>1, <3>2, <1>2, <1>4, <1>7
  <2>7. ASSUME run'[k].last, NEW r \in Window(k, source)'
        PROVE  \/ WasRead(k, source, r)'
               \/ /\ ~run'[k].calm
                  /\ run'[k].newest <= source'[r] + Lag
                  /\ \A q \in Records : run'[k].page[q] <= source'[r] + Lag
    <3>1. r \in Window(k, source') /\ r \in Records BY <1>8, <2>7, ListingIsFinite
    <3>2. run'[k].newest = run[k].newest /\ run'[k].page = run[k].page /\ run[k].last
      BY <1>2, <2>7 DEF SameWork
    <3>3. CASE r = m
      <4>1. source'[r] = t BY <3>3, <1>4
      <4>2. run[k].newest <= now /\ \A q \in Records : run[k].page[q] <= now
        BY RunFields DEF ClockInv, TypeOK
      <4>3. now \in Nat /\ run[k].newest \in Nat /\ run[k].page \in [Records -> Nat]
        BY RunFields DEF TypeOK
      <4>4. run[k].newest <= t + Lag /\ \A q \in Records : run[k].page[q] <= t + Lag
        BY <4>2, <4>3, <1>4, LagAssumption
      <4> QED BY <4>1, <4>4, <3>2, <1>2
    <3>4. CASE r # m
      <4>1. r \in Window(k, source) /\ source'[r] = source[r]
        BY <3>1, <3>4, <1>4 DEF Window
      <4>2. CASE WasRead(k, source, r) BY <4>2, <3>1, <2>3, <1>9
      <4>3. CASE ~WasRead(k, source, r)
        <5>1. run[k].newest <= source[r] + Lag
              /\ \A q \in Records : run[k].page[q] <= source[r] + Lag
          BY <4>1, <4>3, <3>2, <1>5 DEF ReadRun
        <5> QED BY <5>1, <4>1, <3>2, <1>2
      <4> QED BY <4>2, <4>3
    <3> QED BY <3>3, <3>4
  <2>8. ~run'[k].calm BY <1>2
  <2>9. ReadRun(k)' BY <2>5, <2>6, <2>7, <2>8 DEF ReadRun
  <2> QED BY <1>6, <2>9
<1> QED BY <1>10, <1>11

\* A run that starts while no other is at work has read nothing.
LEMMA StartRead ==
  ASSUME TypeOK, ClockInv, PageInv, ReadInv,
         NEW k \in Runs, NEW refresh \in BOOLEAN, Start(k, refresh)
  PROVE  ReadInv'
<1>1. SUFFICES ASSUME NEW j \in Runs, Quiet(j)'
               PROVE  ReadRun(j)' /\ \A i \in Runs : Active(i)' => i = j
  BY DEF ReadInv, ReadRun
<1>2. /\ \A i \in Runs : i # k => run'[i].pc = run[i].pc /\ run'[i].calm = FALSE
      /\ run'[k].calm \/ ~disturbed' => \A i \in Runs : i # k => ~Active(i)
      /\ SameWork(k)
  BY StartEffect
<1>3. j = k /\ \A i \in Runs : i # k => ~Active(i)
  <2>1. CASE j = k BY <1>1, <1>2, <2>1 DEF Quiet
  <2>2. CASE j # k BY <1>1, <1>2, <2>2 DEF Quiet, Active
  <2> QED BY <2>1, <2>2
<1>4. \A i \in Runs : Active(i)' => i = k BY <1>2, <1>3 DEF Active
<1>5. /\ run[k].pc = "new" /\ run[k].page = NoPage /\ ~run[k].last
      /\ ~run[k].completed /\ run[k].offset = 0
  BY PageByRun DEF Start, RunPage
<1>6. InHand(k)' = {} /\ Reach(k)' = 0
  BY <1>2, <1>5, ReachWithout DEF SameWork
<1>7. \A r : ~WasRead(k, source, r)'
  BY <1>6, PositionIsNumber DEF WasRead
<1>8. ReadRun(k)' BY <1>2, <1>5, <1>6, <1>7 DEF ReadRun, SameWork
<1> QED BY <1>3, <1>4, <1>8

LEMMA StepRead ==
  ASSUME TypeOK, ClockInv, PageInv, ReadInv, [Next]_vars
  PROVE  ReadInv'
<1>1. CASE UNCHANGED <<source, table, run, disturbed>>
  <2>1. ASSUME NEW k \in Runs, Quiet(k)'
        PROVE  ReadRun(k)' /\ \A i \in Runs : Active(i)' => i = k
    <3>1. Quiet(k) BY <1>1, <2>1 DEF Quiet, Active
    <3>2. ReadRun(k) /\ \A i \in Runs : Active(i) => i = k BY <3>1, ReadByRun
    <3>3. InHand(k)' = InHand(k) /\ Reach(k)' = Reach(k) BY <1>1, ReachStays
    <3>4. /\ Window(k, source)' = Window(k, source)
          /\ \A r : Position(k, source, r)' = Position(k, source, r)
          /\ \A r : WasRead(k, source, r)' <=> WasRead(k, source, r)
      BY <1>1, <3>3, SameRead
    <3>5. ReadRun(k)' BY <1>1, <3>2, <3>3, <3>4 DEF ReadRun
    <3> QED BY <1>1, <3>2, <3>5 DEF Active
  <2> QED BY <2>1 DEF ReadInv, ReadRun
<1>2. ASSUME NEW k \in Runs, InsertMark(k) PROVE ReadInv'
  <2>1. run[k].pc = "insert" /\ Active(k) /\ UNCHANGED <<now, source, table, disturbed>>
    BY <1>2 DEF InsertMark, Active
  <2>2. CASE run' = Ended(k) BY <2>1, <2>2, ReadOfEnded
  <2>3. CASE run' = [run EXCEPT ![k].pc = "update"] BY <2>1, <2>3, RetryRead
  <2> QED BY <1>2, <2>2, <2>3 DEF InsertMark
<1>3. ASSUME NEW k \in Runs, UpdateMark(k) PROVE ReadInv'
  BY <1>3, ReadOfEnded DEF UpdateMark, Active
<1>4. ASSUME NEW k \in Runs, Abandon(k) PROVE ReadInv'
  BY <1>4, ReadOfEnded DEF Abandon
<1>5. ASSUME NEW k \in Runs, Work(k) PROVE ReadInv'
  BY <1>2, <1>3, <1>5, ChooseRead, FetchRead, LoadRead, CheckpointRead DEF Work
<1>6. CASE Tick \/ Reset \/ UNCHANGED vars
  BY <1>1, <1>6 DEF Tick, Reset, vars
<1> QED
  BY <1>4, <1>5, <1>6, ModifyRead, StartRead, InterruptRead DEF Next

-----------------------------------------------------------------------------
(***************************************************************************)
(* What is loaded.                                                         *)
(***************************************************************************)

\* CoverInv, run by run, and its first conjunct.
Loaded(t) == \A r \in Records : source[r] < t => table[r] = source[r]

CoverRun(k) ==
  /\ run[k].mode = "incremental" =>
       \A r \in Records : source[r] < run[k].since => table[r] = source[r]
  /\ run[k].completed =>
       \A r \in Records : source[r] + Overlap < run[k].newest => table[r] = source[r]
  /\ run[k].completed /\ run[k].calm => table = source

LEMMA CoverByRun ==
  CoverInv <=> (~disturbed => Loaded(Since) /\ \A k \in Runs : Active(k) => CoverRun(k))
BY DEF CoverInv, CoverRun, Loaded

\* Only run k took a step, and it loaded nothing and left the mark alone.
LEMMA CoverOfOne ==
  ASSUME CoverInv, NEW k \in Runs, UNCHANGED <<source, table, mark, disturbed>>,
         \A j \in Runs : j # k => run'[j] = run[j],
         ~disturbed /\ Active(k)' => CoverRun(k)'
  PROVE  CoverInv'
<1>1. SUFFICES ASSUME ~disturbed
               PROVE  Loaded(Since)' /\ \A j \in Runs : Active(j)' => CoverRun(j)'
  BY DEF CoverInv, CoverRun, Loaded
<1>2. Loaded(Since)' BY <1>1, CoverByRun DEF Loaded, Since
<1>3. ASSUME NEW j \in Runs, Active(j)', j # k PROVE CoverRun(j)'
  <2>1. CoverRun(j) /\ run'[j] = run[j] BY <1>1, <1>3, CoverByRun DEF Active
  <2> QED BY <2>1 DEF CoverRun
<1> QED BY <1>1, <1>2, <1>3

\* Run k is over, and all that lies before the mark it leaves is loaded.
LEMMA CoverOfEnded ==
  ASSUME TypeOK, CoverInv, NEW k \in Runs, UNCHANGED <<source, table, disturbed>>,
         run' = Ended(k), ~disturbed => Loaded(Since)'
  PROVE  CoverInv'
<1>1. SUFFICES ASSUME ~disturbed
               PROVE  \A j \in Runs : Active(j)' => CoverRun(j)'
  BY DEF CoverInv, CoverRun, Loaded
<1>2. run'[k].pc = "ended" /\ \A j \in Runs : j # k => run'[j] = run[j]
  BY EndedEffect
<1>3. ASSUME NEW j \in Runs, Active(j)' PROVE CoverRun(j)'
  <2>1. j # k BY <1>2, <1>3 DEF Active
  <2>2. CoverRun(j) /\ run'[j] = run[j] BY <1>1, <1>2, <1>3, <2>1, CoverByRun DEF Active
  <2> QED BY <2>2 DEF CoverRun
<1> QED BY <1>3

\* Run k took a step that kept what CoverRun is about.
LEMMA CoverKept ==
  ASSUME CoverInv, NEW k \in Runs, Active(k),
         UNCHANGED <<source, table, mark, disturbed>>,
         \A j \in Runs : j # k => run'[j] = run[j], Keeps(k),
         run'[k].newest = run[k].newest, run'[k].completed = run[k].completed
  PROVE  CoverInv'
<1>1. SUFFICES ASSUME ~disturbed, Active(k)' PROVE CoverRun(k)'
  BY CoverOfOne
<1>2. CoverRun(k) BY <1>1, CoverByRun
<1> QED BY <1>2 DEF CoverRun, Keeps

LEMMA ChooseCover ==
  ASSUME TypeOK, PageInv, CoverInv, NEW k \in Runs, ChooseMode(k)
  PROVE  CoverInv'
<1>1. /\ UNCHANGED <<source, table, mark, disturbed>> /\ Active(k)
  BY DEF ChooseMode, Active
<1>2. /\ \A j \in Runs : j # k => run'[j] = run[j]
      /\ run'[k].newest = run[k].newest /\ run'[k].completed = run[k].completed
  BY ChooseEffect
<1>3. CASE run[k].mode # "none"
  BY <1>1, <1>2, <1>3, ChooseEffect, CoverKept
<1>4. CASE run[k].mode = "none"
  <2>1. SUFFICES ASSUME ~disturbed, Active(k)' PROVE CoverRun(k)'
    BY <1>1, <1>2, CoverOfOne
  <2>2. ~run'[k].completed BY <1>2, <1>4, PageByRun DEF RunPage
  <2>3. Loaded(Since) BY <2>1, CoverByRun
  <2>4. run'[k].mode = "incremental" => run'[k].since = Since
    BY <1>4, ChooseEffect
  <2> QED BY <1>1, <2>2, <2>3, <2>4 DEF CoverRun, Loaded
<1> QED BY <1>3, <1>4

LEMMA LoadCover ==
  ASSUME TypeOK, ClockInv, PageInv, ReadInv, CoverInv, NEW k \in Runs, LoadPage(k)
  PROVE  CoverInv'
<1>1. /\ run[k].pc = "load" /\ UNCHANGED <<source, mark, disturbed>>
      /\ table' = [r \in Records |-> IF r \in InHand(k) THEN run[k].page[r] ELSE table[r]]
      /\ Active(k)
  BY DEF LoadPage, Active
<1>2. /\ \A j \in Runs : j # k => run'[j] = run[j]
      /\ Keeps(k) /\ run'[k].completed = run[k].completed
  BY LoadEffect
<1>3. SUFFICES ASSUME ~disturbed
               PROVE  Loaded(Since)' /\ \A j \in Runs : Active(j)' => CoverRun(j)'
  BY <1>1 DEF CoverInv, CoverRun, Loaded
<1>4. ReadRun(k) /\ \A j \in Runs : Active(j) => j = k
  BY <1>1, <1>3, ReadByRun DEF Quiet
<1>5. \A r \in Records : table[r] = source[r] => table'[r] = source'[r]
  BY <1>1, <1>4 DEF ReadRun
<1>6. Loaded(Since)'
  <2>1. Loaded(Since) BY <1>3, CoverByRun
  <2>2. Since' = Since BY <1>1 DEF Since
  <2> QED BY <1>1, <1>5, <2>1, <2>2 DEF Loaded
<1>7. ASSUME NEW j \in Runs, Active(j)' PROVE CoverRun(j)'
  <2>1. j = k BY <1>1, <1>2, <1>4, <1>7 DEF Active
  <2>2. ~run'[k].completed BY <1>1, <1>2, PageByRun DEF RunPage
  <2>3. CoverRun(k) BY <1>1, <1>3, CoverByRun
  <2> QED BY <1>1, <1>2, <1>5, <2>1, <2>2, <2>3 DEF CoverRun, Keeps
<1> QED BY <1>6, <1>7

LEMMA CheckpointCover ==
  ASSUME TypeOK, ClockInv, PageInv, ReadInv, CoverInv, NEW k \in Runs, Checkpoint(k)
  PROVE  CoverInv'
<1>1. /\ run[k].pc = "checkpoint" /\ UNCHANGED <<source, table, mark, disturbed>>
      /\ Active(k)
  BY DEF Checkpoint, Active
<1>2. /\ \A j \in Runs : j # k => run'[j] = run[j]
      /\ Keeps(k) /\ run'[k].newest = NewestOf(k) /\ run'[k].completed = run[k].last
  BY CheckpointEffect
<1>3. SUFFICES ASSUME ~disturbed PROVE CoverRun(k)'
  BY <1>1, <1>2, CoverOfOne
<1>4. ReadRun(k) BY <1>1, <1>3, ReadByRun DEF Quiet
<1>5. CoverRun(k) BY <1>1, <1>3, CoverByRun
<1>6. ~run[k].completed /\ run[k].mode # "none"
  BY <1>1, PageByRun DEF RunPage
<1>7. \A r \in Records : WasRead(k, source, r) => table[r] = source[r]
  BY <1>1, <1>4, <1>6 DEF ReadRun
<1>8. \A r \in Records : r \notin Window(k, source) => table[r] = source[r]
  BY <1>5, <1>6, NotListed DEF CoverRun
<1>9. ASSUME run[k].last, NEW r \in Records, source[r] + Overlap < NewestOf(k)
      PROVE  table[r] = source[r]
  <2>1. CASE r \in Window(k, source) /\ ~WasRead(k, source, r)
    <3>1. run[k].newest <= source[r] + Lag
          /\ \A q \in Records : run[k].page[q] <= source[r] + Lag
      BY <1>4, <1>9, <2>1 DEF ReadRun
    <3>2. NewestOf(k) <= source[r] + Lag
      BY <3>1, NewestIsLatest, ReachIs
    <3>3. NewestOf(k) \in Nat /\ source[r] \in Nat BY NewestIsLatest DEF TypeOK
    <3> QED BY <1>9, <3>2, <3>3, LagAssumption, TimesAssumption
  <2> QED BY <2>1, <1>7, <1>8
<1>10. ASSUME run[k].last, run[k].calm PROVE table = source
  <2>1. \A r \in Records : table[r] = source[r]
    BY <1>4, <1>7, <1>8, <1>10 DEF ReadRun
  <2> QED BY <2>1 DEF TypeOK
<1> QED BY <1>1, <1>2, <1>5, <1>9, <1>10 DEF CoverRun, Keeps

\* The mark becomes what a finished run has seen: all before it is loaded.
LEMMA FinishedCover ==
  ASSUME TypeOK, CoverInv, NEW k \in Runs, Active(k), run[k].completed,
         UNCHANGED <<source, table, disturbed>>, run' = Ended(k),
         mark' \in {mark, run[k].newest}
  PROVE  CoverInv'
<1>1. SUFFICES ASSUME ~disturbed PROVE Loaded(Since)'
  BY CoverOfEnded
<1>2. CoverRun(k) /\ Loaded(Since) BY <1>1, CoverByRun
<1>3. CASE mark' = mark BY <1>2, <1>3 DEF Loaded, Since
<1>4. CASE mark' = run[k].newest
  <2>1. SUFFICES ASSUME NEW r \in Records, source[r] < Since' PROVE table[r] = source[r]
    BY DEF Loaded
  <2>2. run[k].newest \in Nat /\ source[r] \in Nat BY RunFields DEF TypeOK
  <2>3. source[r] + Overlap < run[k].newest
    BY <1>4, <2>1, <2>2, TimesAssumption DEF Since
  <2> QED BY <1>2, <2>3 DEF CoverRun
<1> QED BY <1>3, <1>4

LEMMA ModifyCover ==
  ASSUME TypeOK, ClockInv, PageInv, CoverInv,
         NEW m \in Records, NEW t \in Times, Modify(m, t)
  PROVE  CoverInv'
<1>1. UNCHANGED <<table, mark>> /\ now <= t + Lag BY DEF Modify
<1>2. \A j \in Runs : SameWork(j) /\ run'[j].pc = run[j].pc /\ run'[j].calm = FALSE
  BY ModifyEffect
<1>3. source'[m] = t /\ \A r \in Records : r # m => source'[r] = source[r]
  BY ModifyEffect
<1>4. SUFFICES ASSUME ~disturbed'
               PROVE  Loaded(Since)' /\ \A j \in Runs : Active(j)' => CoverRun(j)'
  BY DEF CoverInv, CoverRun, Loaded
<1>5. ~disturbed BY <1>4, ModifyEffect
<1>6. now \in Nat /\ t \in Nat /\ mark \in Nat /\ mark <= now
  BY TimesAssumption DEF TypeOK, Times, ClockInv
<1>7. Loaded(Since)'
  <2>1. Loaded(Since) BY <1>5, CoverByRun
  <2>2. Since' = Since BY <1>1 DEF Since
  <2>3. ~(t < Since) BY <1>1, <1>6, LagAssumption, TimesAssumption DEF Since
  <2> QED BY <1>1, <1>3, <2>1, <2>2, <2>3 DEF Loaded
<1>8. ASSUME NEW j \in Runs, Active(j)' PROVE CoverRun(j)'
  <2>1. Active(j) BY <1>2, <1>8 DEF Active
  <2>2. CoverRun(j) BY <1>5, <2>1, CoverByRun
  <2>3. run[j].since \in Nat /\ run[j].newest \in Nat BY RunFields
  <2>4. ~(t < run[j].since)
    <3>1. run[j].since = 0 \/ run[j].since + Overlap <= now BY DEF ClockInv
    <3> QED BY <1>1, <1>6, <2>3, <3>1, LagAssumption, TimesAssumption
  <2>5. ~(t + Overlap < run[j].newest)
    <3>1. run[j].newest <= now BY DEF ClockInv
    <3> QED BY <1>1, <1>6, <2>3, <3>1, LagAssumption, TimesAssumption
  <2>6. ASSUME run[j].mode = "incremental", NEW r \in Records, source'[r] < run[j].since
        PROVE  table[r] = source'[r]
    <3>1. r # m BY <1>3, <2>4, <2>6
    <3> QED BY <1>3, <2>2, <2>6, <3>1 DEF CoverRun
  <2>7. ASSUME run[j].completed, NEW r \in Records, source'[r] + Overlap < run[j].newest
        PROVE  table[r] = source'[r]
    <3>1. r # m BY <1>3, <2>5, <2>7
    <3> QED BY <1>3, <2>2, <2>7, <3>1 DEF CoverRun
  <2> QED BY <1>1, <1>2, <2>6, <2>7 DEF CoverRun, SameWork
<1> QED BY <1>7, <1>8

LEMMA StartCover ==
  ASSUME TypeOK, PageInv, CoverInv, NEW k \in Runs, NEW refresh \in BOOLEAN,
         Start(k, refresh)
  PROVE  CoverInv'
<1>1. UNCHANGED <<source, table, mark>> /\ run[k].pc = "new" BY DEF Start
<1>2. /\ \A i \in Runs : i # k => run'[i].pc = run[i].pc
      /\ ~disturbed' => \A i \in Runs : i # k => ~Active(i)
      /\ SameWork(k) /\ (disturbed => disturbed')
  BY StartEffect
<1>3. SUFFICES ASSUME ~disturbed'
               PROVE  Loaded(Since)' /\ \A j \in Runs : Active(j)' => CoverRun(j)'
  BY DEF CoverInv, CoverRun, Loaded
<1>4. Loaded(Since)'
  <2>1. Loaded(Since) BY <1>2, <1>3, CoverByRun
  <2> QED BY <1>1, <2>1 DEF Loaded, Since
<1>5. ASSUME NEW j \in Runs, Active(j)' PROVE CoverRun(j)'
  <2>1. j = k BY <1>2, <1>3, <1>5 DEF Active
  <2>2. run[k].mode = "none" /\ ~run[k].completed
    BY <1>1, PageByRun DEF RunPage
  <2> QED BY <1>2, <2>1, <2>2 DEF CoverRun, SameWork
<1> QED BY <1>4, <1>5

LEMMA StepCover ==
  ASSUME TypeOK, ClockInv, PageInv, ReadInv, CoverInv, [Next]_vars
  PROVE  CoverInv'
<1>1. CASE UNCHANGED <<source, table, mark, run, disturbed>>
  BY <1>1 DEF CoverInv, Since, Active
<1>2. CASE Reset
  <2>1. Loaded(Since)'
    BY <1>2, TimesAssumption DEF Reset, Since, Loaded, TypeOK
  <2>2. UNCHANGED <<source, table, run, disturbed>> BY <1>2 DEF Reset
  <2>3. ASSUME ~disturbed, NEW j \in Runs, Active(j)' PROVE CoverRun(j)'
    <3>1. CoverRun(j) BY <2>2, <2>3, CoverByRun DEF Active
    <3> QED BY <2>2, <3>1 DEF CoverRun
  <2> QED BY <2>1, <2>2, <2>3 DEF CoverInv, CoverRun, Loaded
<1>3. ASSUME NEW k \in Runs, FetchPage(k) PROVE CoverInv'
  <2>1. UNCHANGED <<source, table, mark, disturbed>> /\ Active(k)
    BY <1>3 DEF FetchPage, Active
  <2> QED BY <1>3, <2>1, FetchEffect, CoverKept
<1>4. ASSUME NEW k \in Runs, Interrupt(k) PROVE CoverInv'
  <2>1. UNCHANGED <<source, table, mark, disturbed>> /\ Active(k)
    BY <1>4 DEF Interrupt
  <2> QED BY <1>4, <2>1, InterruptEffect, CoverKept
<1>5. ASSUME NEW k \in Runs, InsertMark(k) PROVE CoverInv'
  <2>1. /\ run[k].pc = "insert" /\ Active(k) /\ UNCHANGED <<source, table, disturbed>>
        /\ run[k].completed /\ run[k].newest \in Nat /\ mark \in Nat
    BY <1>5, PageByRun, RunFields DEF InsertMark, Active, RunPage, TypeOK
  <2>2. CASE run[k].newest = 0 \/ mark = 0
    <3>1. run' = Ended(k) /\ mark' = run[k].newest + mark
      BY <1>5, <2>2 DEF InsertMark
    <3>2. mark' \in {mark, run[k].newest} BY <2>1, <2>2, <3>1
    <3> QED BY <2>1, <3>1, <3>2, FinishedCover
  <2>3. CASE ~(run[k].newest = 0 \/ mark = 0)
    <3>1. run' = [run EXCEPT ![k].pc = "update"] /\ mark' = mark
      BY <1>5, <2>3 DEF InsertMark
    <3> QED BY <2>1, <3>1, RetryMarkEffect, CoverKept
  <2> QED BY <2>2, <2>3
<1>6. ASSUME NEW k \in Runs, UpdateMark(k) PROVE CoverInv'
  <2>1. /\ Active(k) /\ UNCHANGED <<source, table, disturbed>> /\ run[k].completed
        /\ run' = Ended(k) /\ mark' \in {mark, run[k].newest}
    BY <1>6, PageByRun DEF UpdateMark, Active, RunPage
  <2> QED BY <2>1, FinishedCover
<1>7. ASSUME NEW k \in Runs, Abandon(k) PROVE CoverInv'
  <2>1. /\ UNCHANGED <<source, table, mark, disturbed>> /\ run' = Ended(k)
    BY <1>7 DEF Abandon
  <2>2. ~disturbed => Loaded(Since)' BY <2>1, CoverByRun DEF Loaded, Since
  <2> QED BY <2>1, <2>2, CoverOfEnded
<1>8. ASSUME NEW k \in Runs, Work(k) PROVE CoverInv'
  BY <1>3, <1>5, <1>6, <1>8, ChooseCover, LoadCover, CheckpointCover DEF Work
<1>9. CASE Tick \/ UNCHANGED vars BY <1>1, <1>9 DEF Tick, vars
<1> QED
  BY <1>2, <1>4, <1>7, <1>8, <1>9, ModifyCover, StartCover DEF Next

-----------------------------------------------------------------------------
(***************************************************************************)
(* The theorems.                                                           *)
(***************************************************************************)

IInv == TypeOK /\ ClockInv /\ PageInv /\ ReadInv /\ CoverInv

LEMMA InitInv == Init => IInv
<1> SUFFICES ASSUME Init PROVE IInv OBVIOUS
<1>1. /\ now = 1 /\ table = NoPage /\ mark = 0 /\ run = [k \in Runs |-> NewRun]
      /\ disturbed = FALSE /\ source \in [Records -> {0, 1}]
  BY DEF Init
<1>2. /\ NewRun.pc = "new" /\ NewRun.page = NoPage /\ NewRun.last = FALSE
      /\ NewRun.mode = "none" /\ NewRun.since = 0 /\ NewRun.offset = 0
      /\ NewRun.newest = 0 /\ NewRun.completed = FALSE
  BY DEF NewRun
<1>3. TypeOK
  <2>1. 0 \in 0..R /\ NoPage \in [Records -> Nat] BY SizesAssumption DEF NoPage
  <2>2. NewRun \in RunStates BY <2>1 DEF NewRun, RunStates, Steps
  <2>3. run \in [Runs -> RunStates] BY <1>1, <2>2
  <2>4. source \in [Records -> Nat] BY <1>1
  <2>5. now \in Nat /\ mark \in Nat /\ disturbed \in BOOLEAN /\ table \in [Records -> Nat]
    BY <1>1, <2>1
  <2> QED BY <2>3, <2>4, <2>5 DEF TypeOK, RunStates
<1>4. ClockInv
  BY <1>1, <1>2, TimesAssumption DEF ClockInv, NoPage
<1>5. PageInv
  <2>1. ASSUME NEW k \in Runs PROVE RunPage(k)
    <3>1. run[k] = NewRun BY <1>1
    <3>2. Reach(k) = 0 BY <1>2, <1>3, <3>1, ReachIs
    <3> QED BY <1>2, <3>1, <3>2, SizesAssumption DEF RunPage
  <2> QED BY <2>1, PageByRun
<1>6. \A k \in Runs : ~Active(k) BY <1>1, <1>2 DEF Active
<1>7. ReadInv BY <1>6 DEF ReadInv, Quiet
<1>8. CoverInv
  <2>1. Loaded(Since) BY <1>1, TimesAssumption DEF Loaded, Since
  <2> QED BY <1>6, <2>1, CoverByRun
<1> QED BY <1>3, <1>4, <1>5, <1>7, <1>8 DEF IInv

\* IInv is inductive.
THEOREM Inductive == Spec => []IInv
<1>1. IInv /\ [Next]_vars => IInv'
  BY StepType, StepClock, StepPage, StepRead, StepCover DEF IInv
<1> QED BY <1>1, InitInv, PTL DEF Spec

\* Every variable keeps to its type; a cursor never passes the number of
\* records, so no page is counted twice or by more than it held.
THEOREM TypeCorrect == Spec => []TypeOK
<1>1. IInv => TypeOK BY DEF IInv
<1> QED BY <1>1, Inductive, PTL

\* While no run is disturbed in what it has read, the next run covers
\* everything not yet loaded (advance_high_water only after the last page,
\* with_overlap no shorter than the lag).
THEOREM MarkCovered == Spec => []MarkCovers
<1>1. IInv => MarkCovers BY DEF IInv, CoverInv, MarkCovers
<1> QED BY <1>1, Inductive, PTL

\* A run during which nothing changed leaves nothing stale, although it has
\* read only what was modified since the mark.
THEOREM CalmCatchesUp == Spec => []CalmRunCatchesUp
<1>1. IInv => CalmRunCatchesUp
  <2>1. SUFFICES ASSUME IInv, ~disturbed, NEW k \in Runs, Finished(k), run[k].calm
                 PROVE  table = source
    BY DEF CalmRunCatchesUp
  <2>2. Active(k) /\ run[k].completed
    BY <2>1, PageByRun DEF IInv, Finished, Active, RunPage
  <2> QED BY <2>1, <2>2, CoverByRun DEF IInv, CoverRun
<1> QED BY <1>1, Inductive, PTL

\* A full refresh during which nothing changed repairs what earlier runs have
\* missed, disturbed or not.
THEOREM Reconciles == Spec => []RefreshReconciles
<1>1. IInv => RefreshReconciles
  <2>1. SUFFICES ASSUME IInv, NEW k \in Runs, Finished(k), run[k].calm,
                        run[k].mode = "full"
                 PROVE  table = source
    BY DEF RefreshReconciles
  <2>2. Quiet(k) /\ run[k].completed
    BY <2>1, PageByRun DEF IInv, Finished, Quiet, Active, RunPage
  <2> QED BY <2>1, <2>2, ReadByRun DEF IInv, ReadRun
<1> QED BY <1>1, Inductive, PTL

\* The conditional update never moves the mark back, whichever of two runs
\* finishes first; only a reset takes the mark away.
THEOREM MarkNeverMovesBack == Spec => MarkMovesForward
<1>1. TypeOK /\ [Next]_vars => [mark' >= mark \/ Reset]_vars
  <2> SUFFICES ASSUME TypeOK, [Next]_vars PROVE mark' >= mark \/ Reset \/ UNCHANGED vars
    OBVIOUS
  <2>1. mark \in Nat /\ \A k \in Runs : run[k].newest \in Nat
    BY RunFields DEF TypeOK
  <2>2. ASSUME NEW k \in Runs, InsertMark(k) PROVE mark' >= mark
    BY <2>1, <2>2 DEF InsertMark
  <2>3. ASSUME NEW k \in Runs, UpdateMark(k) PROVE mark' >= mark
    BY <2>1, <2>3 DEF UpdateMark
  <2>4. mark' = mark => mark' >= mark BY <2>1
  <2>5. ASSUME NEW k \in Runs, Work(k) PROVE mark' >= mark
    BY <2>2, <2>3, <2>4, <2>5 DEF Work, ChooseMode, FetchPage, LoadPage, Checkpoint
  <2> QED BY <2>4, <2>5 DEF Next, Tick, Modify, Start, Interrupt, Abandon
<1> QED BY <1>1, TypeCorrect, PTL DEF Spec, MarkMovesForward
=============================================================================
