----------------------- MODULE SignedRequests_proofs -----------------------
(***************************************************************************)
(* Proofs about SignedRequests, for any set of requests, any timestamps,   *)
(* any window, any clocks and any wait for a body: a request is let        *)
(* through again only late, and only requests that were let through use up *)
(* a nonce.                                                                *)
(***************************************************************************)
EXTENDS SignedRequests, TLAPS

\* Every variable keeps its type: the type invariant of the table, the clock
\* and the requests being served.
THEOREM TypeCorrect == Spec => []TypeOK
<1>1. Init => TypeOK
  BY DEF Init, TypeOK, Free, Absent
<1>2. TypeOK /\ [Next]_vars => TypeOK'
  <2> SUFFICES ASSUME TypeOK, [Next]_vars PROVE TypeOK'
    OBVIOUS
  <2> USE TimesAssumption DEF TypeOK
  <2>1. ASSUME NEW h \in Handlers, NEW r \in Requests, CheckTimestamp(h, r) PROVE TypeOK'
    BY <2>1 DEF CheckTimestamp
  <2>2. ASSUME NEW h \in Handlers, Remember(h) PROVE TypeOK'
    <3> DEFINE s == serving[h].request
    <3>1. s \in Requests
      BY <2>2 DEF Remember, Free
    <3>2. used' \in [Requests -> Nat \cup {Absent}]
      BY <2>2 DEF Remember, Kept
    <3>3. accepted' \in [Requests -> Nat]
      BY <2>2, <3>1 DEF Remember
    <3>4. acceptedAt' \in [Requests -> Nat \cup {Absent}]
      BY <2>2, <3>1 DEF Remember
    <3> QED
      BY <2>2, <3>2, <3>3, <3>4 DEF Remember
  <2>3. ASSUME NEW h \in Handlers, RefuseReplay(h) PROVE TypeOK'
    BY <2>3 DEF RefuseReplay
  <2>4. ASSUME NEW h \in Handlers, Disconnect(h) PROVE TypeOK'
    BY <2>4 DEF Disconnect
  <2>5. CASE Tick
    <3>1. now + 1 \in Nat
      OBVIOUS
    <3> QED
      BY <2>5, <3>1 DEF Tick
  <2>6. CASE UNCHANGED vars
    BY <2>6 DEF vars
  <2> QED
    BY <2>1, <2>2, <2>3, <2>4, <2>5, <2>6 DEF Next
<1> QED
  BY <1>1, <1>2, PTL DEF Spec

-----------------------------------------------------------------------------
\* The inductive invariant holds of every behaviour: a row holds the time its
\* request was last let through, and outlives it by two windows, under every
\* order of checks, commits, purges and ticks of the clock.
THEOREM NonceCorrect == Spec => []NonceInv
<1>1. Init => NonceInv
  BY DEF Init, NonceInv, Absent, Free
<1>2. TypeOK /\ NonceInv /\ [Next]_vars => NonceInv'
  <2> SUFFICES ASSUME TypeOK, NonceInv, [Next]_vars PROVE NonceInv'
    OBVIOUS
  <2> USE TimesAssumption
  <2>1. ASSUME NEW h \in Handlers, NEW r \in Requests, CheckTimestamp(h, r) PROVE NonceInv'
    <3>1. now <= Ts[r] + Window
      BY <2>1 DEF CheckTimestamp, TypeOK
    <3> QED
      BY <2>1, <3>1 DEF CheckTimestamp, NonceInv, TypeOK
  <2>2. ASSUME NEW h \in Handlers, Remember(h) PROVE NonceInv'
    <3> DEFINE s == serving[h].request
    <3>1. s \in Requests /\ now \in Nat
      BY <2>2 DEF Remember, TypeOK, Free
    <3>2. accepted'[s] > 0 /\ used'[s] = now /\ acceptedAt'[s] = now
      BY <2>2, <3>1 DEF Remember, TypeOK
    <3>3. ASSUME NEW r \in Requests
          PROVE  /\ used'[r] # Absent => accepted'[r] > 0 /\ used'[r] = acceptedAt'[r]
                 /\ accepted'[r] > 0 => acceptedAt'[r] # Absent
                 /\ accepted'[r] > 0 /\ now <= acceptedAt'[r] + 2 * Window => used'[r] # Absent
      <4>1. CASE r = s
        BY <3>1, <3>2, <4>1 DEF Absent
      <4>2. CASE r # s
        <5>1. used'[r] = Kept(used[r]) /\ accepted'[r] = accepted[r] /\ acceptedAt'[r] = acceptedAt[r]
          BY <2>2, <4>2 DEF Remember, TypeOK
        <5>2. accepted[r] > 0 /\ now <= acceptedAt[r] + 2 * Window
              => used[r] # Absent /\ used[r] = acceptedAt[r] /\ ~(used[r] < now - 2 * Window)
          BY <3>1 DEF NonceInv, TypeOK, Absent
        <5> QED
          BY <5>1, <5>2 DEF Kept, NonceInv
      <4> QED
        BY <4>1, <4>2
    <3>4. now' = now /\ \A g \in Handlers : serving'[g] # Free => serving'[g] = serving[g]
      BY <2>2 DEF Remember, TypeOK
    <3>5. \A g \in Handlers : serving'[g] # Free =>
            serving'[g].since <= Ts[serving'[g].request] + Window
      BY <3>4 DEF NonceInv
    <3> QED
      BY <3>3, <3>4, <3>5 DEF NonceInv
  <2>3. ASSUME NEW h \in Handlers, RefuseReplay(h) PROVE NonceInv'
    BY <2>3 DEF RefuseReplay, NonceInv, TypeOK
  <2>4. ASSUME NEW h \in Handlers, Disconnect(h) PROVE NonceInv'
    BY <2>4 DEF Disconnect, NonceInv, TypeOK
  <2>5. CASE Tick
    <3>1. ASSUME NEW r \in Requests, accepted[r] > 0, now + 1 <= acceptedAt[r] + 2 * Window
          PROVE  used[r] # Absent
      <4>1. now <= acceptedAt[r] + 2 * Window
        BY <3>1 DEF TypeOK, Absent
      <4> QED
        BY <3>1, <4>1 DEF NonceInv
    <3> QED
      BY <2>5, <3>1 DEF Tick, NonceInv
  <2>6. CASE UNCHANGED vars
    BY <2>6 DEF vars, NonceInv
  <2> QED
    BY <2>1, <2>2, <2>3, <2>4, <2>5, <2>6 DEF Next
<1> QED
  BY <1>1, <1>2, TypeCorrect, PTL DEF Spec

-----------------------------------------------------------------------------
\* When a copy is let through that was let through before, the row of its
\* nonce is more than two windows old, and the copy's body was waited for
\* longer than what the client's clock was ahead leaves of one window.
LEMMA SecondUse ==
  ASSUME TypeOK, NonceInv, NEW h \in Handlers, Remember(h),
         accepted[serving[h].request] > 0
  PROVE  LET r == serving[h].request IN
         /\ now > acceptedAt[r] + 2 * Window
         /\ now - serving[h].since > Window - (Ts[r] - acceptedAt[r])
<1> DEFINE r == serving[h].request
           e == serving[h].since
<1>1. r \in Requests /\ e \in Nat /\ Ts[r] \in Nat /\ serving[h] # Free
  BY TimesAssumption DEF TypeOK, Free, Remember
<1>2. acceptedAt[r] \in Nat /\ now \in Nat
  BY <1>1 DEF NonceInv, TypeOK
<1>3. Kept(used[r]) = Absent
  BY DEF Remember
<1> HIDE DEF r
<1>4. used[r] # Absent => used[r] = acceptedAt[r] /\ used[r] < now - 2 * Window
  BY <1>1, <1>3 DEF Kept, NonceInv
<1>5. now > acceptedAt[r] + 2 * Window
  <2>1. CASE used[r] = Absent
    BY <1>1, <1>2, <2>1, TimesAssumption DEF NonceInv, r
  <2>2. CASE used[r] # Absent
    BY <1>2, <1>4, <2>2, TimesAssumption
  <2> QED
    BY <2>1, <2>2
<1>6. e <= Ts[r] + Window
  BY <1>1 DEF NonceInv, r
<1>7. now - e > Window - (Ts[r] - acceptedAt[r])
  BY <1>1, <1>2, <1>5, <1>6, TimesAssumption
<1> QED
  BY <1>5, <1>7 DEF r

\* README.md:103 ("a nonce can be used once"), as far as the code keeps it: a
\* second use comes two windows after the first, from a copy whose body was
\* waited for longer than a window less what its client's clock was ahead.
THEOREM SecondUseOnlyLate == Spec => SecondUseIsLate
<1> DEFINE LateUse(h, r) ==
             /\ serving[h] # Free /\ serving'[h] = Free /\ serving[h].request = r
             /\ accepted[r] > 0 /\ accepted'[r] > accepted[r]
             => /\ now > acceptedAt[r] + 2 * Window
                /\ now - serving[h].since > Window - (Ts[r] - acceptedAt[r])
<1>1. TypeOK /\ NonceInv /\ [Next]_vars => [\A h \in Handlers, r \in Requests : LateUse(h, r)]_vars
  <2> SUFFICES ASSUME TypeOK, NonceInv, [Next]_vars, NEW h \in Handlers, NEW r \in Requests,
                      serving[h] # Free, serving'[h] = Free, serving[h].request = r,
                      accepted[r] > 0, accepted'[r] > accepted[r]
               PROVE  /\ now > acceptedAt[r] + 2 * Window
                      /\ now - serving[h].since > Window - (Ts[r] - acceptedAt[r])
    OBVIOUS
  <2>1. accepted' # accepted
    BY DEF TypeOK
  <2>2. PICK g \in Handlers : Remember(g)
    BY <2>1 DEF Next, CheckTimestamp, RefuseReplay, Disconnect, Tick, vars
  <2>3. g = h
    BY <2>2 DEF Remember, TypeOK
  <2> QED
    BY <2>2, <2>3, SecondUse
<1> QED
  BY <1>1, TypeCorrect, NonceCorrect, PTL DEF Spec, SecondUseIsLate

\* A request is told "nonce already used" only if a copy of it was let
\* through: a refused or an abandoned request uses up nothing.
THEOREM NonceUsed == Spec => []NonceMeansAccepted
<1>1. NonceInv => NonceMeansAccepted
  BY DEF NonceInv, NonceMeansAccepted
<1> QED
  BY <1>1, NonceCorrect, PTL
=============================================================================
