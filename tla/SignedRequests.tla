--------------------------- MODULE SignedRequests ---------------------------
(***************************************************************************)
(* The dependency every API route is guarded by: a signed request is       *)
(* accepted if its timestamp is within the window of the server's clock    *)
(* and its nonce is not in the `used_nonces` table, from which old rows    *)
(* are purged as new ones are recorded.                                    *)
(*                                                                         *)
(* A signed request is identified by its nonce, and its timestamp is a     *)
(* part of it: both are under the signature, so every copy carries both.   *)
(* The clock is read twice, before and after the request's body is waited  *)
(* for, and may advance in between by any amount: nothing in the code      *)
(* limits how long a body is waited for, nor how far a client's clock is   *)
(* ahead beyond the window itself.  Requests whose signature, client id or *)
(* headers are wrong never reach the table and are left out.               *)
(***************************************************************************)
EXTENDS Integers

CONSTANTS
  Requests,   \* signed requests, each with a nonce of its own
  Ts,         \* the timestamp each request was signed with
  Handlers,   \* names for the requests being served at one time
  Window,     \* SIGNATURE_MAX_AGE_SECONDS
  MaxTime     \* bound on the clock

ASSUME TimesAssumption ==
  /\ Ts \in [Requests -> Nat]
  /\ Window \in Nat /\ MaxTime \in Nat

VARIABLES
  now,        \* the server's clock, in seconds
  used,       \* the used_nonces table: the seen_at of each nonce, or Absent
  serving,    \* the requests whose timestamp was checked and whose body is awaited
  accepted,   \* history: how many times each request was let through
  acceptedAt  \* history: when it was last, or Absent

vars == <<now, used, serving, accepted, acceptedAt>>

Absent == -1
Free   == [busy |-> FALSE]

Init ==
  /\ now = 0
  /\ used = [r \in Requests |-> Absent]
  /\ serving = [h \in Handlers |-> Free]
  /\ accepted = [r \in Requests |-> 0]
  /\ acceptedAt = [r \in Requests |-> Absent]

\* Bug: the nonce is used up before the request is authenticated.
CheckTimestampAndRemember(h, r) ==
  /\ serving[h] = Free
  /\ now - Ts[r] <= Window /\ Ts[r] - now <= Window
  /\ serving' = [serving EXCEPT ![h] = [busy |-> TRUE, request |-> r, since |-> now]]
  /\ used' = [used EXCEPT ![r] = now]
  /\ UNCHANGED <<now, accepted, acceptedAt>>

\* A copy of a request arrives, and its timestamp is within the window of the
\* clock, on either side.
CheckTimestamp(h, r) ==
  /\ serving[h] = Free
  /\ now - Ts[r] <= Window /\ Ts[r] - now <= Window
  /\ serving' = [serving EXCEPT ![h] = [busy |-> TRUE, request |-> r, since |-> now]]
  /\ UNCHANGED <<now, used, accepted, acceptedAt>>

\* Bug: a row is kept for one window only.
KeptOneWindow(seen) == IF seen < now - Window THEN Absent ELSE seen

\* The rows the purge leaves in place.
Kept(seen) == IF seen < now - 2 * Window THEN Absent ELSE seen

\* Bug: the purge's cutoff is recorded where the time belongs.
RememberCutoff(h) ==
  /\ serving[h] # Free
  /\ LET r == serving[h].request IN
     /\ Kept(used[r]) = Absent
     /\ used' = [q \in Requests |-> IF q = r THEN now - 2 * Window ELSE Kept(used[q])]
     /\ accepted' = [accepted EXCEPT ![r] = @ + 1]
     /\ acceptedAt' = [acceptedAt EXCEPT ![r] = now]
  /\ serving' = [serving EXCEPT ![h] = Free]
  /\ UNCHANGED now

\* _remember_nonce, for a nonce that is not in the table after the purge: one
\* commit purges the old rows and records it.
Remember(h) ==
  /\ serving[h] # Free
  /\ LET r == serving[h].request IN
     /\ Kept(used[r]) = Absent
     /\ used' = [q \in Requests |-> IF q = r THEN now ELSE Kept(used[q])]
     /\ accepted' = [accepted EXCEPT ![r] = @ + 1]
     /\ acceptedAt' = [acceptedAt EXCEPT ![r] = now]
  /\ serving' = [serving EXCEPT ![h] = Free]
  /\ UNCHANGED now

\* _remember_nonce, for a nonce the table has: the commit fails, the purge is
\* rolled back with it, and the answer is 401.
RefuseReplay(h) ==
  /\ serving[h] # Free
  /\ Kept(used[serving[h].request]) # Absent
  /\ serving' = [serving EXCEPT ![h] = Free]
  /\ UNCHANGED <<now, used, accepted, acceptedAt>>

\* The client goes away while its body is awaited.
Disconnect(h) ==
  /\ serving[h] # Free
  /\ serving' = [serving EXCEPT ![h] = Free]
  /\ UNCHANGED <<now, used, accepted, acceptedAt>>

\* The clock advances, whatever is being served.
Tick ==
  /\ now < MaxTime
  /\ now' = now + 1
  /\ UNCHANGED <<used, serving, accepted, acceptedAt>>

Next ==
  \/ \E h \in Handlers, r \in Requests : CheckTimestamp(h, r)
  \/ \E h \in Handlers : Remember(h) \/ RefuseReplay(h) \/ Disconnect(h)
  \/ Tick

Spec == Init /\ [][Next]_vars

-----------------------------------------------------------------------------
\* Every variable holds a value of its kind.
TypeOK ==
  /\ now \in Nat
  /\ used \in [Requests -> Nat \cup {Absent}]
  /\ serving \in [Handlers -> [busy : {TRUE}, request : Requests, since : Nat] \cup {Free}]
  /\ accepted \in [Requests -> Nat]
  /\ acceptedAt \in [Requests -> Nat \cup {Absent}]

\* What "a nonce can be used once" (README.md:103) comes to in the code: a
\* request is let through a second time only after its row was purged, two
\* windows after it was last let through, and then only by a copy whose body
\* was waited for longer than what its client's clock was ahead leaves of one
\* window.  So a request signed by a clock that is not ahead (it was let
\* through no earlier than its timestamp) takes effect once among all copies
\* whose body arrives within a window, whatever the order and the number of
\* the copies; the code puts no limit on the wait.
SecondUseIsLate ==
  [][\A h \in Handlers, r \in Requests :
       /\ serving[h] # Free /\ serving'[h] = Free /\ serving[h].request = r
       /\ accepted[r] > 0 /\ accepted'[r] > accepted[r]
       => /\ now > acceptedAt[r] + 2 * Window
          /\ now - serving[h].since > Window - (Ts[r] - acceptedAt[r])]_vars

\* Only a request that was let through uses up a nonce: none is answered with
\* "nonce already used" that was not accepted before.
NonceMeansAccepted == \A r \in Requests : used[r] # Absent => accepted[r] > 0

-----------------------------------------------------------------------------
\* The inductive invariant: a request's row holds the time it was last let
\* through and stays for two windows, and a copy in hand was checked within a
\* window of the timestamp.
NonceInv ==
  /\ \A r \in Requests :
       /\ used[r] # Absent => accepted[r] > 0 /\ used[r] = acceptedAt[r]
       /\ accepted[r] > 0 => acceptedAt[r] # Absent
       /\ accepted[r] > 0 /\ now <= acceptedAt[r] + 2 * Window => used[r] # Absent
  /\ \A h \in Handlers : serving[h] # Free =>
       serving[h].since <= Ts[serving[h].request] + Window
=============================================================================
