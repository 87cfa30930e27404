------------------------------- MODULE Retry -------------------------------
(***************************************************************************)
(* with_retry: the policy around every call to an outside service.  A call *)
(* is the record of its failures, of the 429s it was answered, of the      *)
(* seconds it waited for those, and of all the seconds it slept.  Seconds  *)
(* are whole numbers.  The modules whose workers call a service decide on  *)
(* each answer with these operators.                                       *)
(***************************************************************************)
EXTENDS Naturals

CONSTANTS
  MaxAttempts,  \* MAX_ATTEMPTS: tries for failures other than a 429
  MaxRetries,   \* MAX_RATE_LIMIT_RETRIES: 429s a call puts up with
  MaxWait,      \* RATE_LIMIT_MAX_WAIT_SECONDS: longest single wait for a 429
  TotalWait,    \* RATE_LIMIT_TOTAL_WAIT_SECONDS: all waits of a call for 429s
  BackoffMax,   \* BACKOFF_MAX: longest sleep without a Retry-After header
  Headers       \* values of Retry-After the service may send

ASSUME RetryAssumption ==
  /\ MaxAttempts \in Nat \ {0} /\ MaxRetries \in Nat
  /\ MaxWait \in Nat /\ TotalWait \in Nat /\ BackoffMax \in Nat
  /\ Headers \subseteq Nat

Calls == [failures : Nat, limits : Nat, waited : Nat, slept : Nat]

FreshCall == [failures |-> 0, limits |-> 0, waited |-> 0, slept |-> 0]

\* What an HTTP answer means to the caller: 429, 5xx or a dropped connection,
\* a permanent error, or a result.
Replies == {"ok", "limited", "failed", "refused"}

\* An authenticated request: on a 401 the client logs in again and asks once
\* more, and a second 401 is a permanent error.
Reply(first, login, again) ==
  IF first # "unauthorized" THEN first
  ELSE IF login # "ok" THEN login
  ELSE IF again = "unauthorized" THEN "refused" ELSE again

\* The replies one attempt of an authenticated request can end with.
AuthorizedReplies ==
  {Reply(first, login, again) :
     first \in Replies \cup {"unauthorized"}, login \in Replies,
     again \in Replies \cup {"unauthorized"}}

\* _backoff: exponential, capped, with up to a second of jitter.
Backoff(n) ==
  {t \in 0..BackoffMax : \E jitter \in 0..1 :
     t = IF 2^(n - 1) + jitter < BackoffMax THEN 2^(n - 1) + jitter ELSE BackoffMax}

\* A 429 says how long to wait, or the caller backs off.
Waits(call) == Headers \cup Backoff(call.limits + 1)

\* Bug: the total is compared before the next wait is added to it.
OutwaitedBeforeAdding(call, wait) ==
  \/ wait > MaxWait
  \/ call.waited > TotalWait
  \/ call.limits + 1 > MaxRetries

\* The 429 is raised instead of waited out.
Outwaited(call, wait) ==
  \/ wait > MaxWait
  \/ call.waited + wait > TotalWait
  \/ call.limits + 1 > MaxRetries

\* A 429 is waited out, and is not an attempt.
WaitOut(call, wait) ==
  [call EXCEPT !.limits = call.limits + 1, !.waited = call.waited + wait,
               !.slept = call.slept + wait]

\* Any other transient failure: the last attempt raises it.
Exhausted(call) == call.failures + 1 >= MaxAttempts

BackOff(call, sleep) ==
  [call EXCEPT !.failures = call.failures + 1, !.slept = call.slept + sleep]

\* The calls an unsuccessful attempt may go on as, after its sleep.
Retried(call, reply) ==
  CASE reply = "limited" ->
         {WaitOut(call, wait) : wait \in {t \in Waits(call) : ~Outwaited(call, t)}}
    [] reply = "failed" /\ ~Exhausted(call) ->
         {BackOff(call, sleep) : sleep \in Backoff(call.failures + 1)}
    [] OTHER -> {}

\* The attempt ends the call with an exception.
Raises(call, reply) ==
  \/ reply = "refused"
  \/ reply = "failed" /\ Exhausted(call)
  \/ reply = "limited" /\ \E wait \in Waits(call) : Outwaited(call, wait)

\* The longest a call keeps its thread asleep, whatever the service answers.
LongestSleep == TotalWait + (MaxAttempts - 1) * BackoffMax

\* A call that goes on has not used up what the policy allows it: its attempts
\* and 429s are bounded, and so is the time in which its thread looks neither
\* at the control column nor at its job.
WithinBudget(call) ==
  /\ call.failures < MaxAttempts
  /\ call.limits <= MaxRetries
  /\ call.slept <= LongestSleep
=============================================================================
