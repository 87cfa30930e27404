-------------------------- MODULE MCSlackRealtime --------------------------
(***************************************************************************)
(* Small instances of SlackRealtime.                                       *)
(***************************************************************************)
EXTENDS SlackRealtime, TLC

CONSTANTS t1, t2, t3, c1, c2

\* Threads and requests in flight are interchangeable.
Symmetry == Permutations(Threads) \cup Permutations(Clients)
=============================================================================
