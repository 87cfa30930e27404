--------------------------- MODULE MCHubSpotSync ---------------------------
(***************************************************************************)
(* Small instances of HubSpotSync.                                         *)
(***************************************************************************)
EXTENDS HubSpotSync, TLC

CONSTANTS p1, p2, w1, w2, w3, c1, c2

\* Processes, threads and requests in flight are interchangeable.
Symmetry == Permutations(Procs) \cup Permutations(Workers) \cup Permutations(Clients)
=============================================================================
