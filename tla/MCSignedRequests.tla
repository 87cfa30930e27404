-------------------------- MODULE MCSignedRequests --------------------------
(***************************************************************************)
(* A small instance of SignedRequests: two requests signed a window apart, *)
(* two copies served at a time, a clock that outruns the purge.            *)
(***************************************************************************)
EXTENDS SignedRequests

CONSTANTS r1, r2, h1, h2

\* The timestamps of the two requests.
Signed == [r \in Requests |-> IF r = r1 THEN 2 ELSE 5]
=============================================================================
