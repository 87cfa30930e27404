-------------------------- MODULE MCAnalyticsViews --------------------------
(***************************************************************************)
(* Small instances of AnalyticsViews.                                      *)
(***************************************************************************)
EXTENDS AnalyticsViews, TLC

CONSTANTS t1, t2

\* Threads are interchangeable.
Symmetry == Permutations(Threads)
=============================================================================
