------------------------- MODULE MCIncrementalSync -------------------------
(***************************************************************************)
(* Small instances of IncrementalSync.                                     *)
(***************************************************************************)
EXTENDS IncrementalSync, TLC

CONSTANTS k1, k2, k3

\* Runs are interchangeable.
Symmetry == Permutations(Runs)
=============================================================================
