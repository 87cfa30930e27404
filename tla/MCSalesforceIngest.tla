------------------------ MODULE MCSalesforceIngest ------------------------
(***************************************************************************)
(* Small instances of SalesforceIngest.                                    *)
(***************************************************************************)
EXTENDS SalesforceIngest, TLC

CONSTANTS j1, w1, w2, c1, r1, bad, f1

\* Threads are interchangeable.
Symmetry == Permutations(Workers)

\* Jobs of one object, organisation and day land under one name.
OnePath == [j \in Jobs |-> f1]
=============================================================================
