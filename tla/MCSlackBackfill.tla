-------------------------- MODULE MCSlackBackfill --------------------------
(***************************************************************************)
(* Small instances of SlackBackfill.                                       *)
(***************************************************************************)
EXTENDS SlackBackfill, TLC

CONSTANTS ch1, ch2, l1, l2, c1

\* One channel of two pages of one message, or one full page, and one channel
\* nobody wrote in: its one page is empty.
TwoAndNone == ch1 :> 2 @@ ch2 :> 0

\* Runs are interchangeable.
Symmetry == Permutations(Runs)
=============================================================================
