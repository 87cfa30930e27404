------------------------------ MODULE JobTable ------------------------------
(***************************************************************************)
(* The status column of a row of the `jobs` table and the transition table *)
(* that every status write of the platform is checked against.  Every      *)
(* module that writes a job's status takes these definitions from here.    *)
(***************************************************************************)

Statuses == {"PENDING", "RUNNING", "PAUSED", "COMPLETED", "FAILED", "CANCELLED"}

\* _ALLOWED_TRANSITIONS: what a job may become from each status.
AllowedTransitions ==
  [ PENDING   |-> {"RUNNING", "CANCELLED", "FAILED"},
    RUNNING   |-> {"PAUSED", "COMPLETED", "FAILED", "CANCELLED"},
    PAUSED    |-> {"RUNNING", "CANCELLED"},
    COMPLETED |-> {},
    FAILED    |-> {"RUNNING", "CANCELLED"},
    CANCELLED |-> {} ]

\* The test transition() makes before it writes: the status it read may
\* become the new one.  Anything else is answered with a 409.
CanTransition(from, to) == to \in AllowedTransitions[from]

\* Statuses no row of the table leaves.
Terminal == {s \in Statuses : AllowedTransitions[s] = {}}
=============================================================================
