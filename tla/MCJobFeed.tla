----------------------------- MODULE MCJobFeed -----------------------------
(* Small instances of JobFeed. *)
EXTENDS JobFeed

CONSTANTS j1, j2, c1, c2, s1, s2

\* The second page follows one workspace only.
Scopes == [c \in Client |-> IF c = c2 THEN {j1} ELSE Job]
=============================================================================
