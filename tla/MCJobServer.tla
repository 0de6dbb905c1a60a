---------------------------- MODULE MCJobServer ----------------------------
(* Model values for JobServer. *)
EXTENDS JobServer, TLC

CONSTANTS j1, j2, j3, w1, w2

Jobs1 == {j1}
Jobs2 == {j1, j2}
Jobs3 == {j1, j2, j3}
Workers1 == {w1}
Workers2 == {w1, w2}

\* Sound where Uploads and Hooked are all of Jobs: then no job and no worker
\* is told apart from another.
Symmetry == Permutations(Jobs) \cup Permutations(Workers)
=============================================================================
