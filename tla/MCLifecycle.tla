---------------------------- MODULE MCLifecycle ----------------------------
(* Model values for JobServerRefinement. *)
EXTENDS JobServerRefinement

CONSTANTS j1, j2, j3, w1, w2

Jobs2 == {j1, j2}
Jobs3 == {j1, j2, j3}
Workers1 == {w1}
Workers2 == {w1, w2}
=============================================================================
