---------------------------- MODULE MCJobMetrics ----------------------------
(* Model values for JobMetrics. *)
EXTENDS JobMetrics

CONSTANTS w1, w2

Workers2 == {w1, w2}
=============================================================================
