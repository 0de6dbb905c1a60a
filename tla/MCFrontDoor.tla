---------------------------- MODULE MCFrontDoor ----------------------------
(* Model values for FrontDoor: a probe, a request without a key, and three    *)
(* requests with one.                                                        *)
EXTENDS FrontDoor

CONSTANTS probe, nokey, r1, r2, r3

AllRequests == {probe, nokey, r1, r2, r3}
ProbeSet    == {probe}
WithKey     == {r1, r2, r3}
=============================================================================
