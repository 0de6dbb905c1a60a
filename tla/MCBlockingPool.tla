--------------------------- MODULE MCBlockingPool ---------------------------
(* Model values for BlockingPool. *)
EXTENDS BlockingPool

CONSTANTS w1, w2, t1, t2, t3, h1

Workers1 == {w1}
Workers2 == {w1, w2}
Threads1 == {t1}
Threads2 == {t1, t2}
Threads3 == {t1, t2, t3}
Handlers1 == {h1}
=============================================================================
