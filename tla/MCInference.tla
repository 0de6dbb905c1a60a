---------------------------- MODULE MCInference ----------------------------
(* Pieces for Inference: a word, a location whose number depends on where it *)
(* stands (some beyond the clamped range), and a "<loc_" without a number.   *)
EXTENDS Inference

Word      == [kind |-> "word", value |-> 0]
Malformed == [kind |-> "malformed", value |-> 0]
EosPiece  == [kind |-> "eos", value |-> 0]
Loc(n)    == [kind |-> "loc", value |-> (3 * n) % 7]

MalformedAt(n) == {Word, Loc(n), Malformed, EosPiece}
WithMalformed  == UNION {MalformedAt(n) : n \in 0..6}
=============================================================================
