--------------------------- MODULE MCClassification ---------------------------
(* Small instances of Classification for TLC.                              *)
EXTENDS Classification, TLC

CONSTANTS a1, c1, w1, w2

(* Worker slots are told apart by what they do only.                       *)
Alike == Permutations(Workers)
=============================================================================
