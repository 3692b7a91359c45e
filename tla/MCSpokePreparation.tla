------------------------- MODULE MCSpokePreparation -------------------------
(* Two prepare requests, which may overlap, and two enrollments one after  *)
(* the other: a handler of the first may return in the second.             *)
EXTENDS SpokePreparation, TLC

PrepareSymmetry == Permutations(Prepares)
=============================================================================
