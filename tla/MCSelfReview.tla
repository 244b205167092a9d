---------------------------- MODULE MCSelfReview ----------------------------
(* Small instances of SelfReview for TLC. *)
EXTENDS SelfReview, TLC

CONSTANTS s1, s2, w1, w2

MCSymmetry == Permutations(Runs) \cup Permutations(Workers)
=============================================================================
