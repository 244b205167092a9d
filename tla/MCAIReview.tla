----------------------------- MODULE MCAIReview -----------------------------
(* Small instances of AIReview for TLC. *)
EXTENDS AIReview, TLC

CONSTANTS w1, w2

MCSymmetry == Permutations(Workers)
=============================================================================
