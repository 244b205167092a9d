---------------------------- MODULE MCReviewCase ----------------------------
(* Small instances of ReviewCase for TLC. *)
EXTENDS ReviewCase, TLC

CONSTANTS r1, r2, v1, v2, h1, h2, q1

\* The second homework version has a criterion the first does not have.
MCCriteria == (h1 :> {"a"}) @@ (h2 :> {"a", "b"})

\* The third iteration is only opened: it is there to have two successors.
MCDrafts == <<2, 1, 1>>
MCRevision == <<3, 2, 1>>

MCSymmetry == Permutations(Reviewers)
=============================================================================
