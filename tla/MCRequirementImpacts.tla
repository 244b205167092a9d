------------------------- MODULE MCRequirementImpacts -------------------------
(* Small instances of RequirementImpacts for TLC. *)
EXTENDS RequirementImpacts, TLC

CONSTANTS r1, v1, v2, h1, h2, h3

MCCriteria == (h1 :> {"a"}) @@ (h2 :> {"a", "b"}) @@ (h3 :> {"b"})

MCDrafts == [i \in 1..MaxIterations |-> 1]

\* Iterations are opened and migrated; nothing else is written to them here.
MCRevision == [i \in 1..MaxIterations |-> 0]
=============================================================================
