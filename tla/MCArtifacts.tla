----------------------------- MODULE MCArtifacts -----------------------------
\* Model checking of Artifacts: promotion workers are interchangeable.
EXTENDS Artifacts, TLC

CONSTANTS c1, c2, w1, w2

WorkerSymmetry == Permutations(Workers) \union Permutations(Contents)
=============================================================================
