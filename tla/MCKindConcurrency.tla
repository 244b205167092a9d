------------------------ MODULE MCKindConcurrency ---------------------------
(* Small instances of KindConcurrency for TLC. *)
EXTENDS KindConcurrency

\* Four executions: three AI reviews competing for two slots, one delivery.
MCExecutions == 1..4
MCKind == [e \in 1..4 |-> IF e = 4 THEN "external_delivery" ELSE "ai_review"]
MCLimit == [k \in {"ai_review", "external_delivery"} |-> IF k = "ai_review" THEN 2 ELSE 1]

\* Every signal is in the queue once.
MCOwnIds == [e \in 1..4 |-> e]
=============================================================================
