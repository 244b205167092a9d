------------------------------ MODULE MCOutbox ------------------------------
(* Small instances of Outbox for TLC. *)
EXTENDS Outbox, TLC

CONSTANTS m1, m2, r1, r2

\* Uneven budgets: one message is on its final lease while the other retries.
MCUneven == m1 :> 3 @@ m2 :> 2

MCTwoEach == [m \in Messages |-> 2]
=============================================================================
