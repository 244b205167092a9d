---------------------------- MODULE SignalPromise ----------------------------
(***************************************************************************)
(* What the transactional outbox promises, without rows, leases or relays: *)
(* a message committed with a domain change is owed until it has been      *)
(* handed to the queue at least once or has been parked for an operator.   *)
(* More copies may follow at any time after it was first owed.             *)
(***************************************************************************)
EXTENDS Naturals

CONSTANT Messages

VARIABLES promise, copies

Init ==
    /\ promise = [m \in Messages |-> "none"]
    /\ copies = [m \in Messages |-> 0]

Owe(m) ==
    /\ promise[m] = "none"
    /\ promise' = [promise EXCEPT ![m] = "owed"]
    /\ UNCHANGED copies

Send(m) ==
    /\ promise[m] # "none"
    /\ copies' = [copies EXCEPT ![m] = @ + 1]
    /\ UNCHANGED promise

Settle(m) ==
    /\ promise[m] = "owed"
    /\ copies[m] > 0
    /\ promise' = [promise EXCEPT ![m] = "settled"]
    /\ UNCHANGED copies

Park(S) ==
    /\ \A m \in S : promise[m] = "owed"
    /\ promise' = [m \in Messages |-> IF m \in S THEN "parked" ELSE promise[m]]
    /\ UNCHANGED copies

Next ==
    \/ \E m \in Messages : Owe(m) \/ Send(m) \/ Settle(m)
    \/ \E S \in SUBSET Messages : Park(S)

SafeSpec == Init /\ [][Next]_<<promise, copies>>

Resolve(m) == Settle(m) \/ \E S \in SUBSET Messages : m \in S /\ Park(S)

Spec == SafeSpec /\ \A m \in Messages : WF_<<promise, copies>>(Resolve(m))
=============================================================================
