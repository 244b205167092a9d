--------------------------- MODULE PublishedHistory ---------------------------
(***************************************************************************)
(* What a student is promised about the results of one homework: results   *)
(* are only ever added, the current one is that of the greatest iteration  *)
(* published so far, and no later result belongs to an earlier iteration.  *)
(***************************************************************************)
EXTENDS Naturals

VARIABLES
    published,  \* <<iteration number, draft number>> of every result
    result      \* iteration number of the current result, 0 before the first

Init == published = {} /\ result = 0

Add(x) ==
    /\ x[1] > result
    /\ published' = published \cup {x}
    /\ result' = x[1]

Next == \E x \in published' : Add(x)

Spec == Init /\ [][Next]_<<published, result>>
=============================================================================
