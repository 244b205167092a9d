------------------------------ MODULE MCCommands ------------------------------
\* Model checking of Commands: an edit sent twice with one key, another
\* edit under that key, an edit under a key of its own, and role changes that
\* would leave no methodologist.
EXTENDS Commands

MCUsers == {"ann", "bob"}
MCRequests == {"save", "again", "other", "next", "bobDemotesAnn", "bobLeaves"}
MCMaxCalls == [r \in MCRequests |-> 1]
MCExpectedOf == [r \in MCRequests |-> IF r = "other" THEN 1 ELSE 0]
MCUserOf == [r \in MCRequests |-> IF r \in {"next", "bobDemotesAnn", "bobLeaves"} THEN "bob" ELSE "ann"]
MCKeyOf == [r \in MCRequests |-> IF r \in {"save", "again", "other"} THEN "k1" ELSE r]
MCCommandOf ==
    [r \in MCRequests |->
        CASE r \in {"save", "again"} -> "edit" [] r = "other" -> "edit2" [] r = "next" -> "edit3"
          [] r = "bobDemotesAnn" -> "ann" [] OTHER -> "bob"]
=============================================================================
