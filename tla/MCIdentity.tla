------------------------------ MODULE MCIdentity ------------------------------
(* A methodologist who logs in by Stepik and a reviewer who comes by            *)
(* invitation, two requests at a time.                                          *)
EXTENDS Identity, TLC

CONSTANTS ann, bob, login1, login2, link1, link2, asReviewer, asMethodologist, n1, n2, n3, c1, c2

MCInviteeOf == [i \in Invitations |-> bob]
MCRoleOf == asReviewer :> "reviewer" @@ asMethodologist :> "methodologist"
Alike == Permutations(Sessions) \union Permutations(Calls) \union Permutations({link1, link2})
=============================================================================
