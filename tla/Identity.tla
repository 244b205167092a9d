------------------------------- MODULE Identity -------------------------------
(***************************************************************************)
(* Who may act: bootstrap and recovery of the first methodologist          *)
(* (application/services/bootstrap.py), login by Stepik and by invitation  *)
(* (authentication.py, invitations.py), sessions (session_middleware.py),  *)
(* role changes (memberships.py) and the tokens members give to agents     *)
(* (agent_authorizations.py, repositories/agents.py, auth_guards/agent.py, *)
(* mcp/server.py).                                                         *)
(*                                                                         *)
(* A login reads its proof, asks the identity provider, and only then      *)
(* locks the rows and decides: between the two anything may happen.  A     *)
(* request of a member or of an agent carries the rights it was admitted   *)
(* with and is checked against the locked rows before its commit.  What a  *)
(* transaction does under its row locks is one step; the idempotency       *)
(* receipts and the lock conflicts of these commands are in Commands.      *)
(***************************************************************************)
EXTENDS Integers, FiniteSets

CONSTANTS
    Users,          \* external identities, each of one provider
    StepikUsers,    \* those that log in by Stepik, the others by invitation
    States,         \* one-time login states
    StepikStates,   \* those made for Stepik, the others for magic links
    Invitations,
    InviteeOf,      \* InviteeOf[i]: whose verified e-mail the invitation names
    RoleOf,         \* RoleOf[i]: the role it grants
    Sessions,
    Tokens,         \* agent authorizations
    Calls,          \* requests in progress
    RecoveryKeys,   \* one-time authorities of the installation operator
    MaxEpoch,       \* bound on the changes of a membership
    MaxWork,        \* bound on what an agent does with a token
    MaxLapses       \* bound on how much expires

Roles == {"methodologist", "reviewer"}

ASSUME IdentityAssumption ==
    /\ StepikUsers \subseteq Users
    /\ StepikStates \subseteq States
    /\ InviteeOf \in [Invitations -> Users \ StepikUsers]
    /\ RoleOf \in [Invitations -> Roles]
    /\ MaxEpoch \in Nat /\ MaxWork \in Nat /\ MaxLapses \in Nat

VARIABLES
    members,        \* users with a membership
    roles,          \* roles[u]
    epoch,          \* epoch[u]: auth_epoch and revision, which move together
    organization,   \* revision of the organization
    recovered,      \* recovered[k]: whom the recovery key was used for
    states,         \* states[s]: none, open or consumed
    invitations,    \* invitations[i]: none, active, consumed or revoked
    sessions,       \* sessions[n], with the roles it was opened under
    tokens,         \* tokens[t]
    work,           \* work[t]: what agents have committed with the token
    calls,          \* calls[c]: what the request has read so far
    lapsed          \* what has expired

membership == <<members, roles, epoch>>
operator == <<organization, recovered>>
proofs == <<states, invitations>>
vars == <<membership, operator, proofs, sessions, tokens, work, calls, lapsed>>

NoOne == "none"
NoSession == [status |-> "none"]
NoToken == [status |-> "none"]
Idle == [kind |-> "idle"]

Init ==
    /\ members = {}
    /\ roles = [u \in Users |-> {}]
    /\ epoch = [u \in Users |-> 0]
    /\ organization = 0
    /\ recovered = [k \in RecoveryKeys |-> NoOne]
    /\ states = [s \in States |-> "none"]
    /\ invitations = [i \in Invitations |-> "none"]
    /\ sessions = [n \in Sessions |-> NoSession]
    /\ tokens = [t \in Tokens |-> NoToken]
    /\ work = [t \in Tokens |-> 0]
    /\ calls = [c \in Calls |-> Idle]
    /\ lapsed = {}

-----------------------------------------------------------------------------
Opened(n) == sessions[n].status # "none"
Given(t) == tokens[t].status # "none"

TypeOK ==
    /\ members \subseteq Users
    /\ roles \in [Users -> SUBSET Roles]
    /\ epoch \in [Users -> Nat]
    /\ organization \in Nat
    /\ recovered \in [RecoveryKeys -> Users \union {NoOne}]
    /\ states \in [States -> {"none", "open", "consumed"}]
    /\ invitations \in [Invitations -> {"none", "active", "consumed", "revoked"}]
    /\ sessions \in [Sessions -> {NoSession} \union
            [status : {"active", "revoked"}, state : States, invitation : Invitations \union {NoOne},
             user : Users, epoch : Nat, roles : SUBSET Roles]]
    /\ tokens \in [Tokens -> {NoToken} \union
            [status : {"active", "revoked"}, user : Users, epoch : Nat]]
    /\ work \in [Tokens -> Nat]
    /\ calls \in [Calls -> {Idle}
            \union [kind : {"login"}, state : States, user : Users]
            \union [kind : {"invited"}, state : States, invitation : Invitations, user : Users]
            \union [kind : {"member"}, user : Users, epoch : Nat, roles : SUBSET Roles]
            \union [kind : {"agent"}, token : Tokens, user : Users, epoch : Nat, roles : SUBSET Roles]]
    /\ lapsed \subseteq States \union Invitations \union Sessions \union Tokens

-----------------------------------------------------------------------------
Is(c, kind) == calls[c].kind = kind
Begins(c, request) == Is(c, "idle") /\ calls' = [calls EXCEPT ![c] = request]
Ends(c) == calls' = [calls EXCEPT ![c] = Idle]

\* Mutant: an invited role joins the others and the membership stays as it was.
GrantQuietly(u, role) ==
    /\ members' = members \union {u}
    /\ roles' = [roles EXCEPT ![u] = @ \union {role}]
    /\ UNCHANGED epoch

\* _grant_invited_role and _grant_methodologist: a new membership, or one more
\* role and a new epoch; sessions and tokens of the old epoch are left alone.
Grant(u, role) ==
    /\ members' = members \union {u}
    /\ roles' = [roles EXCEPT ![u] = @ \union {role}]
    /\ epoch' = IF u \in members /\ role \notin roles[u]
                THEN [epoch EXCEPT ![u] = @ + 1]
                ELSE epoch

\* The operator makes the first methodologist, once.
Activate(u) ==
    /\ organization = 0
    /\ \A v \in members : "methodologist" \notin roles[v]
    /\ organization' = 1
    /\ Grant(u, "methodologist")
    /\ UNCHANGED <<recovered, proofs, sessions, tokens, work, calls, lapsed>>

\* A recovery key makes one more methodologist and is bound to that identity;
\* its repetition changes nothing.
Recover(k, u) ==
    /\ recovered[k] = NoOne
    /\ epoch[u] < MaxEpoch
    /\ recovered' = [recovered EXCEPT ![k] = u]
    /\ organization' = organization + 1
    /\ Grant(u, "methodologist")
    /\ UNCHANGED <<proofs, sessions, tokens, work, calls, lapsed>>

\* What is still good for something and has an expires_at.
Expiring ==
    {s \in States : states[s] = "open"} \union {i \in Invitations : invitations[i] = "active"}
    \union {n \in Sessions : sessions[n].status = "active"}
    \union {t \in Tokens : tokens[t].status = "active"}

Lapse(x) ==
    /\ x \in Expiring \ lapsed
    /\ Cardinality(lapsed) < MaxLapses
    /\ lapsed' = lapsed \union {x}
    /\ UNCHANGED <<membership, operator, proofs, sessions, tokens, work, calls>>

-----------------------------------------------------------------------------
(* Login *)

StateOpen(s) == states[s] = "open" /\ s \notin lapsed
InvitationValid(i) == invitations[i] = "active" /\ i \notin lapsed

OpenState(s) ==
    /\ states[s] = "none"
    /\ states' = [states EXCEPT ![s] = "open"]
    /\ UNCHANGED <<membership, operator, invitations, sessions, tokens, work, calls, lapsed>>

\* complete_stepik_oauth up to the answer of the provider, which names u.
BeginLogin(c, s, u) ==
    /\ s \in StepikStates /\ StateOpen(s)
    /\ u \in StepikUsers
    /\ Begins(c, [kind |-> "login", state |-> s, user |-> u])
    /\ UNCHANGED <<membership, operator, proofs, sessions, tokens, work, lapsed>>

\* consume_reviewer_magic_link up to the answer of the provider, which has
\* verified the e-mail of u.
BeginInvited(c, s, i, u) ==
    /\ s \notin StepikStates /\ StateOpen(s)
    /\ InvitationValid(i)
    /\ u \notin StepikUsers
    /\ Begins(c, [kind |-> "invited", state |-> s, invitation |-> i, user |-> u])
    /\ UNCHANGED <<membership, operator, proofs, sessions, tokens, work, lapsed>>

\* _create_session with the rights the member has in this transaction.
OpenSession(s, i, u) ==
    \E n \in Sessions :
        /\ ~Opened(n)
        /\ sessions' = [sessions EXCEPT ![n] =
                [status |-> "active", state |-> s, invitation |-> i, user |-> u,
                 epoch |-> epoch'[u], roles |-> roles'[u]]]

Consume(s) == states' = [states EXCEPT ![s] = "consumed"]

\* Mutant: the proofs are not looked at again under the lock.
ProofsAsRead(c) == TRUE

\* The state, and the invitation of a magic link, are still good under the lock.
ProofsHold(c) ==
    /\ StateOpen(calls[c].state)
    /\ Is(c, "invited") => InvitationValid(calls[c].invitation)

\* The locked half of complete_stepik_oauth.
FinishLogin(c) ==
    /\ Is(c, "login")
    /\ ProofsHold(c)
    /\ LET s == calls[c].state
           u == calls[c].user
       IN  /\ u \in members /\ roles[u] # {}
           /\ UNCHANGED membership
           /\ OpenSession(s, NoOne, u)
           /\ Consume(s)
    /\ Ends(c)
    /\ UNCHANGED <<operator, invitations, tokens, work, lapsed>>

\* The locked half of consume_reviewer_magic_link.
FinishInvited(c) ==
    /\ Is(c, "invited")
    /\ ProofsHold(c)
    /\ LET s == calls[c].state
           i == calls[c].invitation
           u == calls[c].user
       IN  /\ InviteeOf[i] = u
           /\ Grant(u, RoleOf[i])
           /\ OpenSession(s, i, u)
           /\ Consume(s)
           /\ invitations' = [invitations EXCEPT ![i] = "consumed"]
    /\ Ends(c)
    /\ UNCHANGED <<operator, tokens, work, lapsed>>

-----------------------------------------------------------------------------
(* Requests of members *)

\* current_session admits the request.
Usable(n) ==
    /\ sessions[n].status = "active" /\ n \notin lapsed
    /\ roles[sessions[n].user] # {}
    /\ epoch[sessions[n].user] = sessions[n].epoch

BeginRequest(c, n) ==
    /\ Usable(n)
    /\ LET u == sessions[n].user
       IN  Begins(c, [kind |-> "member", user |-> u, epoch |-> epoch[u], roles |-> roles[u]])
    /\ UNCHANGED <<membership, operator, proofs, sessions, tokens, work, lapsed>>

\* lock_and_revalidate: the member still has the rights of the request.
Fresh(c) ==
    /\ epoch[calls[c].user] = calls[c].epoch
    /\ roles[calls[c].user] = calls[c].roles

Acts(c, role) == Is(c, "member") /\ role \in calls[c].roles /\ Ends(c)

IssueInvitation(c, i) ==
    /\ Acts(c, "methodologist") /\ Fresh(c)
    /\ invitations[i] = "none"
    /\ invitations' = [invitations EXCEPT ![i] = "active"]
    /\ UNCHANGED <<membership, operator, states, sessions, tokens, work, lapsed>>

RevokeInvitation(c, i) ==
    /\ Acts(c, "methodologist") /\ Fresh(c)
    /\ invitations[i] = "active"
    /\ invitations' = [invitations EXCEPT ![i] = "revoked"]
    /\ UNCHANGED <<membership, operator, states, sessions, tokens, work, lapsed>>

Methodologists == {u \in members : "methodologist" \in roles[u]}
EndedFor(u, row) ==
    IF row.status = "active" /\ row.user = u THEN [row EXCEPT !.status = "revoked"] ELSE row

\* change_roles: the new roles, a new epoch, and the member's sessions and
\* tokens are revoked.  A change of one's own roles is checked against the
\* rights just written.
ChangeRoles(c, u, new) ==
    /\ Acts(c, "methodologist")
    /\ u \in members /\ epoch[u] < MaxEpoch
    /\ "methodologist" \in roles[u] \ new => Cardinality(Methodologists) > 1
    /\ IF u = calls[c].user THEN new # {} ELSE Fresh(c)
    /\ roles' = [roles EXCEPT ![u] = new]
    /\ epoch' = [epoch EXCEPT ![u] = @ + 1]
    /\ sessions' = [n \in Sessions |-> EndedFor(u, sessions[n])]
    /\ tokens' = [t \in Tokens |-> EndedFor(u, tokens[t])]
    /\ UNCHANGED <<members, operator, proofs, work, lapsed>>

\* A reviewer gives an agent a token with any scopes, all of which reviewers have.
GrantToken(c, t) ==
    /\ Acts(c, "reviewer") /\ Fresh(c)
    /\ ~Given(t)
    /\ tokens' = [tokens EXCEPT ![t] =
            [status |-> "active", user |-> calls[c].user, epoch |-> calls[c].epoch]]
    /\ UNCHANGED <<membership, operator, proofs, sessions, work, lapsed>>

\* revoke_linked: the owner takes back a token of the present epoch.
RevokeToken(c, t) ==
    /\ Acts(c, "reviewer") /\ Fresh(c)
    /\ tokens[t].status = "active"
    /\ tokens[t].user = calls[c].user /\ tokens[t].epoch = calls[c].epoch
    /\ tokens' = [tokens EXCEPT ![t].status = "revoked"]
    /\ UNCHANGED <<membership, operator, proofs, sessions, work, lapsed>>

\* logout_current_session, which asks for nothing but the secret.
Logout(n) ==
    /\ sessions[n].status = "active"
    /\ sessions' = [sessions EXCEPT ![n].status = "revoked"]
    /\ UNCHANGED <<membership, operator, proofs, tokens, work, calls, lapsed>>

-----------------------------------------------------------------------------
(* Requests of agents *)

TokenUsable(t) ==
    /\ tokens[t].status = "active" /\ t \notin lapsed
    /\ roles[tokens[t].user] # {}
    /\ epoch[tokens[t].user] = tokens[t].epoch

\* resolve_active_digest, without locks.
BeginAgent(c, t) ==
    /\ TokenUsable(t)
    /\ LET u == tokens[t].user
       IN  Begins(c, [kind |-> "agent", token |-> t, user |-> u, epoch |-> epoch[u],
                      roles |-> roles[u]])
    /\ UNCHANGED <<membership, operator, proofs, sessions, tokens, work, lapsed>>

\* Mutant: the agent's rights are only looked at when the call begins.
AgentAsAdmitted(c) == TRUE

\* The agent branch of lock_and_revalidate.
AgentFresh(c) == Fresh(c) /\ tokens[calls[c].token].status = "active" /\ calls[c].token \notin lapsed

\* The tool has done its work and the call commits.
CommitAgent(c) ==
    /\ Is(c, "agent")
    /\ AgentFresh(c)
    /\ LET t == calls[c].token
       IN  work[t] < MaxWork /\ work' = [work EXCEPT ![t] = @ + 1]
    /\ Ends(c)
    /\ UNCHANGED <<membership, operator, proofs, sessions, tokens, lapsed>>

-----------------------------------------------------------------------------
\* A request is refused, or its process dies: its transaction leaves nothing.
Refuse(c) ==
    /\ ~Is(c, "idle")
    /\ Ends(c)
    /\ UNCHANGED <<membership, operator, proofs, sessions, tokens, work, lapsed>>

Next ==
    \/ \E u \in Users : Activate(u) \/ \E k \in RecoveryKeys : Recover(k, u)
    \/ \E x \in States \union Invitations \union Sessions \union Tokens : Lapse(x)
    \/ \E s \in States : OpenState(s)
    \/ \E n \in Sessions : Logout(n)
    \/ \E c \in Calls :
        \/ \E s \in States, u \in Users :
            \/ BeginLogin(c, s, u)
            \/ \E i \in Invitations : BeginInvited(c, s, i, u)
        \/ FinishLogin(c) \/ FinishInvited(c) \/ CommitAgent(c) \/ Refuse(c)
        \/ \E n \in Sessions : BeginRequest(c, n)
        \/ \E i \in Invitations : IssueInvitation(c, i) \/ RevokeInvitation(c, i)
        \/ \E u \in Users, new \in SUBSET Roles : ChangeRoles(c, u, new)
        \/ \E t \in Tokens : GrantToken(c, t) \/ RevokeToken(c, t) \/ BeginAgent(c, t)

Spec == Init /\ [][Next]_vars

-----------------------------------------------------------------------------
\* A login state and an invitation admit their bearer once, however often they
\* are presented and however long the provider takes, and an invitation that was
\* revoked in time admits nobody (consume_once).
OneSessionPerProof ==
    \A m, n \in Sessions :
        Opened(m) /\ Opened(n) =>
            /\ sessions[m].state = sessions[n].state => m = n
            /\ sessions[m].invitation = sessions[n].invitation /\ sessions[m].invitation # NoOne => m = n
            /\ sessions[m].invitation # NoOne => invitations[sessions[m].invitation] = "consumed"

\* Whatever changes a member's roles, by command, by invitation or by the
\* operator, ends every session opened before: a session that is still admitted
\* has the rights its login gave it (current_session).
ChangedRightsEndSessions ==
    \A n \in Sessions : Usable(n) => sessions[n].roles = roles[sessions[n].user]

\* An agent commits nothing once its token is revoked or its owner is no longer
\* a reviewer, at whatever moment of its call that happens.
AgentsActWithinRights ==
    [][\A t \in Tokens : work'[t] # work[t] =>
        tokens[t].status = "active" /\ "reviewer" \in roles[tokens[t].user]]_vars
=============================================================================
