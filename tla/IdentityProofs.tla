---------------------------- MODULE IdentityProofs ----------------------------
(***************************************************************************)
(* Proofs about Identity for any number of users, proofs of identity,      *)
(* sessions, tokens and requests.                                          *)
(***************************************************************************)
EXTENDS Identity, TLAPS

SessionRow ==
    [status : {"active", "revoked"}, state : States, invitation : Invitations \union {NoOne},
     user : Users, epoch : Nat, roles : SUBSET Roles]
TokenRow == [status : {"active", "revoked"}, user : Users, epoch : Nat]

\* Only members have roles.
RolesOfMembers == \A u \in Users : roles[u] # {} => u \in members

\* A session has used up its proofs, and its rights are its member's or older.
SessionsOK ==
    \A n \in Sessions : Opened(n) =>
        /\ states[sessions[n].state] = "consumed"
        /\ sessions[n].invitation # NoOne => invitations[sessions[n].invitation] = "consumed"
        /\ sessions[n].user \in members
        /\ sessions[n].epoch <= epoch[sessions[n].user]
        /\ sessions[n].epoch = epoch[sessions[n].user]
            => sessions[n].roles = roles[sessions[n].user]

\* A token of the present epoch belongs to a reviewer.
TokensOK ==
    \A t \in Tokens : Given(t) =>
        /\ tokens[t].user \in members
        /\ tokens[t].epoch <= epoch[tokens[t].user]
        /\ tokens[t].epoch = epoch[tokens[t].user] => "reviewer" \in roles[tokens[t].user]

\* The call of an agent was admitted under the epoch of its token.
AgentsOK ==
    \A c \in Calls : Is(c, "agent") =>
        /\ Given(calls[c].token)
        /\ tokens[calls[c].token].user = calls[c].user
        /\ tokens[calls[c].token].epoch = calls[c].epoch

IInv ==
    /\ TypeOK
    /\ RolesOfMembers
    /\ SessionsOK
    /\ TokensOK
    /\ AgentsOK
    /\ OneSessionPerProof

-----------------------------------------------------------------------------
(* What a step does to rights and rows. *)

\* Rights only change together with the epoch, which never goes back.
RightsMoveOn ==
    /\ members \subseteq members'
    /\ \A u \in Users :
        /\ epoch[u] <= epoch'[u]
        /\ u \in members /\ epoch'[u] = epoch[u] => roles'[u] = roles[u]

SameRights == UNCHANGED membership

\* A session row only loses its status.
KeepsSession(n) ==
    /\ Opened(n)' <=> Opened(n)
    /\ Opened(n) => /\ sessions'[n].state = sessions[n].state
                    /\ sessions'[n].invitation = sessions[n].invitation
                    /\ sessions'[n].user = sessions[n].user
                    /\ sessions'[n].epoch = sessions[n].epoch
                    /\ sessions'[n].roles = sessions[n].roles

KeepsToken(t) ==
    /\ Given(t)' <=> Given(t)
    /\ Given(t) => tokens'[t].user = tokens[t].user /\ tokens'[t].epoch = tokens[t].epoch

\* What is used up stays used up.
ProofsStayUsed ==
    /\ \A s \in States : states[s] = "consumed" => states'[s] = "consumed"
    /\ \A i \in Invitations : invitations[i] = "consumed" => invitations'[i] = "consumed"

LEMMA SessionTyped ==
    ASSUME TypeOK, NEW n \in Sessions, Opened(n)
    PROVE  sessions[n] \in SessionRow
BY DEF TypeOK, Opened, NoSession, SessionRow

LEMMA TokenTyped ==
    ASSUME TypeOK, NEW t \in Tokens, Given(t)
    PROVE  tokens[t] \in TokenRow
BY DEF TypeOK, Given, NoToken, TokenRow

\* The step of a row that is only revoked.
LEMMA EndedSession ==
    ASSUME NEW u, NEW row \in SessionRow \union {NoSession}
    PROVE  /\ EndedFor(u, row) \in SessionRow \union {NoSession}
           /\ EndedFor(u, row).status = "none" <=> row.status = "none"
           /\ row.status # "none" =>
                /\ EndedFor(u, row).state = row.state
                /\ EndedFor(u, row).invitation = row.invitation
                /\ EndedFor(u, row).user = row.user
                /\ EndedFor(u, row).epoch = row.epoch
                /\ EndedFor(u, row).roles = row.roles
<1>1. CASE row.status = "active" /\ row.user = u
  <2>1. row \in SessionRow
    BY <1>1 DEF NoSession
  <2> QED
    BY <1>1, <2>1 DEF EndedFor, SessionRow
<1>2. CASE ~(row.status = "active" /\ row.user = u)
  BY <1>2 DEF EndedFor
<1> QED
  BY <1>1, <1>2

LEMMA EndedToken ==
    ASSUME NEW u, NEW row \in TokenRow \union {NoToken}
    PROVE  /\ EndedFor(u, row) \in TokenRow \union {NoToken}
           /\ EndedFor(u, row).status = "none" <=> row.status = "none"
           /\ row.status # "none" =>
                EndedFor(u, row).user = row.user /\ EndedFor(u, row).epoch = row.epoch
<1>1. CASE row.status = "active" /\ row.user = u
  <2>1. row \in TokenRow
    BY <1>1 DEF NoToken
  <2> QED
    BY <1>1, <2>1 DEF EndedFor, TokenRow
<1>2. CASE ~(row.status = "active" /\ row.user = u)
  BY <1>2 DEF EndedFor
<1> QED
  BY <1>1, <1>2

\* Giving a role moves the rights on.
LEMMA GrantMovesOn ==
    ASSUME TypeOK, RolesOfMembers, NEW u \in Users, NEW role \in Roles, Grant(u, role)
    PROVE  /\ members' \subseteq Users
           /\ roles' \in [Users -> SUBSET Roles]
           /\ epoch' \in [Users -> Nat]
           /\ RolesOfMembers'
           /\ RightsMoveOn
           /\ u \in members' /\ roles'[u] # {}
<1>1. /\ members' = members \union {u}
      /\ roles' = [roles EXCEPT ![u] = @ \union {role}]
      /\ epoch' = IF u \in members /\ role \notin roles[u]
                  THEN [epoch EXCEPT ![u] = @ + 1] ELSE epoch
  BY DEF Grant
<1>2. members \subseteq Users /\ roles \in [Users -> SUBSET Roles] /\ epoch \in [Users -> Nat]
  BY DEF TypeOK
<1>3. epoch' \in [Users -> Nat]
  BY <1>1, <1>2
<1>4. RightsMoveOn
  <2>1. ASSUME NEW v \in Users PROVE epoch[v] <= epoch'[v]
    BY <1>1, <1>2
  <2>2. ASSUME NEW v \in Users, v \in members, epoch'[v] = epoch[v] PROVE roles'[v] = roles[v]
    <3>1. CASE v = u
      <4>1. epoch'[u] # epoch[u] \/ role \in roles[u]
        BY <1>1, <1>2, <2>2, <3>1
      <4> QED
        BY <1>1, <1>2, <2>2, <3>1, <4>1
    <3>2. CASE v # u
      BY <1>1, <1>2, <3>2
    <3> QED
      BY <3>1, <3>2
  <2> QED
    BY <1>1, <2>1, <2>2 DEF RightsMoveOn
<1>5. RolesOfMembers'
  BY <1>1, <1>2 DEF RolesOfMembers
<1>6. u \in members' /\ roles'[u] # {}
  BY <1>1, <1>2
<1>7. members' \subseteq Users /\ roles' \in [Users -> SUBSET Roles]
  BY <1>1, <1>2
<1> QED
  BY <1>3, <1>4, <1>5, <1>6, <1>7

-----------------------------------------------------------------------------
(* Rows that are kept keep what is known of them. *)

LEMMA SessionsStay ==
    ASSUME TypeOK, SessionsOK, RightsMoveOn, ProofsStayUsed, epoch' \in [Users -> Nat],
           \A n \in Sessions : KeepsSession(n)
    PROVE  SessionsOK'
<1> SUFFICES ASSUME NEW n \in Sessions, Opened(n)'
    PROVE /\ states'[sessions'[n].state] = "consumed"
          /\ sessions'[n].invitation # NoOne => invitations'[sessions'[n].invitation] = "consumed"
          /\ sessions'[n].user \in members'
          /\ sessions'[n].epoch <= epoch'[sessions'[n].user]
          /\ sessions'[n].epoch = epoch'[sessions'[n].user]
                => sessions'[n].roles = roles'[sessions'[n].user]
  BY DEF SessionsOK
<1> DEFINE s == sessions[n].state
           i == sessions[n].invitation
           u == sessions[n].user
           e == sessions[n].epoch
<1>1. Opened(n) /\ sessions'[n].state = s /\ sessions'[n].invitation = i
      /\ sessions'[n].user = u /\ sessions'[n].epoch = e /\ sessions'[n].roles = sessions[n].roles
  BY DEF KeepsSession
<1>2. s \in States /\ i \in Invitations \union {NoOne} /\ u \in Users /\ e \in Nat
  BY <1>1, SessionTyped DEF SessionRow
<1>3. /\ states[s] = "consumed"
      /\ i # NoOne => invitations[i] = "consumed"
      /\ u \in members /\ e <= epoch[u]
      /\ e = epoch[u] => sessions[n].roles = roles[u]
  BY <1>1 DEF SessionsOK
<1>4. states'[s] = "consumed" /\ (i # NoOne => invitations'[i] = "consumed")
  BY <1>2, <1>3 DEF ProofsStayUsed
<1>5. u \in members' /\ epoch[u] <= epoch'[u] /\ (epoch'[u] = epoch[u] => roles'[u] = roles[u])
  BY <1>2, <1>3 DEF RightsMoveOn
<1>6. epoch[u] \in Nat /\ epoch'[u] \in Nat
  BY <1>2 DEF TypeOK
<1>7. e <= epoch'[u]
  BY <1>2, <1>3, <1>5, <1>6
<1>8. e = epoch'[u] => sessions[n].roles = roles'[u]
  <2> SUFFICES ASSUME e = epoch'[u] PROVE sessions[n].roles = roles'[u]
    OBVIOUS
  <2>1. epoch'[u] = epoch[u] /\ e = epoch[u]
    BY <1>2, <1>3, <1>5, <1>6
  <2> QED
    BY <2>1, <1>3, <1>5
<1> HIDE DEF s, i, u, e
<1> QED
  BY <1>1, <1>4, <1>5, <1>7, <1>8

LEMMA TokensStay ==
    ASSUME TypeOK, TokensOK, RightsMoveOn, epoch' \in [Users -> Nat],
           \A t \in Tokens : KeepsToken(t)
    PROVE  TokensOK'
<1> SUFFICES ASSUME NEW t \in Tokens, Given(t)'
    PROVE /\ tokens'[t].user \in members'
          /\ tokens'[t].epoch <= epoch'[tokens'[t].user]
          /\ tokens'[t].epoch = epoch'[tokens'[t].user] => "reviewer" \in roles'[tokens'[t].user]
  BY DEF TokensOK
<1> DEFINE u == tokens[t].user
           e == tokens[t].epoch
<1>1. Given(t) /\ tokens'[t].user = u /\ tokens'[t].epoch = e
  BY DEF KeepsToken
<1>2. u \in Users /\ e \in Nat
  BY <1>1, TokenTyped DEF TokenRow
<1>3. u \in members /\ e <= epoch[u] /\ (e = epoch[u] => "reviewer" \in roles[u])
  BY <1>1 DEF TokensOK
<1>4. u \in members' /\ epoch[u] <= epoch'[u] /\ (epoch'[u] = epoch[u] => roles'[u] = roles[u])
  BY <1>2, <1>3 DEF RightsMoveOn
<1>5. epoch[u] \in Nat /\ epoch'[u] \in Nat
  BY <1>2 DEF TypeOK
<1>6. e <= epoch'[u]
  BY <1>2, <1>3, <1>4, <1>5
<1>7. e = epoch'[u] => "reviewer" \in roles'[u]
  <2> SUFFICES ASSUME e = epoch'[u] PROVE "reviewer" \in roles'[u]
    OBVIOUS
  <2>1. epoch'[u] = epoch[u] /\ e = epoch[u]
    BY <1>2, <1>3, <1>4, <1>5
  <2> QED
    BY <2>1, <1>3, <1>4
<1> HIDE DEF u, e
<1> QED
  BY <1>1, <1>4, <1>6, <1>7

LEMMA AgentsStay ==
    ASSUME AgentsOK, TypeOK, \A t \in Tokens : Given(t) => Given(t)' /\ KeepsToken(t),
           \A c \in Calls : Is(c, "agent")' => calls'[c] = calls[c]
    PROVE  AgentsOK'
<1> SUFFICES ASSUME NEW c \in Calls, Is(c, "agent")'
    PROVE /\ tokens'[calls'[c].token].status # "none"
          /\ tokens'[calls'[c].token].user = calls'[c].user
          /\ tokens'[calls'[c].token].epoch = calls'[c].epoch
  BY DEF AgentsOK, Given
<1>1. calls'[c] = calls[c] /\ Is(c, "agent")
  BY DEF Is
<1>2. calls[c].token \in Tokens
  BY <1>1 DEF TypeOK, Is, Idle
<1>3. Given(calls[c].token) /\ tokens[calls[c].token].user = calls[c].user
      /\ tokens[calls[c].token].epoch = calls[c].epoch
  BY <1>1 DEF AgentsOK
<1> QED
  BY <1>1, <1>2, <1>3 DEF KeepsToken, Given

LEMMA OneSessionStays ==
    ASSUME OneSessionPerProof, SessionsOK', \A n \in Sessions : KeepsSession(n)
    PROVE  OneSessionPerProof'
<1> SUFFICES ASSUME NEW m \in Sessions, NEW n \in Sessions, Opened(m)', Opened(n)'
    PROVE /\ sessions'[m].state = sessions'[n].state => m = n
          /\ sessions'[m].invitation = sessions'[n].invitation /\ sessions'[m].invitation # NoOne => m = n
          /\ sessions'[m].invitation # NoOne => invitations'[sessions'[m].invitation] = "consumed"
  BY DEF OneSessionPerProof
<1>1. Opened(m) /\ Opened(n)
      /\ sessions'[m].state = sessions[m].state /\ sessions'[n].state = sessions[n].state
      /\ sessions'[m].invitation = sessions[m].invitation
      /\ sessions'[n].invitation = sessions[n].invitation
  BY DEF KeepsSession
<1>2. sessions'[m].invitation # NoOne => invitations'[sessions'[m].invitation] = "consumed"
  BY DEF SessionsOK
<1> QED
  BY <1>1, <1>2 DEF OneSessionPerProof

\* A step that leaves sessions and tokens alone.
LEMMA RowsUntouched ==
    ASSUME UNCHANGED <<sessions, tokens>>
    PROVE  (\A n \in Sessions : KeepsSession(n)) /\ (\A t \in Tokens : KeepsToken(t))
BY DEF KeepsSession, KeepsToken, Opened, Given

\* A step that leaves the rights alone.
LEMMA RightsUntouched ==
    ASSUME TypeOK, RolesOfMembers, UNCHANGED membership
    PROVE  RightsMoveOn /\ RolesOfMembers' /\ epoch' \in [Users -> Nat]
BY DEF RightsMoveOn, RolesOfMembers, membership, TypeOK

LEMMA InitIInv == Init => IInv
<1> SUFFICES ASSUME Init PROVE IInv
  OBVIOUS
<1>1. TypeOK
  BY DEF Init, TypeOK
<1>2. RolesOfMembers /\ SessionsOK /\ TokensOK /\ AgentsOK /\ OneSessionPerProof
  BY DEF Init, RolesOfMembers, SessionsOK, TokensOK, AgentsOK, OneSessionPerProof, Opened, Given,
         Is, NoSession, NoToken, Idle
<1> QED
  BY <1>1, <1>2 DEF IInv

-----------------------------------------------------------------------------
(* Type correctness, action by action. *)

LEMMA CallEnds ==
    ASSUME TypeOK, NEW c \in Calls, Ends(c)
    PROVE  /\ calls' \in [Calls -> {Idle}
                \union [kind : {"login"}, state : States, user : Users]
                \union [kind : {"invited"}, state : States, invitation : Invitations, user : Users]
                \union [kind : {"member"}, user : Users, epoch : Nat, roles : SUBSET Roles]
                \union [kind : {"agent"}, token : Tokens, user : Users, epoch : Nat, roles : SUBSET Roles]]
           /\ \A d \in Calls : Is(d, "agent")' => calls'[d] = calls[d]
<1>1. calls' = [calls EXCEPT ![c] = Idle]
  BY DEF Ends
<1>2. \A d \in Calls : calls'[d] = (IF d = c THEN Idle ELSE calls[d])
  BY <1>1 DEF TypeOK
<1>3. \A d \in Calls : Is(d, "agent")' => calls'[d] = calls[d]
  BY <1>2 DEF Is, Idle
<1> QED
  BY <1>1, <1>3 DEF TypeOK

LEMMA CallTyped ==
    ASSUME TypeOK, NEW c \in Calls
    PROVE  /\ Is(c, "login") \/ Is(c, "invited") => calls[c].state \in States /\ calls[c].user \in Users
           /\ Is(c, "invited") => calls[c].invitation \in Invitations
           /\ Is(c, "member") \/ Is(c, "agent") =>
                calls[c].user \in Users /\ calls[c].epoch \in Nat /\ calls[c].roles \in SUBSET Roles
           /\ Is(c, "agent") => calls[c].token \in Tokens
BY DEF TypeOK, Is, Idle

LEMMA OperatorTyped ==
    ASSUME TypeOK, RolesOfMembers, NEW u \in Users,
           Activate(u) \/ \E k \in RecoveryKeys : Recover(k, u)
    PROVE  TypeOK'
<1>1. Grant(u, "methodologist") /\ "methodologist" \in Roles
  BY DEF Activate, Recover, Roles
<1>2. members' \subseteq Users /\ roles' \in [Users -> SUBSET Roles] /\ epoch' \in [Users -> Nat]
  BY <1>1, GrantMovesOn
<1>3. UNCHANGED <<proofs, sessions, tokens, work, calls, lapsed>>
  BY DEF Activate, Recover
<1>4. organization' \in Nat /\ recovered' \in [RecoveryKeys -> Users \union {NoOne}]
  BY DEF Activate, Recover, TypeOK
<1> QED
  BY <1>2, <1>3, <1>4 DEF TypeOK, proofs

LEMMA BeginTyped ==
    ASSUME TypeOK, TokensOK, NEW c \in Calls,
           \/ \E s \in States, u \in Users : BeginLogin(c, s, u)
           \/ \E s \in States, i \in Invitations, u \in Users : BeginInvited(c, s, i, u)
           \/ \E n \in Sessions : BeginRequest(c, n)
           \/ \E t \in Tokens : BeginAgent(c, t)
    PROVE  TypeOK'
<1>1. CASE \E s \in States, u \in Users : BeginLogin(c, s, u)
  BY <1>1 DEF BeginLogin, Begins, TypeOK, membership, operator, proofs
<1>2. CASE \E s \in States, i \in Invitations, u \in Users : BeginInvited(c, s, i, u)
  BY <1>2 DEF BeginInvited, Begins, TypeOK, membership, operator, proofs
<1>3. ASSUME NEW n \in Sessions, BeginRequest(c, n) PROVE TypeOK'
  <2>1. Opened(n)
    BY <1>3 DEF BeginRequest, Usable, Opened
  <2>2. sessions[n].user \in Users
    BY <2>1, SessionTyped DEF SessionRow
  <2>3. epoch[sessions[n].user] \in Nat /\ roles[sessions[n].user] \in SUBSET Roles
    BY <2>2 DEF TypeOK
  <2> QED
    BY <1>3, <2>2, <2>3 DEF BeginRequest, Begins, TypeOK, membership, operator, proofs
<1>4. ASSUME NEW t \in Tokens, BeginAgent(c, t) PROVE TypeOK'
  <2>1. Given(t)
    BY <1>4 DEF BeginAgent, TokenUsable, Given
  <2>2. tokens[t].user \in Users
    BY <2>1, TokenTyped DEF TokenRow
  <2>3. epoch[tokens[t].user] \in Nat /\ roles[tokens[t].user] \in SUBSET Roles
    BY <2>2 DEF TypeOK
  <2> QED
    BY <1>4, <2>2, <2>3 DEF BeginAgent, Begins, TypeOK, membership, operator, proofs
<1> QED
  BY <1>1, <1>2, <1>3, <1>4

\* The new session of a login is well typed, whichever row it takes.
LEMMA SessionOpens ==
    ASSUME TypeOK, NEW s \in States, NEW i \in Invitations \union {NoOne}, NEW u \in Users,
           roles' \in [Users -> SUBSET Roles], epoch' \in [Users -> Nat], OpenSession(s, i, u)
    PROVE  /\ sessions' \in [Sessions -> {NoSession} \union SessionRow]
           /\ \E n \in Sessions :
                /\ ~Opened(n) /\ Opened(n)'
                /\ sessions'[n].state = s /\ sessions'[n].invitation = i
                /\ sessions'[n].user = u /\ sessions'[n].epoch = epoch'[u]
                /\ sessions'[n].roles = roles'[u]
                /\ \A m \in Sessions \ {n} : KeepsSession(m)
<1>1. PICK n \in Sessions :
        /\ ~Opened(n)
        /\ sessions' = [sessions EXCEPT ![n] =
                [status |-> "active", state |-> s, invitation |-> i, user |-> u,
                 epoch |-> epoch'[u], roles |-> roles'[u]]]
  BY DEF OpenSession
<1>2. sessions \in [Sessions -> {NoSession} \union SessionRow]
  BY DEF TypeOK, SessionRow
<1>3. [status |-> "active", state |-> s, invitation |-> i, user |-> u,
       epoch |-> epoch'[u], roles |-> roles'[u]] \in SessionRow
  BY DEF SessionRow
<1>4. \A m \in Sessions \ {n} : sessions'[m] = sessions[m]
  BY <1>1, <1>2
<1>5. \A m \in Sessions \ {n} : KeepsSession(m)
  BY <1>4 DEF KeepsSession, Opened
<1>6. sessions'[n] = [status |-> "active", state |-> s, invitation |-> i, user |-> u,
                      epoch |-> epoch'[u], roles |-> roles'[u]]
  BY <1>1, <1>2
<1>7. Opened(n)' /\ sessions'[n].state = s /\ sessions'[n].invitation = i
      /\ sessions'[n].user = u /\ sessions'[n].epoch = epoch'[u] /\ sessions'[n].roles = roles'[u]
  BY <1>6 DEF Opened
<1>8. sessions' \in [Sessions -> {NoSession} \union SessionRow]
  BY <1>1, <1>2, <1>3
<1> QED
  BY <1>1, <1>5, <1>7, <1>8

LEMMA FinishTyped ==
    ASSUME TypeOK, RolesOfMembers, NEW c \in Calls, FinishLogin(c) \/ FinishInvited(c)
    PROVE  TypeOK'
<1>1. Ends(c) /\ UNCHANGED <<operator, tokens, work, lapsed>>
  BY DEF FinishLogin, FinishInvited
<1>2. CASE FinishLogin(c)
  <2>1. calls[c].state \in States /\ calls[c].user \in Users
    BY <1>2, CallTyped DEF FinishLogin
  <2>2. UNCHANGED <<membership, invitations>> /\ OpenSession(calls[c].state, NoOne, calls[c].user)
        /\ Consume(calls[c].state)
    BY <1>2 DEF FinishLogin
  <2>3. roles' \in [Users -> SUBSET Roles] /\ epoch' \in [Users -> Nat]
    BY <2>2 DEF TypeOK, membership
  <2>4. sessions' \in [Sessions -> {NoSession} \union SessionRow]
    BY <2>1, <2>2, <2>3, SessionOpens
  <2> QED
    BY <1>1, <2>2, <2>4, CallEnds DEF TypeOK, SessionRow, Consume, membership, operator
<1>3. CASE FinishInvited(c)
  <2> DEFINE i == calls[c].invitation
  <2>1. calls[c].state \in States /\ calls[c].user \in Users /\ i \in Invitations
    BY <1>3, CallTyped DEF FinishInvited
  <2>2. /\ Grant(calls[c].user, RoleOf[i])
        /\ OpenSession(calls[c].state, i, calls[c].user)
        /\ Consume(calls[c].state)
        /\ invitations' = [invitations EXCEPT ![i] = "consumed"]
    BY <1>3 DEF FinishInvited
  <2>3. RoleOf[i] \in Roles
    BY <2>1, IdentityAssumption
  <2>4. members' \subseteq Users /\ roles' \in [Users -> SUBSET Roles] /\ epoch' \in [Users -> Nat]
    BY <2>1, <2>2, <2>3, GrantMovesOn
  <2>5. sessions' \in [Sessions -> {NoSession} \union SessionRow]
    BY <2>1, <2>2, <2>4, SessionOpens
  <2> QED
    BY <1>1, <2>1, <2>2, <2>4, <2>5, CallEnds DEF TypeOK, SessionRow, Consume, operator
<1> QED
  BY <1>2, <1>3

LEMMA ChangeTyped ==
    ASSUME TypeOK, NEW c \in Calls, NEW u \in Users, NEW new \in SUBSET Roles, ChangeRoles(c, u, new)
    PROVE  /\ TypeOK'
           /\ \A n \in Sessions : KeepsSession(n)
           /\ \A t \in Tokens : KeepsToken(t)
<1>1. /\ Ends(c)
      /\ roles' = [roles EXCEPT ![u] = new]
      /\ epoch' = [epoch EXCEPT ![u] = @ + 1]
      /\ sessions' = [n \in Sessions |-> EndedFor(u, sessions[n])]
      /\ tokens' = [t \in Tokens |-> EndedFor(u, tokens[t])]
      /\ UNCHANGED <<members, operator, proofs, work, lapsed>>
  BY DEF ChangeRoles, Acts
<1>2. \A n \in Sessions : sessions[n] \in SessionRow \union {NoSession}
  BY DEF TypeOK, SessionRow
<1>3. \A t \in Tokens : tokens[t] \in TokenRow \union {NoToken}
  BY DEF TypeOK, TokenRow
<1>4. sessions' \in [Sessions -> {NoSession} \union SessionRow]
  BY <1>1, <1>2, EndedSession
<1>5. tokens' \in [Tokens -> {NoToken} \union TokenRow]
  BY <1>1, <1>3, EndedToken
<1>6. roles' \in [Users -> SUBSET Roles] /\ epoch' \in [Users -> Nat]
  BY <1>1 DEF TypeOK
<1>7. TypeOK'
  BY <1>1, <1>4, <1>5, <1>6, CallEnds DEF TypeOK, SessionRow, TokenRow, operator, proofs
<1>8. ASSUME NEW n \in Sessions PROVE KeepsSession(n)
  <2>1. sessions'[n] = EndedFor(u, sessions[n])
    BY <1>1
  <2> QED
    BY <1>2, <2>1, EndedSession DEF KeepsSession, Opened
<1>9. ASSUME NEW t \in Tokens PROVE KeepsToken(t)
  <2>1. tokens'[t] = EndedFor(u, tokens[t])
    BY <1>1
  <2> QED
    BY <1>3, <2>1, EndedToken DEF KeepsToken, Given
<1> QED
  BY <1>7, <1>8, <1>9

LEMMA LogoutTyped ==
    ASSUME TypeOK, NEW n \in Sessions, Logout(n)
    PROVE  TypeOK' /\ \A m \in Sessions : KeepsSession(m)
<1>1. sessions[n] \in SessionRow
  BY SessionTyped DEF Logout, Opened
<1>2. [sessions[n] EXCEPT !.status = "revoked"] \in SessionRow
  BY <1>1 DEF SessionRow
<1>3. sessions' = [sessions EXCEPT ![n] = [sessions[n] EXCEPT !.status = "revoked"]]
  BY DEF Logout, TypeOK
<1>4. sessions' \in [Sessions -> {NoSession} \union SessionRow]
  BY <1>2, <1>3 DEF TypeOK, SessionRow
<1>5. TypeOK'
  BY <1>4 DEF Logout, TypeOK, SessionRow, membership, operator, proofs
<1>6. \A m \in Sessions : KeepsSession(m)
  BY <1>1, <1>3 DEF KeepsSession, Opened, SessionRow, TypeOK
<1> QED
  BY <1>5, <1>6

LEMMA RevokeTokenTyped ==
    ASSUME TypeOK, NEW c \in Calls, NEW t \in Tokens, RevokeToken(c, t)
    PROVE  TypeOK' /\ \A k \in Tokens : KeepsToken(k)
<1>1. Ends(c)
  BY DEF RevokeToken, Acts
<1>2. tokens[t] \in TokenRow
  BY TokenTyped DEF RevokeToken, Given
<1>3. [tokens[t] EXCEPT !.status = "revoked"] \in TokenRow
  BY <1>2 DEF TokenRow
<1>4. tokens' = [tokens EXCEPT ![t] = [tokens[t] EXCEPT !.status = "revoked"]]
  BY DEF RevokeToken, TypeOK
<1>5. tokens' \in [Tokens -> {NoToken} \union TokenRow]
  BY <1>3, <1>4 DEF TypeOK, TokenRow
<1>6. TypeOK'
  BY <1>1, <1>5, CallEnds DEF RevokeToken, TypeOK, TokenRow, membership, operator, proofs
<1>7. \A k \in Tokens : KeepsToken(k)
  BY <1>2, <1>4 DEF KeepsToken, Given, TokenRow, TypeOK
<1> QED
  BY <1>6, <1>7

LEMMA GrantTokenTyped ==
    ASSUME TypeOK, NEW c \in Calls, NEW t \in Tokens, GrantToken(c, t)
    PROVE  TypeOK'
<1>1. Ends(c) /\ Is(c, "member")
  BY DEF GrantToken, Acts
<1>2. calls[c].user \in Users /\ calls[c].epoch \in Nat
  BY <1>1, CallTyped
<1>3. [status |-> "active", user |-> calls[c].user, epoch |-> calls[c].epoch] \in TokenRow
  BY <1>2 DEF TokenRow
<1>4. tokens' \in [Tokens -> {NoToken} \union TokenRow]
  BY <1>3 DEF GrantToken, TypeOK, TokenRow
<1> QED
  BY <1>1, <1>4, CallEnds DEF GrantToken, TypeOK, TokenRow, membership, operator, proofs

-----------------------------------------------------------------------------
(* The inductive invariant, action by action. *)

\* What most steps keep for a common reason.
LEMMA Kept ==
    ASSUME IInv, TypeOK', RightsMoveOn, RolesOfMembers', ProofsStayUsed,
           \A n \in Sessions : KeepsSession(n), \A t \in Tokens : KeepsToken(t),
           \A c \in Calls : Is(c, "agent")' => calls'[c] = calls[c]
    PROVE  IInv'
<1>1. epoch' \in [Users -> Nat]
  BY DEF TypeOK
<1>2. SessionsOK'
  BY <1>1, SessionsStay DEF IInv
<1>3. TokensOK'
  BY <1>1, TokensStay DEF IInv
<1>4. AgentsOK'
  BY AgentsStay DEF IInv, KeepsToken
<1>5. OneSessionPerProof'
  BY <1>2, OneSessionStays DEF IInv
<1> QED
  BY <1>2, <1>3, <1>4, <1>5 DEF IInv

LEMMA OperatorKeeps ==
    ASSUME IInv, NEW u \in Users, Activate(u) \/ \E k \in RecoveryKeys : Recover(k, u)
    PROVE  IInv'
<1>1. TypeOK'
  BY OperatorTyped DEF IInv
<1>2. Grant(u, "methodologist") /\ "methodologist" \in Roles
  BY DEF Activate, Recover, Roles
<1>3. RightsMoveOn /\ RolesOfMembers'
  BY <1>2, GrantMovesOn DEF IInv
<1>4. UNCHANGED <<proofs, sessions, tokens, calls>>
  BY DEF Activate, Recover
<1>5. ProofsStayUsed
  BY <1>4 DEF ProofsStayUsed, proofs
<1>6. (\A n \in Sessions : KeepsSession(n)) /\ (\A t \in Tokens : KeepsToken(t))
  BY <1>4, RowsUntouched
<1> QED
  BY <1>1, <1>3, <1>4, <1>5, <1>6, Kept

\* Steps that change proofs only, or nothing but the calls.
LEMMA ProofStepKeeps ==
    ASSUME IInv,
           \/ \E s \in States : OpenState(s)
           \/ \E x \in States \union Invitations \union Sessions \union Tokens : Lapse(x)
           \/ \E c \in Calls :
                \/ \E i \in Invitations : IssueInvitation(c, i) \/ RevokeInvitation(c, i)
                \/ CommitAgent(c) \/ Refuse(c)
    PROVE  IInv'
<1>1. UNCHANGED membership /\ UNCHANGED <<sessions, tokens>>
  BY DEF OpenState, Lapse, IssueInvitation, RevokeInvitation, CommitAgent, Refuse
<1>2. TypeOK /\ RolesOfMembers
  BY DEF IInv
<1>3. RightsMoveOn /\ RolesOfMembers'
  BY <1>1, <1>2, RightsUntouched
<1>4. (\A n \in Sessions : KeepsSession(n)) /\ (\A t \in Tokens : KeepsToken(t))
  BY <1>1, RowsUntouched
<1>5. /\ TypeOK' /\ ProofsStayUsed
      /\ UNCHANGED calls \/ \E c \in Calls : Ends(c)
  <2>1. ASSUME NEW s \in States, OpenState(s) PROVE <1>5!1 /\ <1>5!2
    BY <2>1, <1>2 DEF OpenState, TypeOK, ProofsStayUsed, membership, operator
  <2>2. ASSUME NEW x \in States \union Invitations \union Sessions \union Tokens, Lapse(x)
        PROVE <1>5!1 /\ <1>5!2
    BY <2>2, <1>2 DEF Lapse, TypeOK, ProofsStayUsed, membership, operator, proofs
  <2>3. ASSUME NEW c \in Calls, NEW i \in Invitations, IssueInvitation(c, i) \/ RevokeInvitation(c, i)
        PROVE <1>5!1 /\ <1>5!2
    <3>1. Ends(c) /\ UNCHANGED <<membership, operator, states, sessions, tokens, work, lapsed>>
      BY <2>3 DEF IssueInvitation, RevokeInvitation, Acts
    <3>2. /\ invitations' \in [Invitations -> {"none", "active", "consumed", "revoked"}]
          /\ \A k \in Invitations : invitations[k] = "consumed" => invitations'[k] = "consumed"
      BY <2>3, <1>2 DEF IssueInvitation, RevokeInvitation, TypeOK
    <3> QED
      BY <3>1, <3>2, <1>2, CallEnds DEF TypeOK, ProofsStayUsed, membership, operator
  <2>4. ASSUME NEW c \in Calls, CommitAgent(c) PROVE <1>5!1 /\ <1>5!2
    <3>1. Ends(c) /\ calls[c].token \in Tokens
      BY <2>4, <1>2, CallTyped DEF CommitAgent
    <3>2. work' \in [Tokens -> Nat]
      BY <2>4, <3>1, <1>2 DEF CommitAgent, TypeOK
    <3> QED
      BY <2>4, <3>1, <3>2, <1>2, CallEnds DEF CommitAgent, TypeOK, ProofsStayUsed, membership, operator,
         proofs
  <2>5. ASSUME NEW c \in Calls, Refuse(c) PROVE <1>5!1 /\ <1>5!2
    BY <2>5, <1>2, CallEnds DEF Refuse, TypeOK, ProofsStayUsed, membership, operator, proofs
  <2> QED
    BY <2>1, <2>2, <2>3, <2>4, <2>5
<1>6. \A d \in Calls : Is(d, "agent")' => calls'[d] = calls[d]
  BY <1>2, <1>5, CallEnds
<1> QED
  BY <1>3, <1>4, <1>5, <1>6, Kept

\* A new call: only that of an agent has something to show.
LEMMA BeginKeeps ==
    ASSUME IInv, NEW c \in Calls,
           \/ \E s \in States, u \in Users : BeginLogin(c, s, u)
           \/ \E s \in States, i \in Invitations, u \in Users : BeginInvited(c, s, i, u)
           \/ \E n \in Sessions : BeginRequest(c, n)
           \/ \E t \in Tokens : BeginAgent(c, t)
    PROVE  IInv'
<1>1. UNCHANGED membership /\ UNCHANGED <<sessions, tokens>> /\ UNCHANGED proofs
  BY DEF BeginLogin, BeginInvited, BeginRequest, BeginAgent
<1>2. TypeOK /\ RolesOfMembers /\ TokensOK /\ SessionsOK /\ AgentsOK /\ OneSessionPerProof
  BY DEF IInv
<1>3. TypeOK'
  BY <1>2, BeginTyped
<1>4. RightsMoveOn /\ RolesOfMembers'
  BY <1>1, <1>2, RightsUntouched
<1>5. RolesOfMembers' /\ SessionsOK' /\ TokensOK' /\ OneSessionPerProof'
  BY <1>1, <1>2, <1>4 DEF SessionsOK, TokensOK, OneSessionPerProof, Opened, Given, membership, proofs
<1>6. AgentsOK'
  <2>1. CASE ~\E t \in Tokens : BeginAgent(c, t)
    <3>1. PICK request : calls' = [calls EXCEPT ![c] = request] /\ request.kind # "agent"
      <4>1. CASE \E s \in States, u \in Users : BeginLogin(c, s, u)
        <5>1. PICK s \in States, u \in Users : BeginLogin(c, s, u)
          BY <4>1
        <5>2. [kind |-> "login", state |-> s, user |-> u].kind # "agent"
          OBVIOUS
        <5> QED
          BY <5>1, <5>2 DEF BeginLogin, Begins
      <4>2. CASE \E s \in States, i \in Invitations, u \in Users : BeginInvited(c, s, i, u)
        <5>1. PICK s \in States, i \in Invitations, u \in Users : BeginInvited(c, s, i, u)
          BY <4>2
        <5>2. [kind |-> "invited", state |-> s, invitation |-> i, user |-> u].kind # "agent"
          OBVIOUS
        <5> QED
          BY <5>1, <5>2 DEF BeginInvited, Begins
      <4>3. CASE \E n \in Sessions : BeginRequest(c, n)
        <5>1. PICK n \in Sessions : BeginRequest(c, n)
          BY <4>3
        <5> DEFINE v == sessions[n].user
        <5>2. [kind |-> "member", user |-> v, epoch |-> epoch[v], roles |-> roles[v]].kind # "agent"
          OBVIOUS
        <5> QED
          BY <5>1, <5>2 DEF BeginRequest, Begins
      <4> QED
        BY <2>1, <4>1, <4>2, <4>3
    <3>2. \A d \in Calls : calls'[d] = (IF d = c THEN request ELSE calls[d])
      BY <3>1, <1>2 DEF TypeOK
    <3>3. \A d \in Calls : Is(d, "agent")' => calls'[d] = calls[d]
      BY <3>1, <3>2 DEF Is
    <3> QED
      BY <1>1, <1>2, <3>3, AgentsStay DEF KeepsToken, Given
  <2>2. ASSUME NEW t \in Tokens, BeginAgent(c, t) PROVE AgentsOK'
    <3> DEFINE u == tokens[t].user
               request == [kind |-> "agent", token |-> t, user |-> u, epoch |-> epoch[u],
                           roles |-> roles[u]]
    <3>1. calls' = [calls EXCEPT ![c] = request] /\ Given(t) /\ tokens[t].epoch = epoch[u]
      BY <2>2 DEF BeginAgent, Begins, TokenUsable, Given
    <3>2. \A d \in Calls : calls'[d] = (IF d = c THEN request ELSE calls[d])
      BY <3>1, <1>2 DEF TypeOK
    <3>3. ASSUME NEW d \in Calls, Is(d, "agent")'
          PROVE /\ Given(calls'[d].token)
                /\ tokens[calls'[d].token].user = calls'[d].user
                /\ tokens[calls'[d].token].epoch = calls'[d].epoch
      <4>1. CASE d = c
        BY <4>1, <3>1, <3>2
      <4>2. CASE d # c
        BY <4>2, <3>2, <3>3, <1>2 DEF AgentsOK, Is
      <4> QED
        BY <4>1, <4>2
    <3> QED
      BY <3>3, <1>1 DEF AgentsOK, Given, Is
  <2> QED
    BY <2>1, <2>2
<1> QED
  BY <1>3, <1>5, <1>6 DEF IInv

\* A new session has used up a state and an invitation nobody else has.
LEMMA FinishKeeps ==
    ASSUME IInv, NEW c \in Calls, FinishLogin(c) \/ FinishInvited(c)
    PROVE  IInv'
<1> DEFINE s == calls[c].state
           i == IF Is(c, "login") THEN NoOne ELSE calls[c].invitation
           u == calls[c].user
<1>1. TypeOK /\ RolesOfMembers /\ SessionsOK /\ TokensOK /\ AgentsOK /\ OneSessionPerProof
  BY DEF IInv
<1>2. TypeOK'
  BY <1>1, FinishTyped
<1>3. s \in States /\ u \in Users /\ i \in Invitations \union {NoOne}
  BY <1>1, CallTyped DEF FinishLogin, FinishInvited, Is
<1>4. /\ OpenSession(s, i, u) /\ Consume(s) /\ ProofsHold(c) /\ Ends(c) /\ UNCHANGED tokens
      /\ FinishLogin(c) => UNCHANGED <<membership, invitations>> /\ i = NoOne /\ u \in members
      /\ FinishInvited(c) =>
            /\ i = calls[c].invitation /\ i \in Invitations /\ Grant(u, RoleOf[i])
            /\ invitations' = [invitations EXCEPT ![i] = "consumed"]
  BY <1>1, CallTyped DEF FinishLogin, FinishInvited, Is
<1>5. RightsMoveOn /\ RolesOfMembers' /\ u \in members'
  <2>1. CASE FinishLogin(c)
    BY <2>1, <1>1, <1>4, RightsUntouched DEF membership
  <2>2. CASE FinishInvited(c)
    <3>1. RoleOf[i] \in Roles
      BY <1>4, <2>2, IdentityAssumption
    <3> QED
      BY <3>1, <2>2, <1>1, <1>3, <1>4, GrantMovesOn
  <2> QED
    BY <2>1, <2>2
<1>6. states[s] = "open" /\ (i # NoOne => invitations[i] = "active")
  BY <1>4 DEF ProofsHold, StateOpen, InvitationValid, FinishLogin, FinishInvited, Is
<1>7. states' = [states EXCEPT ![s] = "consumed"]
  BY <1>4 DEF Consume
<1>8. ProofsStayUsed /\ states'[s] = "consumed" /\ (i # NoOne => invitations'[i] = "consumed")
  BY <1>1, <1>3, <1>4, <1>7 DEF ProofsStayUsed, TypeOK
<1>9. roles' \in [Users -> SUBSET Roles] /\ epoch' \in [Users -> Nat]
  BY <1>2 DEF TypeOK
<1> HIDE DEF s, i, u
<1>10. PICK n \in Sessions :
        /\ ~Opened(n) /\ Opened(n)'
        /\ sessions'[n].state = s /\ sessions'[n].invitation = i
        /\ sessions'[n].user = u /\ sessions'[n].epoch = epoch'[u]
        /\ sessions'[n].roles = roles'[u]
        /\ \A m \in Sessions \ {n} : KeepsSession(m)
  BY <1>1, <1>3, <1>4, <1>9, SessionOpens
<1>11. \A t \in Tokens : KeepsToken(t)
  BY <1>4 DEF KeepsToken, Given
<1>12. TokensOK' /\ AgentsOK'
  <2>1. \A d \in Calls : Is(d, "agent")' => calls'[d] = calls[d]
    BY <1>1, <1>4, CallEnds
  <2> QED
    BY <2>1, <1>1, <1>5, <1>9, <1>11, TokensStay, AgentsStay DEF KeepsToken
<1>13. ASSUME NEW m \in Sessions \ {n}, Opened(m)'
       PROVE /\ Opened(m)
             /\ sessions'[m].state = sessions[m].state /\ sessions[m].state \in States
             /\ sessions'[m].invitation = sessions[m].invitation
             /\ states[sessions[m].state] = "consumed"
             /\ sessions[m].invitation # NoOne =>
                    sessions[m].invitation \in Invitations
                    /\ invitations[sessions[m].invitation] = "consumed"
  <2>1. KeepsSession(m)
    BY <1>10
  <2>2. Opened(m) /\ sessions'[m].state = sessions[m].state
        /\ sessions'[m].invitation = sessions[m].invitation
    BY <2>1, <1>13 DEF KeepsSession
  <2>3. sessions[m] \in SessionRow
    BY <1>1, <2>2, SessionTyped
  <2> QED
    BY <1>1, <2>2, <2>3 DEF SessionsOK, SessionRow
<1>14. SessionsOK'
  <2>1. ASSUME NEW m \in Sessions, Opened(m)'
        PROVE /\ states'[sessions'[m].state] = "consumed"
              /\ sessions'[m].invitation # NoOne => invitations'[sessions'[m].invitation] = "consumed"
              /\ sessions'[m].user \in members'
              /\ sessions'[m].epoch <= epoch'[sessions'[m].user]
              /\ sessions'[m].epoch = epoch'[sessions'[m].user]
                    => sessions'[m].roles = roles'[sessions'[m].user]
    <3>1. CASE m = n
      <4>1. epoch'[u] \in Nat
        BY <1>3, <1>9
      <4> QED
        BY <3>1, <4>1, <1>5, <1>8, <1>10
    <3>2. CASE m # n
      <4>1. KeepsSession(m)
        BY <3>2, <1>10
      <4> DEFINE v == sessions[m].user
                 e == sessions[m].epoch
      <4>2. /\ sessions'[m].user = v /\ sessions'[m].epoch = e /\ Opened(m)
            /\ sessions'[m].roles = sessions[m].roles
        BY <4>1, <2>1 DEF KeepsSession
      <4>3. v \in Users /\ e \in Nat
        BY <4>2, <1>1, SessionTyped DEF SessionRow
      <4>4. v \in members /\ e <= epoch[v] /\ (e = epoch[v] => sessions[m].roles = roles[v])
        BY <4>2, <1>1 DEF SessionsOK
      <4>5. v \in members' /\ epoch[v] <= epoch'[v] /\ (epoch'[v] = epoch[v] => roles'[v] = roles[v])
        BY <4>3, <4>4, <1>5 DEF RightsMoveOn
      <4>6. epoch[v] \in Nat /\ epoch'[v] \in Nat
        BY <4>3, <1>1, <1>9 DEF TypeOK
      <4>7. e <= epoch'[v] /\ (e = epoch'[v] => e = epoch[v] /\ epoch'[v] = epoch[v])
        BY <4>3, <4>4, <4>5, <4>6
      <4>8. e = epoch'[v] => sessions[m].roles = roles'[v]
        BY <4>4, <4>5, <4>7
      <4>9. states'[sessions'[m].state] = "consumed"
            /\ (sessions'[m].invitation # NoOne => invitations'[sessions'[m].invitation] = "consumed")
        BY <1>8, <1>13, <2>1, <3>2 DEF ProofsStayUsed
      <4> HIDE DEF v, e
      <4> QED
        BY <4>2, <4>5, <4>7, <4>8, <4>9
    <3> QED
      BY <3>1, <3>2
  <2> QED
    BY <2>1 DEF SessionsOK
<1>15. OneSessionPerProof'
  <2>1. ASSUME NEW m \in Sessions, NEW k \in Sessions, Opened(m)', Opened(k)'
        PROVE /\ sessions'[m].state = sessions'[k].state => m = k
              /\ sessions'[m].invitation = sessions'[k].invitation /\ sessions'[m].invitation # NoOne
                    => m = k
              /\ sessions'[m].invitation # NoOne => invitations'[sessions'[m].invitation] = "consumed"
    <3>1. CASE m # n /\ k # n
      BY <3>1, <2>1, <1>1, <1>13, <1>14 DEF OneSessionPerProof, SessionsOK
    <3>2. CASE m = n /\ k # n
      BY <3>2, <2>1, <1>6, <1>10, <1>13, <1>14 DEF SessionsOK
    <3>3. CASE m # n /\ k = n
      BY <3>3, <2>1, <1>6, <1>10, <1>13, <1>14 DEF SessionsOK
    <3>4. CASE m = n /\ k = n
      BY <3>4, <2>1, <1>14 DEF SessionsOK
    <3> QED
      BY <3>1, <3>2, <3>3, <3>4
  <2> QED
    BY <2>1 DEF OneSessionPerProof
<1> QED
  BY <1>2, <1>5, <1>12, <1>14, <1>15 DEF IInv

\* Changed roles come with a new epoch, and no row is older than it was.
LEMMA ChangeKeeps ==
    ASSUME IInv, NEW c \in Calls, NEW u \in Users, NEW new \in SUBSET Roles, ChangeRoles(c, u, new)
    PROVE  IInv'
<1>1. TypeOK /\ RolesOfMembers
  BY DEF IInv
<1>2. TypeOK' /\ (\A n \in Sessions : KeepsSession(n)) /\ (\A t \in Tokens : KeepsToken(t))
  BY <1>1, ChangeTyped
<1>3. /\ Ends(c) /\ u \in members
      /\ roles' = [roles EXCEPT ![u] = new]
      /\ epoch' = [epoch EXCEPT ![u] = @ + 1]
      /\ UNCHANGED members /\ UNCHANGED proofs
  BY DEF ChangeRoles, Acts
<1>4. RightsMoveOn /\ RolesOfMembers'
  BY <1>1, <1>3 DEF RightsMoveOn, RolesOfMembers, TypeOK
<1>5. ProofsStayUsed
  BY <1>3 DEF ProofsStayUsed, proofs
<1>6. \A d \in Calls : Is(d, "agent")' => calls'[d] = calls[d]
  BY <1>1, <1>3, CallEnds
<1> QED
  BY <1>2, <1>4, <1>5, <1>6, Kept

\* A session or a token is revoked.
LEMMA LogoutKeeps ==
    ASSUME IInv, NEW n \in Sessions, Logout(n)
    PROVE  IInv'
<1>1. TypeOK /\ RolesOfMembers
  BY DEF IInv
<1>2. UNCHANGED membership /\ UNCHANGED <<proofs, tokens, calls>>
  BY DEF Logout
<1>3. RightsMoveOn /\ RolesOfMembers' /\ ProofsStayUsed
  BY <1>1, <1>2, RightsUntouched DEF ProofsStayUsed, proofs
<1>4. \A k \in Tokens : KeepsToken(k)
  BY <1>2 DEF KeepsToken, Given
<1> QED
  BY <1>1, <1>2, <1>3, <1>4, LogoutTyped, Kept

LEMMA RevokeTokenKeeps ==
    ASSUME IInv, NEW c \in Calls, NEW t \in Tokens, RevokeToken(c, t)
    PROVE  IInv'
<1>1. TypeOK /\ RolesOfMembers
  BY DEF IInv
<1>2. UNCHANGED membership /\ UNCHANGED <<proofs, sessions>> /\ Ends(c)
  BY DEF RevokeToken, Acts
<1>3. RightsMoveOn /\ RolesOfMembers' /\ ProofsStayUsed
  BY <1>1, <1>2, RightsUntouched DEF ProofsStayUsed, proofs
<1>4. \A n \in Sessions : KeepsSession(n)
  BY <1>2 DEF KeepsSession, Opened
<1>5. \A d \in Calls : Is(d, "agent")' => calls'[d] = calls[d]
  BY <1>1, <1>2, CallEnds
<1> QED
  BY <1>1, <1>3, <1>4, <1>5, RevokeTokenTyped, Kept

\* A new token belongs to a reviewer whose rights were just checked.
LEMMA GrantTokenKeeps ==
    ASSUME IInv, NEW c \in Calls, NEW t \in Tokens, GrantToken(c, t)
    PROVE  IInv'
<1> DEFINE u == calls[c].user
<1>1. TypeOK /\ RolesOfMembers /\ SessionsOK /\ TokensOK /\ AgentsOK /\ OneSessionPerProof
  BY DEF IInv
<1>2. TypeOK'
  BY <1>1, GrantTokenTyped
<1>3. /\ Ends(c) /\ Is(c, "member") /\ "reviewer" \in calls[c].roles /\ ~Given(t)
      /\ epoch[u] = calls[c].epoch /\ roles[u] = calls[c].roles
      /\ tokens' = [tokens EXCEPT ![t] =
            [status |-> "active", user |-> u, epoch |-> calls[c].epoch]]
      /\ UNCHANGED membership /\ UNCHANGED <<sessions, proofs>>
  BY DEF GrantToken, Acts, Fresh
<1>4. u \in Users /\ calls[c].epoch \in Nat
  BY <1>1, <1>3, CallTyped
<1>5. u \in members
  BY <1>3, <1>4, <1>1 DEF RolesOfMembers
<1>6. RolesOfMembers' /\ SessionsOK' /\ OneSessionPerProof'
  BY <1>1, <1>3 DEF RolesOfMembers, SessionsOK, OneSessionPerProof, Opened, membership, proofs
<1>7. tokens'[t] = [status |-> "active", user |-> u, epoch |-> calls[c].epoch]
      /\ \A k \in Tokens \ {t} : tokens'[k] = tokens[k]
  BY <1>1, <1>3 DEF TypeOK
<1>8. tokens'[t].user = u /\ tokens'[t].epoch = calls[c].epoch /\ tokens'[t].status = "active"
  BY <1>7
<1> HIDE DEF u
<1>9. TokensOK'
  <2>1. ASSUME NEW k \in Tokens, Given(k)'
        PROVE /\ tokens'[k].user \in members'
              /\ tokens'[k].epoch <= epoch'[tokens'[k].user]
              /\ tokens'[k].epoch = epoch'[tokens'[k].user]
                    => "reviewer" \in roles'[tokens'[k].user]
    <3>1. CASE k = t
      BY <3>1, <1>3, <1>4, <1>5, <1>8 DEF membership
    <3>2. CASE k # t
      BY <3>2, <2>1, <1>1, <1>3, <1>7 DEF TokensOK, Given, membership
    <3> QED
      BY <3>1, <3>2
  <2> QED
    BY <2>1 DEF TokensOK
<1>10. AgentsOK'
  <2>1. \A d \in Calls : Is(d, "agent")' => calls'[d] = calls[d]
    BY <1>1, <1>3, CallEnds
  <2>2. \A k \in Tokens : Given(k) => Given(k)' /\ KeepsToken(k)
    BY <1>3, <1>7 DEF KeepsToken, Given
  <2> QED
    BY <1>1, <2>1, <2>2, AgentsStay
<1> QED
  BY <1>2, <1>6, <1>9, <1>10 DEF IInv

LEMMA NextIInv == IInv /\ [Next]_vars => IInv'
<1> SUFFICES ASSUME IInv, [Next]_vars PROVE IInv'
  OBVIOUS
<1>1. CASE UNCHANGED vars
  BY <1>1 DEF IInv, TypeOK, RolesOfMembers, SessionsOK, TokensOK, AgentsOK, OneSessionPerProof,
     Opened, Given, Is, vars, membership, operator, proofs
<1>2. ASSUME NEW u \in Users, Activate(u) \/ \E k \in RecoveryKeys : Recover(k, u) PROVE IInv'
  BY <1>2, OperatorKeeps
<1>3. ASSUME NEW n \in Sessions, Logout(n) PROVE IInv'
  BY <1>3, LogoutKeeps
<1>4. CASE \/ \E s \in States : OpenState(s)
           \/ \E x \in States \union Invitations \union Sessions \union Tokens : Lapse(x)
           \/ \E c \in Calls :
                \/ \E i \in Invitations : IssueInvitation(c, i) \/ RevokeInvitation(c, i)
                \/ CommitAgent(c) \/ Refuse(c)
  BY <1>4, ProofStepKeeps
<1>5. ASSUME NEW c \in Calls,
             \/ \E s \in States, u \in Users : BeginLogin(c, s, u)
             \/ \E s \in States, i \in Invitations, u \in Users : BeginInvited(c, s, i, u)
             \/ \E n \in Sessions : BeginRequest(c, n)
             \/ \E t \in Tokens : BeginAgent(c, t)
      PROVE IInv'
  BY <1>5, BeginKeeps
<1>6. ASSUME NEW c \in Calls, FinishLogin(c) \/ FinishInvited(c) PROVE IInv'
  BY <1>6, FinishKeeps
<1>7. ASSUME NEW c \in Calls, NEW u \in Users, NEW new \in SUBSET Roles, ChangeRoles(c, u, new)
      PROVE IInv'
  BY <1>7, ChangeKeeps
<1>8. ASSUME NEW c \in Calls, NEW t \in Tokens, GrantToken(c, t) PROVE IInv'
  BY <1>8, GrantTokenKeeps
<1>9. ASSUME NEW c \in Calls, NEW t \in Tokens, RevokeToken(c, t) PROVE IInv'
  BY <1>9, RevokeTokenKeeps
<1> QED
  BY <1>1, <1>2, <1>3, <1>4, <1>5, <1>6, <1>7, <1>8, <1>9 DEF Next

LEMMA Invariance == Spec => []IInv
<1>1. Init => IInv
  BY InitIInv
<1>2. IInv /\ [Next]_vars => IInv'
  BY NextIInv
<1> QED
  BY <1>1, <1>2, PTL DEF Spec

\* A login state or an invitation admits its bearer once (consume_once under the
\* row locks), and an invitation revoked before that admits nobody.
THEOREM ProofsAdmitOnce == Spec => []OneSessionPerProof
<1>1. IInv => OneSessionPerProof
  BY DEF IInv
<1> QED
  BY <1>1, Invariance, PTL

\* A session that is still admitted (current_session) has the rights its login
\* gave it, whoever has changed its member's roles since and how.
THEOREM SessionsFollowRights == Spec => []ChangedRightsEndSessions
<1>1. IInv => ChangedRightsEndSessions
  <2> SUFFICES ASSUME IInv, NEW n \in Sessions, Usable(n)
               PROVE sessions[n].roles = roles[sessions[n].user]
    BY DEF ChangedRightsEndSessions
  <2>1. Opened(n) /\ epoch[sessions[n].user] = sessions[n].epoch
    BY DEF Usable, Opened
  <2> QED
    BY <2>1 DEF IInv, SessionsOK
<1> QED
  BY <1>1, Invariance, PTL

\* An agent commits only under an active token whose owner is a reviewer
\* (lock_membership_then_authorization before the commit of mcp/server.py).
THEOREM AgentsStayWithinRights == Spec => AgentsActWithinRights
<1>1. IInv /\ [Next]_vars =>
        [\A t \in Tokens : work'[t] # work[t] =>
            tokens[t].status = "active" /\ "reviewer" \in roles[tokens[t].user]]_vars
  <2> SUFFICES ASSUME IInv, Next, NEW t \in Tokens, work'[t] # work[t]
               PROVE tokens[t].status = "active" /\ "reviewer" \in roles[tokens[t].user]
    BY DEF vars
  <2>1. TypeOK /\ TokensOK /\ AgentsOK
    BY DEF IInv
  <2>2. PICK c \in Calls : CommitAgent(c)
    BY DEF Next, Activate, Recover, Lapse, OpenState, Logout, BeginLogin, BeginInvited, FinishLogin,
       FinishInvited, Refuse, BeginRequest, IssueInvitation, RevokeInvitation, ChangeRoles, GrantToken,
       RevokeToken, BeginAgent
  <2>3. calls[c].token \in Tokens /\ work' = [work EXCEPT ![calls[c].token] = @ + 1]
    BY <2>1, <2>2, CallTyped DEF CommitAgent
  <2>4. t = calls[c].token
    BY <2>1, <2>3 DEF TypeOK
  <2>5. /\ tokens[t].status = "active" /\ Given(t)
        /\ epoch[calls[c].user] = calls[c].epoch
    BY <2>2, <2>4 DEF CommitAgent, AgentFresh, Fresh, Given
  <2>6. tokens[t].user = calls[c].user /\ tokens[t].epoch = calls[c].epoch
    BY <2>1, <2>2, <2>4 DEF AgentsOK, CommitAgent
  <2> QED
    BY <2>1, <2>5, <2>6 DEF TokensOK
<1> QED
  BY <1>1, Invariance, PTL DEF Spec, AgentsActWithinRights
=============================================================================
