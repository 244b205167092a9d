SPECIFICATION Spec
CONSTANTS
    ann = ann
    bob = bob
    login1 = login1
    login2 = login2
    link1 = link1
    link2 = link2
    asReviewer = asReviewer
    asMethodologist = asMethodologist
    n1 = n1
    n2 = n2
    n3 = n3
    c1 = c1
    c2 = c2
    Users = {ann, bob}
    StepikUsers = {ann}
    States = {login1, link1, link2}
    StepikStates = {login1}
    Invitations = {asReviewer, asMethodologist}
    InviteeOf <- MCInviteeOf
    RoleOf <- MCRoleOf
    Sessions = {n1, n2, n3}
    Tokens = {token}
    Calls = {c1, c2}
    RecoveryKeys = {key}
    MaxEpoch = 2
    MaxWork = 1
    MaxLapses = 1
INVARIANTS
    OneSessionPerProof
    ChangedRightsEndSessions
PROPERTIES
    AgentsActWithinRights
SYMMETRY Alike
CHECK_DEADLOCK FALSE
