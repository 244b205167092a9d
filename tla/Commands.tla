------------------------------- MODULE Commands -------------------------------
(***************************************************************************)
(* Commands and the rights they run under: the idempotency receipts        *)
(* (application/idempotency.py, infrastructure/db/adapters.py), the route  *)
(* envelope every mutation goes through (api/routes/reviews.py), the       *)
(* authority check at the start and under lock before the commit           *)
(* (application/authorization.py, auth_guards/membership.py) and the role  *)
(* change that races with them (application/services/memberships.py).      *)
(*                                                                         *)
(* A request is one HTTP call.  The row it inserts for its receipt takes a   *)
(* shared lock on the organization (foreign key), a role change and every   *)
(* final check an exclusive one, so two commands of one organization can    *)
(* wait for each other: the database rolls one of them back.  The client    *)
(* repeats a call whose answer it never saw.  A role change holds no        *)
(* receipt.                                                                 *)
(***************************************************************************)
EXTENDS Integers, Sequences, FiniteSets

CONSTANTS
    Users,          \* members of the organization, methodologists at first
    Requests,       \* calls a client makes
    UserOf,         \* who makes the call
    KeyOf,          \* its idempotency key
    CommandOf,      \* its canonical command: an edit or the user to be demoted
    ExpectedOf,     \* its expected_revision
    MaxCalls        \* MaxCalls[r]: bound on how often the call is made

\* A role change has no key of its own in the code: its KeyOf is the name of the
\* call, which no edit has.
ASSUME CommandsAssumption ==
    /\ Users # {}
    /\ "none" \notin Requests
    /\ \A r, other \in Requests :
        KeyOf[r] = KeyOf[other] /\ CommandOf[r] \notin Users => CommandOf[other] \notin Users
    /\ UserOf \in [Requests -> Users]
    /\ ExpectedOf \in [Requests -> Nat]
    /\ MaxCalls \in [Requests -> Nat]

VARIABLES
    roles,      \* roles[u]: methodologist or reviewer
    epoch,      \* epoch[u]: auth_epoch and revision of the membership, which move together
    revision,   \* revision of the entity that edits change
    receipts,   \* committed command_receipts by key
    log,        \* effects in the order of their commits
    calls,      \* calls[r]: where the call is, with its actor snapshot
    organization, \* the role change that has locked the organization, or NoOne
    answers,    \* answers[r]: what the client was last told
    made        \* made[r]: times the call was made

vars == <<roles, epoch, revision, receipts, log, calls, organization, answers, made>>
data == <<roles, epoch, revision, receipts, log>>

Keys == {KeyOf[r] : r \in Requests}
NoReceipt == [command |-> "none", user |-> "none", epoch |-> 0, result |-> 0]
NoOne == "none"
Told(outcome, result) == [outcome |-> outcome, result |-> result]
Nothing == Told("none", 0)
Resting == [step |-> "rest", role |-> "none", epoch |-> 0]

Init ==
    /\ roles = [u \in Users |-> "methodologist"]
    /\ epoch = [u \in Users |-> 0]
    /\ revision = 0
    /\ receipts = [k \in Keys |-> NoReceipt]
    /\ log = <<>>
    /\ calls = [r \in Requests |-> Resting]
    /\ organization = NoOne
    /\ answers = [r \in Requests |-> Nothing]
    /\ made = [r \in Requests |-> 0]

-----------------------------------------------------------------------------
IsEdit(r) == CommandOf[r] \notin Users
At(r, steps) == calls[r].step \in steps
Moves(r, step) == calls' = [calls EXCEPT ![r].step = step]

\* The transaction of an edit has inserted its receipt and shares the
\* organization row until it ends.
Holding == {"reserved", "handled"}
Unshared(r) == \A other \in Requests \ {r} : ~At(other, Holding)

\* The organization row can be locked by r: nobody has locked it, nobody else
\* shares it.
MayLock(r) == organization = NoOne /\ Unshared(r)

\* Mutant: a transaction that rolls back leaves the organization locked.
AnswerLocked(r, outcome, result) ==
    /\ calls' = [calls EXCEPT ![r] = Resting]
    /\ organization' = IF outcome = "success" /\ organization = r THEN NoOne ELSE organization
    /\ answers' = [answers EXCEPT ![r] = Told(outcome, result)]
    /\ UNCHANGED made

\* A call ends: its transaction commits or rolls back and its locks go.
Answer(r, outcome, result) ==
    /\ calls' = [calls EXCEPT ![r] = Resting]
    /\ organization' = IF organization = r THEN NoOne ELSE organization
    /\ answers' = [answers EXCEPT ![r] = Told(outcome, result)]
    /\ UNCHANGED made

Refuse(r, outcome) == Answer(r, outcome, 0) /\ UNCHANGED data

\* The membership still has the epoch and roles of the actor snapshot
\* (_validate, _check_snapshot); an edit needs either role.
Authorized(r) ==
    /\ epoch[UserOf[r]] = calls[r].epoch
    /\ roles[UserOf[r]] = calls[r].role

\* The client makes the call, or makes it again with the same body: the session
\* gives it the current authority.
Call(r) ==
    /\ At(r, {"rest"})
    /\ made[r] < MaxCalls[r]
    /\ made' = [made EXCEPT ![r] = @ + 1]
    /\ calls' = [calls EXCEPT ![r] =
            [step |-> "sent", role |-> roles[UserOf[r]], epoch |-> epoch[UserOf[r]]]]
    /\ answers' = [answers EXCEPT ![r] = Nothing]
    /\ UNCHANGED <<data, organization>>

\* The early check of an edit, without locks.
Authorize(r) ==
    /\ At(r, {"sent"}) /\ IsEdit(r)
    /\ \/ Authorized(r) /\ Moves(r, "authorized") /\ UNCHANGED <<data, organization, answers, made>>
       \/ ~Authorized(r) /\ Refuse(r, "denied")

\* A concurrent insert of the same key waits for the one before it, and so does
\* a locking read of the row.
MayInsert(r) ==
    \A other \in Requests \ {r} :
        IsEdit(other) /\ At(other, Holding \union {"replay"}) => KeyOf[other] # KeyOf[r]

\* Mutant: the digest of the stored command is not compared.
SameKey(r) == receipts[KeyOf[r]].user = UserOf[r]

\* The stored receipt has the command, the actor and the authority snapshot.
SameCommand(r) ==
    LET receipt == receipts[KeyOf[r]]
    IN  /\ receipt.command = CommandOf[r]
        /\ receipt.user = UserOf[r]
        /\ receipt.epoch = calls[r].epoch

\* Mutant: the receipt is looked up by its key and command together.
RepeatedAlike(r) == receipts[KeyOf[r]] # NoReceipt /\ SameCommand(r)

\* The key has a committed receipt.
Repeated(r) == receipts[KeyOf[r]] # NoReceipt

\* The receipt is inserted, which shares the organization row, or the one that
\* is there decides between a replay and a conflict.
Reserve(r) ==
    /\ At(r, {"authorized"})
    /\ MayInsert(r)
    /\ \/ /\ ~Repeated(r)
          /\ organization = NoOne
          /\ Moves(r, "reserved")
          /\ UNCHANGED <<data, organization, answers, made>>
       \/ /\ Repeated(r)
          /\ SameCommand(r)
          /\ Moves(r, "replay")
          /\ UNCHANGED <<data, organization, answers, made>>
       \/ /\ Repeated(r)
          /\ ~SameCommand(r)
          /\ Refuse(r, "conflict")

RowIsFree(r) == \A other \in Requests \ {r} : ~At(other, {"handled"})

\* The handler of an edit locks the row and compares its revision.
Handle(r) ==
    /\ At(r, {"reserved"})
    /\ RowIsFree(r)
    /\ \/ /\ revision = ExpectedOf[r]
          /\ Moves(r, "handled")
          /\ UNCHANGED <<data, organization, answers, made>>
       \/ revision # ExpectedOf[r] /\ Refuse(r, "conflict")

\* Mutant: the authority is not checked again before the commit.
CheckedEarly(r) == TRUE

\* lock_and_revalidate.
StillAuthorized(r) == Authorized(r)

\* The final check under the organization lock, then the receipt and the effect
\* are committed together.
CommitEdit(r) ==
    /\ At(r, {"handled"})
    /\ MayLock(r)
    /\ \/ ~StillAuthorized(r) /\ Refuse(r, "denied")
       \/ /\ StillAuthorized(r)
          /\ log' = Append(log, [request |-> r, epoch |-> calls[r].epoch])
          /\ receipts' = [receipts EXCEPT ![KeyOf[r]] =
                [command |-> CommandOf[r], user |-> UserOf[r], epoch |-> calls[r].epoch,
                 result |-> Len(log) + 1]]
          /\ revision' = revision + 1
          /\ Answer(r, "success", Len(log) + 1)
          /\ UNCHANGED <<roles, epoch>>

\* A replay is answered from the receipt, after the same final check.
AnswerReplay(r) ==
    /\ At(r, {"replay"})
    /\ MayLock(r)
    /\ \/ StillAuthorized(r) /\ Answer(r, "success", receipts[KeyOf[r]].result) /\ UNCHANGED data
       \/ ~StillAuthorized(r) /\ Refuse(r, "denied")

\* A role change locks the organization first.
LockOrganization(r) ==
    /\ At(r, {"sent"}) /\ ~IsEdit(r)
    /\ MayLock(r)
    /\ organization' = r
    /\ Moves(r, "organization")
    /\ UNCHANGED <<data, answers, made>>

Methodologists == {u \in Users : roles[u] = "methodologist"}

\* Mutant: the number of methodologists is not looked at.
AnyMayGo(r) == TRUE

\* Taking the role from the last active methodologist is refused.
AnotherRemains(r) == CommandOf[r] \in Methodologists => Cardinality(Methodologists) > 1

\* change_roles under the organization lock: the roles of the actor's snapshot,
\* the target's revision, the number of methodologists, and the final check,
\* which a change of one's own roles makes with the roles it has just written.
ChangeRoles(r) ==
    /\ At(r, {"organization"})
    /\ LET target == CommandOf[r]
            granted == /\ calls[r].role = "methodologist"
                       /\ epoch[target] = ExpectedOf[r]
                       /\ AnotherRemains(r)
                       /\ target # UserOf[r] => StillAuthorized(r)
       IN  \/ ~granted /\ Refuse(r, "denied")
           \/ /\ granted
              /\ roles' = [roles EXCEPT ![target] = "reviewer"]
              /\ epoch' = [epoch EXCEPT ![target] = @ + 1]
              /\ log' = Append(log, [request |-> r, epoch |-> calls[r].epoch])
              /\ Answer(r, "success", Len(log) + 1)
              /\ UNCHANGED <<revision, receipts>>

\* r waits for other: to lock the organization or the edited row.
WaitsFor(r, other) ==
    \/ /\ At(r, {"handled"}) \/ At(r, {"replay"}) \/ (At(r, {"sent"}) /\ ~IsEdit(r))
       /\ organization = other \/ At(other, Holding)
    \/ At(r, {"reserved"}) /\ At(other, {"handled"})

\* The database breaks a cycle of waits; either transaction may be the victim.
DeadlockVictim(r) ==
    /\ \E other \in Requests \ {r} : WaitsFor(r, other) /\ WaitsFor(other, r)
    /\ Refuse(r, "error")

\* The process or the connection dies before the commit.
Crash(r) ==
    /\ ~At(r, {"rest"})
    /\ Refuse(r, "error")

Next ==
    \E r \in Requests :
        \/ Call(r) \/ Authorize(r) \/ Reserve(r) \/ Handle(r) \/ CommitEdit(r) \/ AnswerReplay(r)
        \/ LockOrganization(r) \/ ChangeRoles(r) \/ DeadlockVictim(r) \/ Crash(r)

\* The server keeps working on a call it has accepted, and the database finds
\* every deadlock.
Works(r) ==
    \/ Authorize(r) \/ Reserve(r) \/ Handle(r) \/ CommitEdit(r) \/ AnswerReplay(r)
    \/ LockOrganization(r) \/ ChangeRoles(r) \/ DeadlockVictim(r)

Fairness == \A r \in Requests : WF_vars(Works(r))

Spec == Init /\ [][Next]_vars
FairSpec == Spec /\ Fairness

-----------------------------------------------------------------------------
\* Roles, receipts, effects, calls and answers stay in their sets.
Steps == {"rest", "sent", "authorized", "reserved", "handled", "replay", "organization"}

TypeOK ==
    /\ roles \in [Users -> {"methodologist", "reviewer"}]
    /\ epoch \in [Users -> Nat]
    /\ revision \in Nat
    /\ receipts \in [Keys -> [command : {CommandOf[r] : r \in Requests} \union {"none"},
                              user : Users \union {"none"}, epoch : Nat, result : Nat]]
    /\ log \in Seq([request : Requests, epoch : Nat])
    /\ calls \in [Requests ->
            [step : Steps, role : {"methodologist", "reviewer", "none"}, epoch : Nat]]
    /\ organization \in Requests \union {NoOne}
    /\ answers \in [Requests ->
            [outcome : {"none", "success", "denied", "conflict", "error"}, result : Nat]]
    /\ made \in [Requests -> Nat]

\* However often and however concurrently the calls with one key are made, at
\* most one of them has an effect.
AppliedOnce ==
    \A i, j \in DOMAIN log :
        IsEdit(log[i].request) /\ KeyOf[log[i].request] = KeyOf[log[j].request] => i = j

\* A call that was told success is told the effect of its own command, and a
\* repetition is told the same effect as the call that had it (spec.md: calls
\* that name one logical action change the data once).
AnswersTellTheEffect ==
    \A r \in Requests : answers[r].outcome = "success" =>
        LET n == answers[r].result
        IN  /\ n \in DOMAIN log
            /\ KeyOf[log[n].request] = KeyOf[r]
            /\ CommandOf[log[n].request] = CommandOf[r]

\* No edit and no change of another member's roles is committed under an
\* authority that has been taken away since the call began (FR-065).
AuthorityHeldAtCommit ==
    [][Len(log') > Len(log) =>
        LET entry == log'[Len(log')]
        IN  CommandOf[entry.request] # UserOf[entry.request]
            => epoch[UserOf[entry.request]] = entry.epoch]_vars

\* However role changes interleave, the organization keeps a methodologist.
AMethodologistRemains == Methodologists # {}

\* Every call is answered: no cycle of waits between commands and role changes
\* outlives the database's deadlock detection.
EveryCallIsAnswered ==
    \A r \in Requests : At(r, {"sent"}) ~> At(r, {"rest"})
=============================================================================
