------------------------------ MODULE ReviewCase ------------------------------
(***************************************************************************)
(* The review of one student's homework in one course run: a ReviewCase    *)
(* row that points at its current iteration, the iterations, the immutable *)
(* drafts (ReviewRevision) of each, requests for publication, outcomes and *)
(* publications.  Reviewers act on what they last saw; every command locks *)
(* its rows, compares the revision the client saw with the one it locked   *)
(* and commits, so each action is one committed transaction.  A refused    *)
(* command, or one that is answered from an earlier equal one, changes     *)
(* nothing and is not a step.                                              *)
(***************************************************************************)
EXTENDS Integers, Sequences, FiniteSets

CONSTANTS
    Reviewers,      \* reviewers, methodologists and agents of the course run
    Versions,       \* submission versions the student may send
    Requirements,   \* homework versions, each with its one criterion set
    Criteria,       \* Criteria[h]: stable keys of the active criteria of h
    ReviewOnly,     \* homework versions made for one review, this one or another
    Requests,       \* publication request ids
    Scores,         \* how drafts may stand to the pass score, of AllScores
    Decisions,      \* outcomes reviewers save, of AllDecisions
    Archivable,     \* what may be archived, of {"course", "run"}
    MaxIterations,  \* bound: iterations of the case
    MaxDrafts,      \* bound: MaxDrafts[i] drafts of iteration i
    MaxRevision     \* bound: revision MaxRevision[i] of iteration i

\* How a draft's score stands to the pass score of the homework: "late" passes
\* only when the reviewer waives the penalty for a late submission.
AllScores == {"below", "late", "pass"}
AllDecisions == {"passed", "failed", "needs_changes"}

ASSUME ReviewCaseAssumption ==
    /\ Scores \subseteq AllScores
    /\ Decisions \subseteq AllDecisions
    /\ Archivable \subseteq {"course", "run"}
    /\ ReviewOnly \subseteq Requirements
    /\ \A h \in Requirements : IsFiniteSet(Criteria[h])
    /\ MaxIterations \in Nat
    /\ {MaxDrafts, MaxRevision} \subseteq [1..MaxIterations -> Nat]

VARIABLES
    submitted,      \* homework version each submission version was made for
    opened,         \* ReviewIteration rows of the case: numbers 1..opened
    pointer,        \* ReviewCase.current_iteration_id and revision
    rows,           \* ReviewIteration rows by iteration number
    drafts,         \* ReviewRevision rows of each iteration, in order
    publications,   \* ReviewPublication rows
    requests,       \* PublicationRequest rows
    outcome,        \* ReviewOutcome decision of each iteration
    closed,         \* which of the course and the course run are archived
    seen            \* the iteration each reviewer has on the screen

caseVars == <<opened, pointer, rows, drafts>>
vars == <<submitted, caseVars, publications, requests, outcome, closed, seen>>

-----------------------------------------------------------------------------
Numbers == 1..MaxIterations
Keys == UNION {Criteria[h] : h \in Requirements}
NotSubmitted == "none"
Statuses == {"absent", "in_review", "published"}
Origins == {"none", "initial", "resubmission", "requirements_migration", "correction"}

\* source: the draft whose content was taken over, <<0, 0>> when a human wrote it.
Draft == [base : Nat, decided : SUBSET Keys, score : Scores,
          source : (0..MaxIterations) \X Nat]

Row == [status : Statuses, revision : Nat, current : Nat, origin : Origins,
        predecessor : 0..MaxIterations, version : Versions \cup {NotSubmitted},
        requirements : Requirements \cup {NotSubmitted}]

Absent == [status |-> "absent", revision |-> 0, current |-> 0, origin |-> "none",
           predecessor |-> 0, version |-> NotSubmitted, requirements |-> NotSubmitted]

NoRequest == "none"
Request == [status : {"absent", "pending", "confirmed"}, iteration : 0..MaxIterations,
            draft : Nat, expired : BOOLEAN]
Unused == [status |-> "absent", iteration |-> 0, draft |-> 0, expired |-> FALSE]

\* passed is the stored WorkspacePublishedGrade, "none" when the publication
\* came through the core route, which stores none.
Publication == [iteration : Numbers, draft : Nat, request : Requests \cup {NoRequest},
                passed : {"none", "yes", "no"}]

Nothing == [iteration |-> 0, revision |-> 0, draft |-> 0]
View == [iteration : 0..MaxIterations, revision : Nat, draft : Nat]

Current(i) == drafts[i][rows[i].current]
Editable(i) == rows[i].status = "in_review"
PublishedDraft(i, d) == \E p \in publications : p.iteration = i /\ p.draft = d

\* Mutant: the locked row is not compared with the revision the client saw.
LockedUnchecked(v) == v.iteration \in 1..opened

\* The row is locked and still is what the client saw.
Locked(v) == v.iteration \in 1..opened /\ rows[v.iteration].revision = v.revision

\* Mutant: any iteration of the case may be continued or published.
LockedAnywhere(v) == closed = {} /\ Locked(v)

\* lock_current_predecessor and lock_publication_context: the iteration is the
\* one the case points at, in an active course and an active course run.
LockedCurrent(v) == closed = {} /\ pointer.iteration = v.iteration /\ Locked(v)

\* Iteration i changes under its next revision.
Update(i, row) ==
    /\ row.revision < MaxRevision[i]
    /\ rows' = [rows EXCEPT ![i] = [row EXCEPT !.revision = @ + 1]]

-----------------------------------------------------------------------------
Init ==
    /\ submitted = [v \in Versions |-> NotSubmitted]
    /\ opened = 0
    /\ pointer = [iteration |-> 0, revision |-> 0]
    /\ rows = [i \in Numbers |-> Absent]
    /\ drafts = [i \in Numbers |-> <<>>]
    /\ publications = {}
    /\ requests = [q \in Requests |-> Unused]
    /\ outcome = [i \in Numbers |-> "none"]
    /\ closed = {}
    /\ seen = [r \in Reviewers |-> Nothing]

\* The submission component makes version v ready under homework version h.
Submit(v, h) ==
    /\ submitted[v] = NotSubmitted
    /\ h \notin ReviewOnly
    /\ submitted' = [submitted EXCEPT ![v] = h]
    /\ UNCHANGED <<caseVars, publications, requests, outcome, closed, seen>>

\* A reviewer reads an iteration of the case: the current one or an older one.
Look(r, i) ==
    /\ i \in 1..opened
    /\ seen' = [seen EXCEPT ![r] = [iteration |-> i, revision |-> rows[i].revision,
                                    draft |-> rows[i].current]]
    /\ UNCHANGED <<submitted, caseVars, publications, requests, outcome, closed>>

\* A new row becomes the current iteration; its drafts are the given ones.
Extend(row, first) ==
    /\ opened < MaxIterations
    /\ opened' = opened + 1
    /\ rows' = [rows EXCEPT ![opened + 1] = row]
    /\ drafts' = [drafts EXCEPT ![opened + 1] = first]
    /\ pointer' = [iteration |-> opened + 1, revision |-> pointer.revision + 1]

\* ReviewIterationService.open for a version that has no iteration yet.  Only
\* the course run is looked at: its course may be archived.
Open(v) ==
    /\ "run" \notin closed
    /\ submitted[v] # NotSubmitted
    /\ \A i \in 1..opened : rows[i].version # v
    /\ Extend([status |-> "in_review", revision |-> 0, current |-> 0,
               origin |-> IF opened = 0 THEN "initial" ELSE "resubmission",
               predecessor |-> pointer.iteration, version |-> v,
               requirements |-> submitted[v]], <<>>)
    /\ UNCHANGED <<submitted, publications, requests, outcome, closed, seen>>

\* ReviewDraftService.save: neither the status of the iteration nor the case's
\* pointer nor the course is looked at.
SaveDraft(r, score) ==
    LET i == seen[r].iteration IN
    /\ Locked(seen[r])
    /\ Len(drafts[i]) < MaxDrafts[i]
    /\ drafts' = [drafts EXCEPT ![i] =
                    Append(@, [base |-> seen[r].draft,
                               decided |-> Criteria[rows[i].requirements],
                               score |-> score, source |-> <<0, 0>>])]
    /\ Update(i, [rows[i] EXCEPT !.current = Len(drafts[i]) + 1])
    /\ UNCHANGED <<submitted, opened, pointer, publications, requests, outcome,
                   closed, seen>>

\* save_outcome of the workspace routes.
SaveOutcome(i, decision) ==
    /\ closed = {}
    /\ i \in 1..opened
    /\ Editable(i)
    /\ outcome' = [outcome EXCEPT ![i] = decision]
    /\ Update(i, rows[i])
    /\ UNCHANGED <<submitted, opened, pointer, drafts, publications, requests,
                   closed, seen>>

\* PublicationRequestService.request of the draft the client saw as current.
RequestPublication(r, q) ==
    LET i == seen[r].iteration IN
    /\ Locked(seen[r])
    /\ seen[r].draft # 0
    /\ rows[i].current = seen[r].draft
    /\ requests[q].status = "absent"
    /\ requests' = [requests EXCEPT ![q] =
                      [status |-> "pending", iteration |-> i, draft |-> seen[r].draft,
                       expired |-> FALSE]]
    /\ UNCHANGED <<submitted, caseVars, publications, outcome, closed, seen>>

\* The expiry of a request passes; nothing writes that down.
Expire(q) ==
    /\ requests[q].status = "pending"
    /\ ~requests[q].expired
    /\ requests' = [requests EXCEPT ![q].expired = TRUE]
    /\ UNCHANGED <<submitted, caseVars, publications, outcome, closed, seen>>

\* Mutant: the draft a request was made for is not compared.
ConfirmableOnce(q, i, d) == requests[q].status = "pending" /\ ~requests[q].expired

\* A request named with a publication is locked and must fit it.
Confirmable(q, i, d) ==
    /\ requests[q].status = "pending"
    /\ ~requests[q].expired
    /\ requests[q].iteration = i
    /\ requests[q].draft = d

\* Mutant: a transferred draft may be published as it is.
CompleteAnyway(i, d) == TRUE

\* _validate_context: one decision for every active criterion, and some criterion.
Complete(i, d) ==
    /\ Criteria[rows[i].requirements] # {}
    /\ drafts[i][d].decided = Criteria[rows[i].requirements]

\* The part both publication routes share: the draft the client saw is current
\* and complete, and nobody published this iteration before.
PublishLocked(r, q, passed) ==
    LET i == seen[r].iteration
        d == seen[r].draft
    IN
    /\ LockedCurrent(seen[r])
    /\ d # 0
    /\ rows[i].current = d
    /\ ~PublishedDraft(i, d)
    /\ Editable(i)
    /\ Complete(i, d)
    /\ publications' = publications \cup
           {[iteration |-> i, draft |-> d, request |-> q, passed |-> passed]}
    /\ Update(i, [rows[i] EXCEPT !.status = "published"])

\* ReviewPublicationService.publish through the core route, with or without a
\* request.
Publish(r, q) ==
    /\ PublishLocked(r, q, "none")
    /\ IF q = NoRequest THEN requests' = requests
       ELSE /\ Confirmable(q, seen[r].iteration, seen[r].draft)
            /\ requests' = [requests EXCEPT ![q].status = "confirmed"]
    /\ UNCHANGED <<submitted, opened, pointer, drafts, outcome, closed, seen>>

\* The grade of a draft passes, with the penalty for lateness or without it.
Passes(draft, penalty) == draft.score = "pass" \/ (draft.score = "late" /\ ~penalty)

OutcomeFits(decision, passes) ==
    /\ decision = "passed" => passes
    /\ decision = "failed" => ~passes

\* publish_workspace_review of a homework with a pass score: the outcome saved
\* before must fit the grade, or is derived from it.
PublishGraded(r, penalty) ==
    LET i == seen[r].iteration
        passes == Passes(drafts[i][seen[r].draft], penalty)
    IN
    /\ seen[r].draft # 0
    /\ PublishLocked(r, NoRequest, IF passes THEN "yes" ELSE "no")
    /\ OutcomeFits(outcome[i], passes)
    /\ outcome' = IF outcome[i] # "none" THEN outcome
                  ELSE [outcome EXCEPT ![i] = IF passes THEN "passed" ELSE "failed"]
    /\ UNCHANGED <<submitted, opened, pointer, drafts, requests, closed, seen>>

\* The iteration that continues iteration i of the same submission version, with
\* its first draft already in place: append_successor, then the revision's CAS.
Successor(i, origin, h) ==
    [status |-> "in_review", revision |-> 1, current |-> 1, origin |-> origin,
     predecessor |-> i, version |-> rows[i].version, requirements |-> h]

\* _transferred_draft: decisions on criteria the target still has.
Transferred(i, h, score) ==
    IF rows[i].current = 0
    THEN [base |-> 0, decided |-> {}, score |-> score, source |-> <<0, 0>>]
    ELSE [base |-> 0, decided |-> Current(i).decided \cap Criteria[h],
          score |-> score, source |-> <<i, rows[i].current>>]

\* ReviewRequirementsMigrationService.migrate; the status of the iteration is not
\* looked at.  Points above the target's maximum refuse the command; the total of
\* what is left may stand to the pass score in any way.
Migrate(r, h, score) ==
    LET i == seen[r].iteration IN
    /\ LockedCurrent(seen[r])
    /\ h # rows[i].requirements
    /\ Criteria[h] # {}
    /\ Extend(Successor(i, "requirements_migration", h), <<Transferred(i, h, score)>>)
    /\ UNCHANGED <<submitted, publications, requests, outcome, closed, seen>>

\* add_requirement of the workspace: a homework version with one more criterion is
\* created for this review, and the review is migrated to it.
AddRequirement(r, h, score) ==
    /\ seen[r].iteration # 0
    /\ Editable(seen[r].iteration)
    /\ h \in ReviewOnly
    /\ \A i \in 1..opened : rows[i].requirements # h
    /\ Criteria[rows[seen[r].iteration].requirements] \subseteq Criteria[h]
    /\ Migrate(r, h, score)

\* Mutant: the correction starts from the current draft, published or not.
CorrectedCurrent(i, d) ==
    [Current(i) EXCEPT !.base = 0, !.source = <<i, rows[i].current>>]

\* _copy_published_revision
Corrected(i, d) == [drafts[i][d] EXCEPT !.base = 0, !.source = <<i, d>>]

\* ReviewCorrectionService.create from the published draft d.
Correct(r, d) ==
    LET i == seen[r].iteration IN
    /\ LockedCurrent(seen[r])
    /\ PublishedDraft(i, d)
    /\ Extend(Successor(i, "correction", rows[i].requirements), <<Corrected(i, d)>>)
    /\ UNCHANGED <<submitted, publications, requests, outcome, closed, seen>>

\* The course or the course run is archived or becomes active again.
SetStatus(what) ==
    /\ closed' = IF what \in closed THEN closed \ {what} ELSE closed \cup {what}
    /\ UNCHANGED <<submitted, caseVars, publications, requests, outcome, seen>>

ReviewNext ==
    \/ \E v \in Versions : Open(v)
    \/ \E r \in Reviewers, i \in Numbers : Look(r, i)
    \/ \E r \in Reviewers, s \in Scores : SaveDraft(r, s)
    \/ \E i \in Numbers, o \in Decisions : SaveOutcome(i, o)
    \/ \E r \in Reviewers, q \in Requests : RequestPublication(r, q)
    \/ \E q \in Requests : Expire(q)
    \/ \E r \in Reviewers, q \in Requests \cup {NoRequest} : Publish(r, q)
    \/ \E r \in Reviewers, b \in BOOLEAN : PublishGraded(r, b)
    \/ \E r \in Reviewers, h \in Requirements, s \in Scores : Migrate(r, h, s)
    \/ \E r \in Reviewers, h \in Requirements, s \in Scores : AddRequirement(r, h, s)
    \/ \E r \in Reviewers, p \in publications : Correct(r, p.draft)
    \/ \E w \in Archivable : SetStatus(w)

Next == ReviewNext \/ \E v \in Versions, h \in Requirements : Submit(v, h)

Spec == Init /\ [][Next]_vars

-----------------------------------------------------------------------------
\* Every variable stays in its set.
TypeOK ==
    /\ submitted \in [Versions -> Requirements \cup {NotSubmitted}]
    /\ opened \in 0..MaxIterations
    /\ pointer \in [iteration : 0..MaxIterations, revision : Nat]
    /\ rows \in [Numbers -> Row]
    /\ drafts \in [Numbers -> Seq(Draft)]
    /\ publications \subseteq Publication
    /\ requests \in [Requests -> Request]
    /\ outcome \in [Numbers -> {"none"} \cup Decisions \cup {"passed", "failed"}]
    /\ closed \subseteq {"course", "run"}
    /\ seen \in [Reviewers -> View]

\* However many reviewers continue, correct, migrate or reopen a review at once, its
\* iterations form one chain, the case points at the last of them, and its revision
\* counts them: no successor was made of an iteration that already had one.
OneChain ==
    /\ pointer = [iteration |-> opened, revision |-> opened]
    /\ \A i \in 1..opened : rows[i].predecessor = i - 1

\* No lost update: the current draft is the newest one, and every draft was written
\* by somebody who had seen the draft before it.
NoDraftIsLost ==
    \A i \in 1..opened :
        /\ rows[i].current = Len(drafts[i])
        /\ \A d \in 1..Len(drafts[i]) : drafts[i][d].base = d - 1

\* What students get is complete, although a migration may leave a draft with fewer
\* decisions than criteria: an iteration is published exactly when it has a
\* publication, and that publication's draft decides every criterion.
PublishedIsComplete ==
    /\ \A i \in Numbers : rows[i].status = "published"
                          <=> \E p \in publications : p.iteration = i
    /\ \A p \in publications :
        drafts[p.iteration][p.draft].decided = Criteria[rows[p.iteration].requirements]

\* A request is confirmed by a publication of exactly the draft it asked for, and
\* by no other.
ConfirmedByItsPublication ==
    /\ \A q \in Requests : requests[q].status = "confirmed" =>
        \E p \in publications : /\ p.request = q
                                /\ p.iteration = requests[q].iteration
                                /\ p.draft = requests[q].draft
    /\ \A p1, p2 \in publications : p1.request = p2.request => p1.request = NoRequest \/ p1 = p2

\* A student is never told "passed" with a grade below the pass score, nor "failed"
\* with one that reaches it, whatever was saved between outcome and publication.
OutcomeMatchesGrade ==
    \A p \in publications :
        /\ p.passed = "no" => outcome[p.iteration] # "passed"
        /\ p.passed = "yes" => outcome[p.iteration] # "failed"

\* The first draft of iteration i is the published draft it was corrected from.
FromPublished(i) ==
    LET source == drafts[i][1].source IN
    /\ PublishedDraft(source[1], source[2])
    /\ source[1] = rows[i].predecessor
    /\ drafts[i][1].decided = drafts[source[1]][source[2]].decided

\* A correction starts from what the student was given, even if drafts were saved
\* over the published one afterwards.
CorrectionStartsFromPublished ==
    \A i \in 1..opened : rows[i].origin = "correction" => FromPublished(i)

\* The results of the case, as the abstract history sees them.
Greatest(S) == IF S = {} THEN 0 ELSE CHOOSE n \in S : \A m \in S : m <= n

History == INSTANCE PublishedHistory WITH
    published <- {<<p.iteration, p.draft>> : p \in publications},
    result <- Greatest({p.iteration : p \in publications})

\* Published history only grows, and the current result only moves to a later
\* iteration: neither an open successor nor a change of an earlier iteration hides
\* or replaces it.
KeepsHistory == History!Spec
=============================================================================
