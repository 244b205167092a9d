-------------------------- MODULE ReviewCaseProofs --------------------------
(***************************************************************************)
(* Proofs about ReviewCase for any number of reviewers, versions, homework *)
(* versions, requests, iterations and drafts, and at the end about its     *)
(* composition with RequirementImpacts, for any number of publications.    *)
(***************************************************************************)
EXTENDS RequirementImpacts, SequenceTheorems, TLAPS

Others == <<submitted, publications, requests, outcome, closed, seen>>

\* What is not opened is empty; what is open has requirements.
CaseOK ==
    \A i \in Numbers :
        IF i <= opened
        THEN rows[i].status # "absent" /\ rows[i].requirements \in Requirements
        ELSE rows[i].status = "absent" /\ drafts[i] = <<>>

\* A view is never ahead of its row, and one of the same revision shows its draft.
Fresh(v) ==
    /\ v.iteration <= opened
    /\ v.iteration # 0 =>
        /\ v.revision <= rows[v.iteration].revision
        /\ v.revision = rows[v.iteration].revision => v.draft = rows[v.iteration].current

\* Publications name drafts that exist, and requests that were confirmed.
PublicationsOK ==
    \A p \in publications :
        /\ p.iteration <= opened
        /\ p.draft \in 1..Len(drafts[p.iteration])
        /\ p.request # NoRequest => requests[p.request].status = "confirmed"

\* A correction has its first draft.
Begins == \A i \in 1..opened : rows[i].origin = "correction" => Len(drafts[i]) # 0

Published == {p.iteration : p \in publications}

\* The result the case shows is that of an iteration.
HasGreatest(S) == S = {} \/ \E n \in S : \A m \in S : m <= n

IInv ==
    /\ TypeOK
    /\ CaseOK
    /\ \A r \in Reviewers : Fresh(seen[r])
    /\ PublicationsOK
    /\ HasGreatest(Published)
    /\ Begins
    /\ OneChain
    /\ NoDraftIsLost
    /\ PublishedIsComplete
    /\ ConfirmedByItsPublication
    /\ OutcomeMatchesGrade
    /\ CorrectionStartsFromPublished

-----------------------------------------------------------------------------
LEMMA InitIInv == Init => IInv
<1> SUFFICES ASSUME Init PROVE IInv
  OBVIOUS
<1>1. Absent \in Row /\ Absent.status = "absent"
  BY ReviewCaseAssumption DEF Absent, Row, Statuses, Origins
<1>2. Unused \in Request /\ Unused.status = "absent"
  BY ReviewCaseAssumption DEF Unused, Request
<1>3. Nothing \in View /\ Nothing.iteration = 0
  BY ReviewCaseAssumption DEF Nothing, View
<1>4. TypeOK
  BY <1>1, <1>2, <1>3, ReviewCaseAssumption DEF Init, TypeOK
<1>5. CaseOK
  BY <1>1, ReviewCaseAssumption DEF Init, CaseOK, Numbers
<1>6. \A r \in Reviewers : Fresh(seen[r])
  BY <1>3 DEF Init, Fresh
<1>7. PublicationsOK /\ HasGreatest(Published) /\ OutcomeMatchesGrade
  BY DEF Init, PublicationsOK, HasGreatest, Published, OutcomeMatchesGrade
<1>8. OneChain /\ NoDraftIsLost /\ CorrectionStartsFromPublished /\ Begins
  BY DEF Init, Begins, OneChain, NoDraftIsLost, CorrectionStartsFromPublished
<1>9. PublishedIsComplete
  BY <1>1 DEF Init, PublishedIsComplete
<1>10. ConfirmedByItsPublication
  BY <1>2 DEF Init, ConfirmedByItsPublication
<1> QED
  BY <1>4, <1>5, <1>6, <1>7, <1>8, <1>9, <1>10 DEF IInv

LEMMA OpenedNumbers ==
    ASSUME TypeOK, NEW i \in 1..opened
    PROVE  i \in Numbers
  BY ReviewCaseAssumption DEF TypeOK, Numbers

\* What an update leaves and what it moves.
LEMMA UpdateRow ==
    ASSUME TypeOK, NEW i \in Numbers, NEW row \in Row, Update(i, row)
    PROVE  /\ rows' \in [Numbers -> Row]
           /\ rows'[i].revision = row.revision + 1 /\ rows'[i].status = row.status
           /\ rows'[i].current = row.current /\ rows'[i].requirements = row.requirements
           /\ rows'[i].predecessor = row.predecessor /\ rows'[i].origin = row.origin
           /\ \A j \in Numbers : j # i => rows'[j] = rows[j]
<1>1. rows' = [rows EXCEPT ![i] = [row EXCEPT !.revision = @ + 1]]
  BY DEF Update
<1>2. PICK next : next = [row EXCEPT !.revision = @ + 1]
  OBVIOUS
<1>3. /\ next \in Row /\ next.revision = row.revision + 1 /\ next.status = row.status
      /\ next.current = row.current /\ next.requirements = row.requirements
      /\ next.predecessor = row.predecessor /\ next.origin = row.origin
  BY <1>2 DEF Row
<1> QED
  BY <1>1, <1>2, <1>3 DEF TypeOK

-----------------------------------------------------------------------------
(* New iterations. *)

\* The row and the drafts a new iteration may start with.
Continues(row, first) ==
    /\ row \in Row /\ row.status = "in_review" /\ row.requirements \in Requirements
    /\ row.predecessor = opened
    /\ first \in Seq(Draft)
    /\ row.current = Len(first)
    /\ \A d \in 1..Len(first) : first[d].base = d - 1
    /\ row.origin = "correction" =>
        /\ Len(first) = 1
        /\ PublishedDraft(first[1].source[1], first[1].source[2])
        /\ first[1].source[1] = opened
        /\ first[1].decided = drafts[first[1].source[1]][first[1].source[2]].decided

LEMMA ExtendStep ==
    ASSUME IInv, NEW row, NEW first, Continues(row, first), Extend(row, first),
           UNCHANGED Others
    PROVE  IInv'
<1> DEFINE k == opened + 1
<1>1. k \in Numbers /\ opened \in Nat /\ opened' = k
  BY ReviewCaseAssumption DEF Extend, IInv, TypeOK, Numbers
<1>2. /\ rows' \in [Numbers -> Row] /\ rows'[k] = row
      /\ \A j \in Numbers : j # k => rows'[j] = rows[j]
  BY <1>1 DEF Extend, Continues, IInv, TypeOK
<1>3. /\ drafts' \in [Numbers -> Seq(Draft)] /\ drafts'[k] = first
      /\ \A j \in Numbers : j # k => drafts'[j] = drafts[j]
  BY <1>1 DEF Extend, Continues, IInv, TypeOK
<1>4. /\ pointer' = [iteration |-> k, revision |-> k]
  BY <1>1 DEF Extend, IInv, OneChain
<1>5. /\ submitted' = submitted /\ publications' = publications /\ requests' = requests
      /\ outcome' = outcome /\ closed' = closed /\ seen' = seen
  BY DEF Others
<1>6. \A i \in 1..opened' : i \in 1..opened \/ i = k
  BY <1>1
<1>7. \A i \in 1..opened : i \in Numbers /\ i # k
  BY <1>1, ReviewCaseAssumption DEF IInv, TypeOK, Numbers
<1>8. \A p \in publications : p.iteration \in 1..opened
  BY DEF IInv, PublicationsOK, TypeOK, Publication, Numbers
<1> HIDE DEF k
<1>9. TypeOK'
  BY <1>1, <1>2, <1>3, <1>4, <1>5, ReviewCaseAssumption DEF IInv, TypeOK, Numbers
<1>10. CaseOK'
  <2> SUFFICES ASSUME NEW i \in Numbers
               PROVE  IF i <= k THEN rows'[i].status # "absent" /\ rows'[i].requirements \in Requirements
                      ELSE rows'[i].status = "absent" /\ drafts'[i] = <<>>
    BY <1>1 DEF CaseOK
  <2>1. CASE i = k
    BY <1>1, <1>2, <2>1 DEF Continues, Numbers
  <2>2. CASE i # k
    <3>1. i <= opened <=> i <= k
      BY <1>1, <2>2 DEF k, Numbers
    <3> QED
      BY <1>2, <1>3, <2>2, <3>1 DEF IInv, CaseOK
  <2> QED
    BY <2>1, <2>2
<1>11. \A r \in Reviewers : Fresh(seen[r])'
  <2> SUFFICES ASSUME NEW r \in Reviewers PROVE Fresh(seen[r])'
    OBVIOUS
  <2>1. seen[r] \in View /\ Fresh(seen[r])
    BY DEF IInv, TypeOK
  <2>2. seen[r].iteration \in 1..opened \/ seen[r].iteration = 0
    BY <1>1, <2>1, ReviewCaseAssumption DEF Fresh, View
  <2>3. seen[r].iteration <= opened'
    BY <1>1, <2>2 DEF k
  <2> QED
    BY <1>2, <1>5, <1>7, <2>1, <2>2, <2>3 DEF Fresh
<1>12. PublicationsOK'
  <2> SUFFICES ASSUME NEW p \in publications
               PROVE  /\ p.iteration <= opened' /\ p.draft \in 1..Len(drafts'[p.iteration])
                      /\ p.request # NoRequest => requests[p.request].status = "confirmed"
    BY <1>5 DEF PublicationsOK
  <2>1. p.iteration <= opened'
    BY <1>1, <1>8 DEF k
  <2> QED
    BY <1>3, <1>7, <1>8, <2>1 DEF IInv, PublicationsOK
<1>13. HasGreatest(Published)'
  BY <1>5 DEF IInv, HasGreatest, Published
<1>14. OneChain'
  <2>1. row.predecessor = k - 1
    BY <1>1 DEF Continues, k
  <2> QED
    BY <1>1, <1>2, <1>4, <1>6, <1>7, <2>1 DEF IInv, OneChain
<1>15. NoDraftIsLost'
  <2>1. NoDraftIsLost
    BY DEF IInv
  <2>2. rows'[k].current = Len(drafts'[k]) /\ \A d \in 1..Len(drafts'[k]) : drafts'[k][d].base = d - 1
    BY <1>2, <1>3 DEF Continues
  <2>3. \A i \in 1..opened : rows'[i] = rows[i] /\ drafts'[i] = drafts[i]
    BY <1>2, <1>3, <1>7
  <2> QED
    BY <1>6, <2>1, <2>2, <2>3 DEF NoDraftIsLost
<1>16. PublishedIsComplete'
  <2>1. \A i \in Numbers : rows'[i].status = "published" <=> rows[i].status = "published"
    BY <1>1, <1>2 DEF Continues, IInv, CaseOK, k, Numbers
  <2>2. \A p \in publications : /\ drafts'[p.iteration] = drafts[p.iteration]
                                /\ rows'[p.iteration] = rows[p.iteration]
    BY <1>2, <1>3, <1>7, <1>8
  <2> QED
    BY <1>5, <2>1, <2>2 DEF IInv, PublishedIsComplete
<1>17. ConfirmedByItsPublication' /\ OutcomeMatchesGrade'
  BY <1>5 DEF IInv, ConfirmedByItsPublication, OutcomeMatchesGrade
<1>18. CorrectionStartsFromPublished'
  <2> SUFFICES ASSUME NEW i \in 1..opened', rows'[i].origin = "correction"
               PROVE  FromPublished(i)'
    BY DEF CorrectionStartsFromPublished
  <2> DEFINE s == drafts'[i][1].source
  <2>1. /\ PublishedDraft(s[1], s[2])
        /\ s[1] = rows'[i].predecessor
        /\ drafts'[i][1].decided = drafts[s[1]][s[2]].decided
    <3>1. CASE i = k
      BY <1>2, <1>3, <3>1 DEF Continues
    <3>2. CASE i \in 1..opened
      BY <1>2, <1>3, <1>7, <3>2 DEF IInv, CorrectionStartsFromPublished, FromPublished
    <3> QED
      BY <1>6, <3>1, <3>2
  <2>2. s[1] \in Numbers /\ s[1] # k
    BY <1>7, <1>8, <2>1 DEF PublishedDraft
  <2>3. drafts'[s[1]] = drafts[s[1]]
    BY <1>3, <2>2
  <2>4. \E p \in publications' : p.iteration = s[1] /\ p.draft = s[2]
    BY <1>5, <2>1 DEF PublishedDraft
  <2> QED
    BY <2>1, <2>3, <2>4 DEF FromPublished, PublishedDraft
<1>19. Begins'
  BY <1>2, <1>3, <1>6, <1>7 DEF IInv, Begins, Continues
<1> QED
  BY <1>9, <1>10, <1>11, <1>12, <1>13, <1>14, <1>15, <1>16, <1>17, <1>18, <1>19 DEF IInv

LEMMA OpenStep == ASSUME IInv, NEW v \in Versions, Open(v) PROVE IInv'
<1> DEFINE row == [status |-> "in_review", revision |-> 0, current |-> 0,
                   origin |-> IF opened = 0 THEN "initial" ELSE "resubmission",
                   predecessor |-> pointer.iteration, version |-> v,
                   requirements |-> submitted[v]]
<1>1. Extend(row, <<>>) /\ UNCHANGED Others
  BY DEF Open, Others
<1>2. /\ submitted[v] \in Requirements /\ pointer.iteration = opened
      /\ opened \in 0..MaxIterations
  BY DEF Open, IInv, TypeOK, OneChain
<1>3. row \in Row
  BY <1>2 DEF Row, Statuses, Origins
<1>4. Continues(row, <<>>)
  BY <1>2, <1>3 DEF Continues
<1> HIDE DEF row
<1> QED
  BY <1>1, <1>4, ExtendStep

\* A successor with one draft that a human or nobody wrote.
LEMMA SuccessorStep ==
    ASSUME IInv, NEW r \in Reviewers, LockedCurrent(seen[r]),
           NEW h \in Requirements, NEW draft \in Draft, draft.base = 0,
           NEW origin \in {"requirements_migration", "correction"},
           origin = "correction" =>
             /\ PublishedDraft(draft.source[1], draft.source[2])
             /\ draft.source[1] = seen[r].iteration
             /\ draft.decided = drafts[draft.source[1]][draft.source[2]].decided,
           Extend(Successor(seen[r].iteration, origin, h), <<draft>>),
           UNCHANGED Others
    PROVE  IInv'
<1> DEFINE i == seen[r].iteration
           row == Successor(i, origin, h)
<1>1. i = opened /\ i \in 1..opened /\ i \in Numbers
  BY OpenedNumbers DEF LockedCurrent, Locked, IInv, OneChain
<1>2. rows[i] \in Row
  BY <1>1 DEF IInv, TypeOK
<1>3. row \in Row /\ row.status = "in_review" /\ row.requirements = h
      /\ row.predecessor = i /\ row.current = 1 /\ row.origin = origin
  BY <1>1, <1>2, ReviewCaseAssumption DEF Successor, Row, Statuses, Origins, Numbers
<1>4. <<draft>> \in Seq(Draft) /\ Len(<<draft>>) = 1 /\ <<draft>>[1] = draft
  OBVIOUS
<1> HIDE DEF row
<1>5. Continues(row, <<draft>>)
  BY <1>1, <1>3, <1>4 DEF Continues
<1> QED
  BY <1>5, ExtendStep DEF row

LEMMA MigrateStep ==
    ASSUME IInv, NEW r \in Reviewers, NEW h \in Requirements, NEW score \in Scores,
           Migrate(r, h, score)
    PROVE  IInv'
<1> DEFINE i == seen[r].iteration
           draft == Transferred(i, h, score)
<1>1. i \in 1..opened /\ i \in Numbers
  BY OpenedNumbers DEF Migrate, LockedCurrent, Locked, IInv
<1>2. rows[i].current \in Nat /\ drafts[i] \in Seq(Draft) /\ rows[i].current = Len(drafts[i])
  BY <1>1 DEF IInv, TypeOK, Row, NoDraftIsLost
<1>3. draft \in Draft /\ draft.base = 0
  <2>1. CASE rows[i].current = 0
    BY <2>1, ReviewCaseAssumption DEF Transferred, Draft
  <2>2. CASE rows[i].current # 0
    <3>1. Current(i) \in Draft
      BY <1>2, <2>2 DEF Current
    <3>2. Current(i).decided \cap Criteria[h] \in SUBSET Keys
      BY <3>1 DEF Draft
    <3>3. <<i, rows[i].current>> \in (0..MaxIterations) \X Nat
      BY <1>1, <1>2, ReviewCaseAssumption DEF Numbers
    <3> QED
      BY <2>2, <3>2, <3>3 DEF Transferred, Draft
  <2> QED
    BY <2>1, <2>2
<1>4. /\ LockedCurrent(seen[r])
      /\ Extend(Successor(i, "requirements_migration", h), <<draft>>)
      /\ UNCHANGED Others
  BY DEF Migrate, Others
<1> HIDE DEF draft
<1> QED
  BY <1>3, <1>4, SuccessorStep

LEMMA CorrectStep ==
    ASSUME IInv, NEW r \in Reviewers, NEW p \in publications, Correct(r, p.draft)
    PROVE  IInv'
<1> DEFINE i == seen[r].iteration
           d == p.draft
           draft == Corrected(i, d)
<1>1. i \in 1..opened /\ i \in Numbers
  BY OpenedNumbers DEF Correct, LockedCurrent, Locked, IInv
<1>2. drafts[i] \in Seq(Draft) /\ d \in 1..Len(drafts[i])
  BY <1>1 DEF Correct, PublishedDraft, IInv, TypeOK, PublicationsOK
<1>3. drafts[i][d] \in Draft
  BY <1>2
<1>4. <<i, d>> \in (0..MaxIterations) \X Nat
  BY <1>1, <1>2, ReviewCaseAssumption DEF Numbers
<1>5. /\ draft \in Draft /\ draft.base = 0 /\ draft.source = <<i, d>>
      /\ draft.decided = drafts[i][d].decided
  <2>1. PICK x : x = drafts[i][d]
    OBVIOUS
  <2>2. PICK y : y = [x EXCEPT !.base = 0]
    OBVIOUS
  <2>3. y \in Draft /\ y.base = 0 /\ y.decided = x.decided
    BY <1>3, <2>1, <2>2 DEF Draft
  <2>4. draft = [y EXCEPT !.source = <<i, d>>]
    BY <2>1, <2>2, Zenon DEF Corrected
  <2> QED
    BY <1>4, <2>1, <2>3, <2>4 DEF Draft
<1>6. /\ LockedCurrent(seen[r]) /\ PublishedDraft(i, d)
      /\ Extend(Successor(i, "correction", rows[i].requirements), <<draft>>)
      /\ UNCHANGED Others
  BY DEF Correct, Others
<1>7. rows[i].requirements \in Requirements
  BY <1>1 DEF IInv, CaseOK
<1> HIDE DEF draft
<1> QED
  BY <1>3, <1>5, <1>6, <1>7, SuccessorStep

LEMMA AddRequirementStep ==
    ASSUME IInv, NEW r \in Reviewers, NEW h \in Requirements, NEW score \in Scores,
           AddRequirement(r, h, score)
    PROVE  IInv'
  BY MigrateStep DEF AddRequirement

-----------------------------------------------------------------------------
(* Changes of an iteration. *)

\* Iteration i gets its next revision, and keeps all but its status and its current
\* draft.
Touches(i) ==
    /\ rows' \in [Numbers -> Row]
    /\ rows'[i].revision = rows[i].revision + 1
    /\ rows'[i].requirements = rows[i].requirements
    /\ rows'[i].predecessor = rows[i].predecessor /\ rows'[i].origin = rows[i].origin
    /\ rows'[i].status # "absent"
    /\ \A j \in Numbers : j # i => rows'[j] = rows[j]

\* What every such change keeps, whichever drafts and publications come with it.
LEMMA TouchKept ==
    ASSUME IInv, NEW i \in 1..opened, Touches(i), drafts' = drafts \/
             (\A j \in Numbers : j # i => drafts'[j] = drafts[j]),
           UNCHANGED <<opened, pointer, seen>>
    PROVE  CaseOK' /\ (\A r \in Reviewers : Fresh(seen[r])') /\ OneChain'
<1>1. i \in Numbers /\ opened \in Nat /\ \A j \in 1..opened : j \in Numbers
  BY OpenedNumbers, ReviewCaseAssumption DEF IInv, TypeOK
<1>2. CaseOK'
  <2> SUFFICES ASSUME NEW j \in Numbers
               PROVE  IF j <= opened
                      THEN rows'[j].status # "absent" /\ rows'[j].requirements \in Requirements
                      ELSE rows'[j].status = "absent" /\ drafts'[j] = <<>>
    BY DEF CaseOK
  <2>1. CASE j = i
    BY <1>1, <2>1 DEF Touches, IInv, CaseOK
  <2>2. CASE j # i
    BY <1>1, <2>2 DEF Touches, IInv, CaseOK
  <2> QED
    BY <2>1, <2>2
<1>3. \A r \in Reviewers : Fresh(seen[r])'
  <2> SUFFICES ASSUME NEW r \in Reviewers PROVE Fresh(seen[r])'
    OBVIOUS
  <2>1. seen[r] \in View /\ Fresh(seen[r]) /\ seen'[r] = seen[r]
    BY DEF IInv, TypeOK
  <2>2. seen[r].iteration \in 1..opened \/ seen[r].iteration = 0
    BY <1>1, <2>1, ReviewCaseAssumption DEF Fresh, View
  <2>3. rows[i] \in Row
    BY <1>1 DEF IInv, TypeOK
  <2>4. CASE seen[r].iteration = i
    <3>1. seen[r].revision \in Nat /\ rows[i].revision \in Nat
      BY <2>1, <2>3 DEF View, Row
    <3>2. seen[r].revision <= rows[i].revision
      BY <2>1, <2>4 DEF Fresh
    <3>3. seen[r].revision < rows'[i].revision
      BY <3>1, <3>2 DEF Touches
    <3> QED
      BY <2>1, <2>4, <3>1, <3>3 DEF Fresh, Touches
  <2>5. CASE seen[r].iteration # i
    <3>1. seen[r].iteration # 0 => rows'[seen[r].iteration] = rows[seen[r].iteration]
      BY <1>1, <2>2, <2>5 DEF Touches
    <3> QED
      BY <2>1, <3>1 DEF Fresh
  <2> QED
    BY <2>4, <2>5
<1>4. OneChain'
  BY <1>1 DEF Touches, IInv, OneChain
<1> QED
  BY <1>2, <1>3, <1>4

\* A draft keeps its place when others are appended to its iteration.
LEMMA SaveDraftStep ==
    ASSUME IInv, NEW r \in Reviewers, NEW score \in Scores, SaveDraft(r, score)
    PROVE  IInv'
<1> DEFINE i == seen[r].iteration
           draft == [base |-> seen[r].draft, decided |-> Criteria[rows[i].requirements],
                     score |-> score, source |-> <<0, 0>>]
           row == [rows[i] EXCEPT !.current = Len(drafts[i]) + 1]
<1>1. i \in 1..opened /\ i \in Numbers /\ \A j \in 1..opened : j \in Numbers
  BY OpenedNumbers DEF SaveDraft, Locked, IInv
<1>2. /\ rows[i] \in Row /\ drafts[i] \in Seq(Draft)
      /\ rows[i].requirements \in Requirements /\ rows[i].status # "absent"
      /\ rows[i].current = Len(drafts[i])
  BY <1>1 DEF IInv, TypeOK, CaseOK, NoDraftIsLost
<1>3. seen[r].draft = Len(drafts[i]) /\ seen[r].draft \in Nat
  <2>1. rows[i].revision = seen[r].revision
    BY DEF SaveDraft, Locked
  <2>2. seen[r] \in View /\ Fresh(seen[r]) /\ i # 0
    BY <1>1 DEF IInv, TypeOK
  <2> QED
    BY <1>2, <2>1, <2>2 DEF Fresh, View
<1>4. draft \in Draft
  BY <1>2, <1>3, ReviewCaseAssumption DEF Draft, Keys
<1>5. /\ drafts' \in [Numbers -> Seq(Draft)] /\ drafts'[i] = Append(drafts[i], draft)
      /\ \A j \in Numbers : j # i => drafts'[j] = drafts[j]
  <2>1. drafts' = [drafts EXCEPT ![i] = Append(drafts[i], draft)]
    BY DEF SaveDraft
  <2>2. drafts \in [Numbers -> Seq(Draft)]
    BY DEF IInv, TypeOK
  <2> HIDE DEF draft
  <2>3. Append(drafts[i], draft) \in Seq(Draft)
    BY <1>2, <1>4
  <2> QED
    BY <1>1, <2>1, <2>2, <2>3
<1>6. /\ row \in Row /\ row.revision = rows[i].revision /\ row.status = rows[i].status
      /\ row.current = Len(drafts[i]) + 1 /\ row.requirements = rows[i].requirements
      /\ row.predecessor = rows[i].predecessor /\ row.origin = rows[i].origin
  BY <1>2 DEF Row
<1>7. Update(i, row)
      /\ UNCHANGED <<submitted, opened, pointer, publications, requests, outcome, closed, seen>>
  BY DEF SaveDraft
<1> HIDE DEF draft, row
<1>8. /\ Touches(i) /\ rows'[i].status = rows[i].status
      /\ rows'[i].current = Len(drafts[i]) + 1
  <2>1. TypeOK
    BY DEF IInv
  <2> QED
    BY <1>1, <1>2, <1>6, <1>7, <2>1, UpdateRow DEF Touches
<1>9. /\ Len(drafts'[i]) = Len(drafts[i]) + 1
      /\ \A d \in 1..Len(drafts[i]) : drafts'[i][d] = drafts[i][d]
      /\ drafts'[i][Len(drafts[i]) + 1] = draft
  BY <1>2, <1>4, <1>5
<1>10. TypeOK'
  BY <1>5, <1>7, <1>8 DEF IInv, TypeOK, Touches
<1>11. CaseOK' /\ (\A q \in Reviewers : Fresh(seen[q])') /\ OneChain'
  BY <1>1, <1>5, <1>7, <1>8, TouchKept
<1>12. \A p \in publications :
          /\ p.iteration \in Numbers /\ p.draft \in 1..Len(drafts[p.iteration])
          /\ drafts'[p.iteration][p.draft] = drafts[p.iteration][p.draft]
          /\ p.draft \in 1..Len(drafts'[p.iteration])
  <2> SUFFICES ASSUME NEW p \in publications
               PROVE  /\ p.iteration \in Numbers /\ p.draft \in 1..Len(drafts[p.iteration])
                      /\ drafts'[p.iteration][p.draft] = drafts[p.iteration][p.draft]
                      /\ p.draft \in 1..Len(drafts'[p.iteration])
    OBVIOUS
  <2>1. p.iteration \in Numbers /\ p.draft \in 1..Len(drafts[p.iteration])
    BY DEF IInv, TypeOK, PublicationsOK, Publication
  <2>2. CASE p.iteration = i
    BY <1>2, <1>9, <2>1, <2>2
  <2>3. CASE p.iteration # i
    BY <1>5, <2>1, <2>3
  <2> QED
    BY <2>1, <2>2, <2>3
<1>13. PublicationsOK' /\ HasGreatest(Published)'
  BY <1>7, <1>12 DEF IInv, PublicationsOK, HasGreatest, Published
<1>14. NoDraftIsLost'
  <2> SUFFICES ASSUME NEW j \in 1..opened
               PROVE  /\ rows'[j].current = Len(drafts'[j])
                      /\ \A d \in 1..Len(drafts'[j]) : drafts'[j][d].base = d - 1
    BY <1>7 DEF NoDraftIsLost
  <2>1. CASE j = i
    <3>1. \A d \in 1..Len(drafts[i]) : drafts'[i][d].base = d - 1
      BY <1>1, <1>9 DEF IInv, NoDraftIsLost
    <3>2. draft.base = Len(drafts[i])
      BY <1>3 DEF draft
    <3>3. \A d \in 1..(Len(drafts[i]) + 1) : d \in 1..Len(drafts[i]) \/ d = Len(drafts[i]) + 1
      BY <1>2
    <3>4. \A d \in 1..Len(drafts'[i]) : drafts'[i][d].base = d - 1
      BY <1>2, <1>9, <3>1, <3>2, <3>3
    <3> QED
      BY <1>8, <1>9, <2>1, <3>4
  <2>2. CASE j # i
    BY <1>1, <1>5, <1>8, <2>2 DEF Touches, IInv, NoDraftIsLost
  <2> QED
    BY <2>1, <2>2
<1>15. PublishedIsComplete'
  <2>1. \A j \in Numbers : /\ rows'[j].status = rows[j].status
                           /\ rows'[j].requirements = rows[j].requirements
    BY <1>8 DEF Touches
  <2> QED
    BY <1>7, <1>12, <2>1 DEF IInv, PublishedIsComplete
<1>16. ConfirmedByItsPublication' /\ OutcomeMatchesGrade'
  BY <1>7 DEF IInv, ConfirmedByItsPublication, OutcomeMatchesGrade
<1>17. CorrectionStartsFromPublished'
  <2> SUFFICES ASSUME NEW j \in 1..opened, rows'[j].origin = "correction"
               PROVE  FromPublished(j)'
    BY <1>7 DEF CorrectionStartsFromPublished
  <2>1. rows[j].origin = "correction" /\ rows'[j].predecessor = rows[j].predecessor
    BY <1>1, <1>8 DEF Touches
  <2>2. FromPublished(j)
    BY <2>1 DEF IInv, CorrectionStartsFromPublished
  <2>3. drafts'[j][1] = drafts[j][1]
    <3>1. CASE j # i
      BY <1>1, <1>5, <3>1
    <3>2. CASE j = i
      <4>1. Len(drafts[j]) # 0
        BY <1>1, <1>12, <2>1, <2>2 DEF IInv, Begins
      <4> QED
        BY <1>2, <1>9, <3>2, <4>1
    <3> QED
      BY <3>1, <3>2
  <2> DEFINE s == drafts[j][1].source
  <2>4. \E p \in publications : p.iteration = s[1] /\ p.draft = s[2]
    BY <2>2 DEF FromPublished, PublishedDraft
  <2>5. drafts'[s[1]][s[2]] = drafts[s[1]][s[2]]
    BY <1>12, <2>4
  <2> QED
    BY <1>7, <2>1, <2>2, <2>3, <2>4, <2>5 DEF FromPublished, PublishedDraft
<1>18. Begins'
  BY <1>1, <1>2, <1>5, <1>7, <1>8, <1>9 DEF IInv, Begins, Touches
<1> QED
  BY <1>10, <1>11, <1>13, <1>14, <1>15, <1>16, <1>17, <1>18 DEF IInv

\* An outcome is saved only while nothing is published.
LEMMA SaveOutcomeStep ==
    ASSUME IInv, NEW i \in Numbers, NEW o \in Decisions, SaveOutcome(i, o)
    PROVE  IInv'
<1>1. i \in 1..opened /\ rows[i].status = "in_review" /\ Update(i, rows[i])
      /\ outcome' = [outcome EXCEPT ![i] = o]
      /\ UNCHANGED <<submitted, opened, pointer, drafts, publications, requests, closed, seen>>
  BY DEF SaveOutcome, Editable
<1>2. rows[i] \in Row /\ TypeOK /\ \A j \in 1..opened : j \in Numbers
  BY OpenedNumbers DEF IInv, TypeOK
<1>3. /\ Touches(i) /\ rows'[i].status = "in_review" /\ rows'[i].current = rows[i].current
  BY <1>1, <1>2, UpdateRow DEF Touches
<1>4. TypeOK'
  BY <1>1, <1>3, ReviewCaseAssumption DEF IInv, TypeOK, Touches
<1>5. CaseOK' /\ (\A q \in Reviewers : Fresh(seen[q])') /\ OneChain'
  BY <1>1, <1>3, TouchKept
<1>6. PublicationsOK' /\ HasGreatest(Published)' /\ ConfirmedByItsPublication'
  BY <1>1 DEF IInv, PublicationsOK, HasGreatest, Published, ConfirmedByItsPublication
<1>7. \A j \in Numbers : /\ rows'[j].status = rows[j].status /\ rows'[j].current = rows[j].current
                         /\ rows'[j].requirements = rows[j].requirements
                         /\ rows'[j].origin = rows[j].origin
                         /\ rows'[j].predecessor = rows[j].predecessor
  BY <1>1, <1>3 DEF Touches
<1>8. NoDraftIsLost' /\ Begins'
  BY <1>1, <1>2, <1>7 DEF IInv, NoDraftIsLost, Begins
<1>9. PublishedIsComplete'
  <2>1. PublishedIsComplete /\ \A p \in publications : p.iteration \in Numbers
    BY DEF IInv, TypeOK, Publication
  <2> QED
    BY <1>1, <1>7, <2>1 DEF PublishedIsComplete
<1>10. OutcomeMatchesGrade'
  <2>1. \A p \in publications : p.iteration # i /\ p.iteration \in Numbers
    BY <1>1 DEF IInv, PublishedIsComplete, TypeOK, Publication
  <2>2. \A p \in publications : outcome'[p.iteration] = outcome[p.iteration]
    BY <1>1, <2>1 DEF IInv, TypeOK
  <2> QED
    BY <1>1, <2>2 DEF IInv, OutcomeMatchesGrade
<1>11. CorrectionStartsFromPublished'
  BY <1>1, <1>2, <1>7 DEF IInv, CorrectionStartsFromPublished, FromPublished, PublishedDraft
<1> QED
  BY <1>4, <1>5, <1>6, <1>8, <1>9, <1>10, <1>11 DEF IInv

-----------------------------------------------------------------------------
(* Publications. *)

\* Iteration i, the current one, has just got its publication p.
Publishes(i, p) ==
    /\ p \in Publication /\ p.iteration = i
    /\ i = opened /\ rows[i].status = "in_review"
    /\ p.draft \in 1..Len(drafts[i])
    /\ drafts[i][p.draft].decided = Criteria[rows[i].requirements]
    /\ publications' = publications \cup {p}
    /\ Touches(i) /\ rows'[i].status = "published" /\ rows'[i].current = rows[i].current

\* What a publication does, through whichever route it comes.
LEMMA PublishLockedFacts ==
    ASSUME IInv, NEW r \in Reviewers, NEW q \in Requests \cup {NoRequest},
           NEW passed \in {"none", "yes", "no"}, PublishLocked(r, q, passed)
    PROVE  /\ seen[r].iteration \in 1..opened
           /\ Publishes(seen[r].iteration,
                        [iteration |-> seen[r].iteration, draft |-> seen[r].draft,
                         request |-> q, passed |-> passed])
<1> DEFINE i == seen[r].iteration
           d == seen[r].draft
           p == [iteration |-> i, draft |-> d, request |-> q, passed |-> passed]
           row == [rows[i] EXCEPT !.status = "published"]
<1>1. /\ i \in 1..opened /\ i = opened /\ i \in Numbers
      /\ rows[i].status = "in_review" /\ d # 0 /\ rows[i].current = d
      /\ drafts[i][d].decided = Criteria[rows[i].requirements]
      /\ publications' = publications \cup {p}
      /\ Update(i, row)
  BY OpenedNumbers DEF PublishLocked, LockedCurrent, Locked, Editable, Complete, IInv, OneChain
<1>2. rows[i] \in Row /\ drafts[i] \in Seq(Draft) /\ rows[i].current = Len(drafts[i])
  BY <1>1 DEF IInv, TypeOK, NoDraftIsLost
<1>3. d \in Nat /\ d \in 1..Len(drafts[i])
  BY <1>1, <1>2
<1>4. p \in Publication
  BY <1>1, <1>3 DEF Publication
<1>5. /\ row \in Row /\ row.status = "published" /\ row.revision = rows[i].revision
      /\ row.current = rows[i].current /\ row.requirements = rows[i].requirements
      /\ row.predecessor = rows[i].predecessor /\ row.origin = rows[i].origin
  BY <1>2 DEF Row, Statuses
<1> HIDE DEF row
<1>6. Touches(i) /\ rows'[i].status = "published" /\ rows'[i].current = rows[i].current
  <2>1. TypeOK
    BY DEF IInv
  <2> QED
    BY <1>1, <1>5, <2>1, UpdateRow DEF Touches
<1> QED
  BY <1>1, <1>3, <1>4, <1>6 DEF Publishes

\* Everything but the requests and the outcomes, whichever route it comes through.
LEMMA PublishesKept ==
    ASSUME IInv, NEW i \in 1..opened, NEW p, Publishes(i, p),
           UNCHANGED <<submitted, opened, pointer, drafts, closed, seen>>,
           \A q \in Requests : requests[q].status = "confirmed" => requests'[q] = requests[q],
           p.request # NoRequest => requests'[p.request].status = "confirmed"
    PROVE  /\ CaseOK' /\ (\A r \in Reviewers : Fresh(seen[r])') /\ OneChain'
           /\ PublicationsOK' /\ HasGreatest(Published)' /\ NoDraftIsLost' /\ Begins'
           /\ PublishedIsComplete' /\ CorrectionStartsFromPublished'
<1>1. /\ i \in Numbers /\ opened \in Nat /\ \A j \in 1..opened : j \in Numbers
      /\ publications' = publications \cup {p} /\ p.iteration = i /\ i = opened
      /\ Touches(i) /\ rows'[i].status = "published" /\ rows'[i].current = rows[i].current
  <2>1. TypeOK
    BY DEF IInv
  <2>2. opened \in Nat /\ \A j \in 1..opened : j \in Numbers
    BY <2>1, OpenedNumbers, ReviewCaseAssumption DEF TypeOK
  <2> QED
    BY <2>2 DEF Publishes
<1>2. CaseOK' /\ (\A r \in Reviewers : Fresh(seen[r])') /\ OneChain'
  BY <1>1, TouchKept
<1>3. \A x \in publications : /\ x.iteration \in Numbers /\ x.iteration <= opened
                              /\ x.request \in Requests \cup {NoRequest}
  BY DEF IInv, TypeOK, Publication, PublicationsOK
<1>4. PublicationsOK'
  <2> SUFFICES ASSUME NEW x \in publications'
               PROVE  /\ x.iteration <= opened /\ x.draft \in 1..Len(drafts[x.iteration])
                      /\ x.request # NoRequest => requests'[x.request].status = "confirmed"
    BY DEF PublicationsOK
  <2>1. CASE x = p
    BY <1>1, <2>1 DEF Publishes
  <2>2. CASE x \in publications
    BY <1>3, <2>2 DEF IInv, PublicationsOK
  <2> QED
    BY <1>1, <2>1, <2>2
<1>5. HasGreatest(Published)'
  <2>1. \A m \in Published' : m <= i
    BY <1>1, <1>3 DEF Published, Numbers
  <2>2. i \in Published'
    BY <1>1 DEF Published
  <2> QED
    BY <2>1, <2>2 DEF HasGreatest
<1>6. \A j \in Numbers : /\ rows'[j].current = rows[j].current
                         /\ rows'[j].requirements = rows[j].requirements
                         /\ rows'[j].origin = rows[j].origin
                         /\ rows'[j].predecessor = rows[j].predecessor
                         /\ j # i => rows'[j].status = rows[j].status
  BY <1>1 DEF Touches
<1>7. NoDraftIsLost' /\ Begins'
  BY <1>1, <1>6 DEF IInv, NoDraftIsLost, Begins
<1>8. PublishedIsComplete'
  <2>1. ASSUME NEW j \in Numbers
        PROVE  rows'[j].status = "published" <=> \E x \in publications' : x.iteration = j
    <3>1. CASE j = i
      BY <1>1, <3>1
    <3>2. CASE j # i
      BY <1>1, <1>6, <3>2 DEF IInv, PublishedIsComplete
    <3> QED
      BY <3>1, <3>2
  <2>2. ASSUME NEW x \in publications'
        PROVE  drafts[x.iteration][x.draft].decided = Criteria[rows'[x.iteration].requirements]
    <3>1. CASE x = p
      BY <1>1, <1>6, <3>1 DEF Publishes
    <3>2. CASE x \in publications
      BY <1>3, <1>6, <3>2 DEF IInv, PublishedIsComplete
    <3> QED
      BY <1>1, <3>1, <3>2
  <2> QED
    BY <2>1, <2>2 DEF PublishedIsComplete
<1>9. CorrectionStartsFromPublished'
  <2> SUFFICES ASSUME NEW j \in 1..opened, rows'[j].origin = "correction"
               PROVE  FromPublished(j)'
    BY DEF CorrectionStartsFromPublished
  <2>1. FromPublished(j) /\ rows'[j].predecessor = rows[j].predecessor
    BY <1>1, <1>6 DEF IInv, CorrectionStartsFromPublished
  <2> QED
    BY <1>1, <2>1 DEF FromPublished, PublishedDraft
<1> QED
  BY <1>2, <1>4, <1>5, <1>7, <1>8, <1>9

LEMMA PublishStep ==
    ASSUME IInv, NEW r \in Reviewers, NEW q \in Requests \cup {NoRequest}, Publish(r, q)
    PROVE  IInv'
<1> DEFINE i == seen[r].iteration
           p == [iteration |-> i, draft |-> seen[r].draft, request |-> q, passed |-> "none"]
<1>1. i \in 1..opened /\ Publishes(i, p)
  BY PublishLockedFacts DEF Publish
<1>2. /\ UNCHANGED <<submitted, opened, pointer, drafts, outcome, closed, seen>>
      /\ \/ q = NoRequest /\ requests' = requests
         \/ /\ q # NoRequest /\ q \in Requests /\ Confirmable(q, i, seen[r].draft)
            /\ requests' = [requests EXCEPT ![q].status = "confirmed"]
  BY DEF Publish
<1>3. requests \in [Requests -> Request]
  BY DEF IInv, TypeOK
<1>4. /\ requests' \in [Requests -> Request]
      /\ \A x \in Requests : requests[x].status = "confirmed" => requests'[x] = requests[x]
      /\ \A x \in Requests : /\ x # q => requests'[x] = requests[x]
                             /\ requests'[x].iteration = requests[x].iteration
                             /\ requests'[x].draft = requests[x].draft
      /\ q # NoRequest => /\ requests'[q].status = "confirmed"
                          /\ requests[q].status = "pending" /\ requests[q].iteration = i
                          /\ requests[q].draft = seen[r].draft
  <2>1. CASE q = NoRequest /\ requests' = requests
    BY <1>3, <2>1
  <2>2. CASE /\ q # NoRequest /\ q \in Requests /\ Confirmable(q, i, seen[r].draft)
             /\ requests' = [requests EXCEPT ![q].status = "confirmed"]
    <3>1. /\ requests[q].status = "pending" /\ requests[q].iteration = i
          /\ requests[q].draft = seen[r].draft
      BY <2>2 DEF Confirmable
    <3> QED
      BY <1>3, <2>2, <3>1 DEF Request
  <2> QED
    BY <1>2, <2>1, <2>2
<1>5. p.request = q /\ p.iteration = i /\ p.draft = seen[r].draft /\ p.passed = "none"
      /\ publications' = publications \cup {p} /\ p \in Publication
  BY <1>1 DEF Publishes
<1> HIDE DEF p
<1>6. TypeOK'
  <2>1. rows' \in [Numbers -> Row]
    BY <1>1 DEF Publishes, Touches
  <2> QED
    BY <1>2, <1>4, <1>5, <2>1 DEF IInv, TypeOK
<1>7. /\ CaseOK' /\ (\A x \in Reviewers : Fresh(seen[x])') /\ OneChain'
      /\ PublicationsOK' /\ HasGreatest(Published)' /\ NoDraftIsLost' /\ Begins'
      /\ PublishedIsComplete' /\ CorrectionStartsFromPublished'
  BY <1>1, <1>2, <1>4, <1>5, PublishesKept
<1>8. OutcomeMatchesGrade'
  BY <1>2, <1>5 DEF IInv, OutcomeMatchesGrade
<1>9. ConfirmedByItsPublication'
  <2>1. ASSUME NEW x \in Requests, requests'[x].status = "confirmed"
        PROVE  \E y \in publications' : /\ y.request = x /\ y.iteration = requests'[x].iteration
                                        /\ y.draft = requests'[x].draft
    <3>1. CASE x = q /\ q # NoRequest
      BY <1>4, <1>5, <3>1
    <3>2. CASE x # q \/ q = NoRequest
      <4>1. requests'[x] = requests[x]
        BY <1>2, <1>4, <3>2
      <4> QED
        BY <1>5, <2>1, <4>1 DEF IInv, ConfirmedByItsPublication
    <3> QED
      BY <3>1, <3>2
  <2>2. ASSUME NEW y \in publications, y.request = q PROVE q = NoRequest
    BY <1>4, <2>2 DEF IInv, PublicationsOK
  <2>3. \A y1, y2 \in publications' : y1.request = y2.request => y1.request = NoRequest \/ y1 = y2
    BY <1>5, <2>2 DEF IInv, ConfirmedByItsPublication
  <2> QED
    BY <2>1, <2>3 DEF ConfirmedByItsPublication
<1> QED
  BY <1>6, <1>7, <1>8, <1>9 DEF IInv

LEMMA PublishGradedStep ==
    ASSUME IInv, NEW r \in Reviewers, NEW b \in BOOLEAN, PublishGraded(r, b)
    PROVE  IInv'
<1> DEFINE i == seen[r].iteration
           passes == Passes(drafts[i][seen[r].draft], b)
           grade == IF passes THEN "yes" ELSE "no"
           p == [iteration |-> i, draft |-> seen[r].draft, request |-> NoRequest,
                 passed |-> grade]
<1>1. /\ PublishLocked(r, NoRequest, grade) /\ OutcomeFits(outcome[i], passes)
      /\ outcome' = IF outcome[i] # "none" THEN outcome
                    ELSE [outcome EXCEPT ![i] = IF passes THEN "passed" ELSE "failed"]
      /\ UNCHANGED <<submitted, opened, pointer, drafts, requests, closed, seen>>
  BY DEF PublishGraded
<1>2. grade \in {"none", "yes", "no"}
  OBVIOUS
<1>3. i \in 1..opened /\ i \in Numbers /\ Publishes(i, p)
  BY <1>1, <1>2, PublishLockedFacts, OpenedNumbers DEF IInv
<1>4. /\ p.request = NoRequest /\ p.iteration = i /\ p.passed = grade
      /\ publications' = publications \cup {p} /\ p \in Publication
  BY <1>3 DEF Publishes
<1> HIDE DEF p
<1>5. /\ outcome' \in [Numbers -> {"none"} \cup Decisions \cup {"passed", "failed"}]
      /\ \A j \in Numbers : j # i => outcome'[j] = outcome[j]
      /\ grade = "no" => outcome'[i] # "passed"
      /\ grade = "yes" => outcome'[i] # "failed"
  <2>1. outcome \in [Numbers -> {"none"} \cup Decisions \cup {"passed", "failed"}]
    BY DEF IInv, TypeOK
  <2>2. CASE outcome[i] # "none"
    BY <1>1, <2>1, <2>2 DEF OutcomeFits
  <2>3. CASE outcome[i] = "none"
    BY <1>1, <1>3, <2>1, <2>3
  <2> QED
    BY <2>2, <2>3
<1>6. TypeOK'
  <2>1. rows' \in [Numbers -> Row]
    BY <1>3 DEF Publishes, Touches
  <2> QED
    BY <1>1, <1>4, <1>5, <2>1 DEF IInv, TypeOK
<1>7. /\ CaseOK' /\ (\A x \in Reviewers : Fresh(seen[x])') /\ OneChain'
      /\ PublicationsOK' /\ HasGreatest(Published)' /\ NoDraftIsLost' /\ Begins'
      /\ PublishedIsComplete' /\ CorrectionStartsFromPublished'
  BY <1>1, <1>3, <1>4, PublishesKept
<1> HIDE DEF grade
<1>8. OutcomeMatchesGrade'
  <2>1. \A x \in publications : x.iteration \in Numbers /\ x.iteration # i
    BY <1>3 DEF IInv, TypeOK, Publication, PublishedIsComplete, Publishes
  <2>2. OutcomeMatchesGrade
    BY DEF IInv
  <2>3. ASSUME NEW x \in publications'
        PROVE  /\ x.passed = "no" => outcome'[x.iteration] # "passed"
               /\ x.passed = "yes" => outcome'[x.iteration] # "failed"
    <3>1. CASE x = p
      BY <1>4, <1>5, <3>1
    <3>2. CASE x \in publications
      BY <1>5, <2>1, <2>2, <3>2 DEF OutcomeMatchesGrade
    <3> QED
      BY <1>4, <3>1, <3>2
  <2> QED
    BY <2>3 DEF OutcomeMatchesGrade
<1>9. ConfirmedByItsPublication'
  <2>1. ConfirmedByItsPublication
    BY DEF IInv
  <2> QED
    BY <1>1, <1>4, <2>1 DEF ConfirmedByItsPublication
<1> QED
  BY <1>6, <1>7, <1>8, <1>9 DEF IInv

-----------------------------------------------------------------------------
(* Steps that leave iterations, drafts and publications alone. *)

LEMMA CaseKept ==
    ASSUME IInv, UNCHANGED <<opened, pointer, rows, drafts, publications>>
    PROVE  /\ CaseOK' /\ HasGreatest(Published)' /\ Begins' /\ OneChain' /\ NoDraftIsLost'
           /\ PublishedIsComplete' /\ CorrectionStartsFromPublished'
<1>1. CaseOK' /\ HasGreatest(Published)' /\ Begins' /\ OneChain' /\ NoDraftIsLost'
  BY DEF IInv, CaseOK, HasGreatest, Published, Begins, OneChain, NoDraftIsLost
<1>2. PublishedIsComplete'
  BY DEF IInv, PublishedIsComplete
<1>3. CorrectionStartsFromPublished'
  BY DEF IInv, CorrectionStartsFromPublished, FromPublished, PublishedDraft
<1> QED
  BY <1>1, <1>2, <1>3

LEMMA RequestStep ==
    ASSUME IInv, NEW q \in Requests,
           (\E r \in Reviewers : RequestPublication(r, q)) \/ Expire(q)
    PROVE  IInv'
<1>1. /\ UNCHANGED <<submitted, opened, pointer, rows, drafts, publications, outcome,
                    closed, seen>>
      /\ requests[q].status \in {"absent", "pending"}
      /\ requests' \in [Requests -> Request]
      /\ requests'[q].status # "confirmed"
      /\ \A x \in Requests : x # q => requests'[x] = requests[x]
  <2>1. requests \in [Requests -> Request]
    BY DEF IInv, TypeOK
  <2>2. CASE \E r \in Reviewers : RequestPublication(r, q)
    <3>1. PICK r \in Reviewers : RequestPublication(r, q)
      BY <2>2
    <3>2. seen[r] \in View
      BY DEF IInv, TypeOK
    <3>3. [status |-> "pending", iteration |-> seen[r].iteration, draft |-> seen[r].draft,
           expired |-> FALSE] \in Request
      BY <3>2 DEF View, Request
    <3> QED
      BY <2>1, <3>1, <3>3 DEF RequestPublication, caseVars
  <2>3. CASE Expire(q)
    BY <2>1, <2>3 DEF Expire, caseVars, Request
  <2> QED
    BY <2>2, <2>3
<1>2. TypeOK'
  BY <1>1 DEF IInv, TypeOK
<1>3. PublicationsOK'
  <2>1. \A p \in publications : p.request # NoRequest =>
          /\ p.request \in Requests
          /\ requests[p.request].status = "confirmed"
    BY DEF IInv, TypeOK, Publication, PublicationsOK
  <2>2. \A p \in publications : p.request # NoRequest => requests'[p.request].status = "confirmed"
    BY <1>1, <2>1
  <2> QED
    BY <1>1, <2>2 DEF IInv, PublicationsOK
<1>4. ConfirmedByItsPublication'
  <2>1. \A x \in Requests : requests'[x].status = "confirmed" => requests'[x] = requests[x]
    BY <1>1
  <2>2. ConfirmedByItsPublication
    BY DEF IInv
  <2> QED
    BY <1>1, <2>1, <2>2 DEF ConfirmedByItsPublication
<1>5. (\A r \in Reviewers : Fresh(seen[r])') /\ OutcomeMatchesGrade'
  BY <1>1 DEF IInv, Fresh, OutcomeMatchesGrade
<1> QED
  BY <1>1, <1>2, <1>3, <1>4, <1>5, CaseKept DEF IInv

LEMMA LookStep == ASSUME IInv, NEW r \in Reviewers, NEW i \in Numbers, Look(r, i) PROVE IInv'
<1>1. /\ i \in 1..opened
      /\ seen' = [seen EXCEPT ![r] = [iteration |-> i, revision |-> rows[i].revision,
                                     draft |-> rows[i].current]]
      /\ UNCHANGED <<submitted, opened, pointer, rows, drafts, publications, requests,
                     outcome, closed>>
  BY DEF Look, caseVars
<1>2. rows[i] \in Row
  BY DEF IInv, TypeOK
<1>3. [iteration |-> i, revision |-> rows[i].revision, draft |-> rows[i].current] \in View
  BY <1>2, ReviewCaseAssumption DEF View, Row, Numbers
<1>4. TypeOK'
  BY <1>1, <1>3 DEF IInv, TypeOK
<1>5. \A x \in Reviewers : Fresh(seen[x])'
  <2> SUFFICES ASSUME NEW x \in Reviewers PROVE Fresh(seen[x])'
    OBVIOUS
  <2>1. CASE x = r
    <3>1. seen'[x] = [iteration |-> i, revision |-> rows[i].revision, draft |-> rows[i].current]
      BY <1>1, <2>1 DEF IInv, TypeOK
    <3>2. opened \in Nat /\ rows[i].revision \in Nat
      BY <1>2, ReviewCaseAssumption DEF IInv, TypeOK, Row
    <3> QED
      BY <1>1, <3>1, <3>2 DEF Fresh
  <2>2. CASE x # r
    <3>1. seen'[x] = seen[x]
      BY <1>1, <2>2 DEF IInv, TypeOK
    <3> QED
      BY <1>1, <3>1 DEF IInv, Fresh
  <2> QED
    BY <2>1, <2>2
<1>6. PublicationsOK' /\ ConfirmedByItsPublication' /\ OutcomeMatchesGrade'
  BY <1>1 DEF IInv, PublicationsOK, ConfirmedByItsPublication, OutcomeMatchesGrade
<1> QED
  BY <1>1, <1>4, <1>5, <1>6, CaseKept DEF IInv

LEMMA OutsideStep ==
    ASSUME IInv, \/ \E v \in Versions, h \in Requirements : Submit(v, h)
                 \/ \E w \in Archivable : SetStatus(w)
                 \/ UNCHANGED vars
    PROVE  IInv'
<1>1. /\ UNCHANGED <<opened, pointer, rows, drafts, publications, requests, outcome, seen>>
      /\ submitted' \in [Versions -> Requirements \cup {NotSubmitted}]
      /\ closed' \subseteq {"course", "run"}
  <2>1. /\ submitted \in [Versions -> Requirements \cup {NotSubmitted}]
        /\ closed \subseteq {"course", "run"}
    BY DEF IInv, TypeOK
  <2>2. CASE \E v \in Versions, h \in Requirements : Submit(v, h)
    BY <2>1, <2>2 DEF Submit, caseVars
  <2>3. CASE \E w \in Archivable : SetStatus(w)
    BY <2>1, <2>3, ReviewCaseAssumption DEF SetStatus, caseVars
  <2>4. CASE UNCHANGED vars
    BY <2>1, <2>4 DEF vars, caseVars
  <2> QED
    BY <2>2, <2>3, <2>4
<1>2. TypeOK'
  BY <1>1 DEF IInv, TypeOK
<1>3. PublicationsOK' /\ ConfirmedByItsPublication' /\ OutcomeMatchesGrade'
  BY <1>1 DEF IInv, PublicationsOK, ConfirmedByItsPublication, OutcomeMatchesGrade
<1>4. \A r \in Reviewers : Fresh(seen[r])'
  BY <1>1 DEF IInv, Fresh
<1> QED
  BY <1>1, <1>2, <1>3, <1>4, CaseKept DEF IInv

LEMMA NextIInv == IInv /\ [Next]_vars => IInv'
<1> SUFFICES ASSUME IInv, [Next]_vars PROVE IInv'
  OBVIOUS
<1>1. CASE \E v \in Versions : Open(v)
  BY <1>1, OpenStep
<1>2. CASE \E r \in Reviewers, i \in Numbers : Look(r, i)
  BY <1>2, LookStep
<1>3. CASE \E r \in Reviewers, s \in Scores : SaveDraft(r, s)
  BY <1>3, SaveDraftStep
<1>4. CASE \E i \in Numbers, o \in Decisions : SaveOutcome(i, o)
  BY <1>4, SaveOutcomeStep
<1>5. CASE \E r \in Reviewers, q \in Requests : RequestPublication(r, q)
  BY <1>5, RequestStep
<1>6. CASE \E q \in Requests : Expire(q)
  BY <1>6, RequestStep
<1>7. CASE \E r \in Reviewers, q \in Requests \cup {NoRequest} : Publish(r, q)
  BY <1>7, PublishStep
<1>8. CASE \E r \in Reviewers, b \in BOOLEAN : PublishGraded(r, b)
  BY <1>8, PublishGradedStep
<1>9. CASE \E r \in Reviewers, h \in Requirements, s \in Scores : Migrate(r, h, s)
  BY <1>9, MigrateStep
<1>10. CASE \E r \in Reviewers, h \in Requirements, s \in Scores : AddRequirement(r, h, s)
  BY <1>10, AddRequirementStep
<1>11. CASE \E r \in Reviewers, p \in publications : Correct(r, p.draft)
  BY <1>11, CorrectStep
<1>12. CASE \/ \E v \in Versions, h \in Requirements : Submit(v, h)
            \/ \E w \in Archivable : SetStatus(w)
            \/ UNCHANGED vars
  BY <1>12, OutsideStep
<1> QED
  BY <1>1, <1>2, <1>3, <1>4, <1>5, <1>6, <1>7, <1>8, <1>9, <1>10, <1>11, <1>12
  DEF Next, ReviewNext

-----------------------------------------------------------------------------
\* The inductive invariant holds in every reachable state.
THEOREM Invariance == Spec => []IInv
<1>1. Init => IInv
  BY InitIInv
<1>2. IInv /\ [Next]_vars => IInv'
  BY NextIInv
<1> QED
  BY <1>1, <1>2, PTL DEF Spec

\* Every variable of the review case stays in its set.
THEOREM TypeCorrect == Spec => []TypeOK
<1>1. IInv => TypeOK
  BY DEF IInv
<1> QED
  BY <1>1, Invariance, PTL

\* The iterations of a case are one chain that its pointer ends.
THEOREM IterationsFormOneChain == Spec => []OneChain
<1>1. IInv => OneChain
  BY DEF IInv
<1> QED
  BY <1>1, Invariance, PTL

\* No draft overwrites one its author had not seen.
THEOREM NoLostUpdate == Spec => []NoDraftIsLost
<1>1. IInv => NoDraftIsLost
  BY DEF IInv
<1> QED
  BY <1>1, Invariance, PTL

\* Students only get complete reviews.
THEOREM PublicationsAreComplete == Spec => []PublishedIsComplete
<1>1. IInv => PublishedIsComplete
  BY DEF IInv
<1> QED
  BY <1>1, Invariance, PTL

\* A request is confirmed by the publication of its draft.
THEOREM Confirmed == Spec => []ConfirmedByItsPublication
<1>1. IInv => ConfirmedByItsPublication
  BY DEF IInv
<1> QED
  BY <1>1, Invariance, PTL

\* Outcome and published grade do not contradict each other.
THEOREM OutcomeAndGradeAgree == Spec => []OutcomeMatchesGrade
<1>1. IInv => OutcomeMatchesGrade
  BY DEF IInv
<1> QED
  BY <1>1, Invariance, PTL

\* A correction starts from the published draft.
THEOREM CorrectionsStartFromPublished == Spec => []CorrectionStartsFromPublished
<1>1. IInv => CorrectionStartsFromPublished
  BY DEF IInv
<1> QED
  BY <1>1, Invariance, PTL

-----------------------------------------------------------------------------
(* Refinement: a step publishes, and adds one result later than all before, or *)
(* leaves the history alone.                                                    *)

LEMMA GreatestOf ==
    ASSUME NEW S \in SUBSET Nat, NEW n \in S, \A m \in S : m <= n
    PROVE  Greatest(S) = n
<1>1. \A k \in S : (\A m \in S : m <= k) => k = n
  OBVIOUS
<1> QED
  BY <1>1 DEF Greatest

LEMMA PublishesAdds ==
    ASSUME IInv, NEW i \in 1..opened, NEW p, Publishes(i, p)
    PROVE  History!Next
<1>1. /\ p.iteration = i /\ i = opened /\ publications' = publications \cup {p}
      /\ opened \in Nat /\ i \in Numbers /\ rows[i].status = "in_review"
  <2>1. TypeOK
    BY DEF IInv
  <2>2. opened \in Nat /\ i \in Numbers
    BY <2>1, OpenedNumbers, ReviewCaseAssumption DEF TypeOK
  <2> QED
    BY <2>2 DEF Publishes
<1>2. \A x \in publications : x.iteration \in Nat /\ x.iteration < i
  <2> SUFFICES ASSUME NEW x \in publications PROVE x.iteration \in Nat /\ x.iteration < i
    OBVIOUS
  <2>1. x.iteration \in Numbers /\ x.iteration <= opened
    BY DEF IInv, TypeOK, Publication, PublicationsOK
  <2>2. x.iteration # i
    BY <1>1, <2>1 DEF IInv, PublishedIsComplete
  <2> QED
    BY <1>1, <2>1, <2>2, ReviewCaseAssumption DEF Numbers
<1>3. Greatest(Published') = i
  <2>1. Published' \subseteq Nat /\ i \in Published' /\ \A m \in Published' : m <= i
    BY <1>1, <1>2 DEF Published
  <2> QED
    BY <2>1, GreatestOf
<1>4. Greatest(Published) < i
  <2>1. CASE Published = {}
    BY <1>1, <2>1 DEF Greatest
  <2>2. CASE Published # {}
    <3>1. PICK n \in Published : \A m \in Published : m <= n
      BY <2>2 DEF IInv, HasGreatest
    <3>2. Published \in SUBSET Nat /\ n < i
      BY <1>2 DEF Published
    <3>3. Greatest(Published) = n
      BY <3>1, <3>2, GreatestOf
    <3> QED
      BY <3>2, <3>3
  <2> QED
    BY <2>1, <2>2
<1> DEFINE x == <<i, p.draft>>
           results == {<<y.iteration, y.draft>> : y \in publications}
<1>5. /\ x \in {<<y.iteration, y.draft>> : y \in publications'}
      /\ {<<y.iteration, y.draft>> : y \in publications'} = results \cup {x}
      /\ x[1] = i
  BY <1>1
<1> QED
  BY <1>3, <1>4, <1>5 DEF History!Next, History!Add, Published

LEMMA HistoryStep == IInv /\ [Next]_vars => History!Next \/ publications' = publications
<1> SUFFICES ASSUME IInv, [Next]_vars PROVE History!Next \/ publications' = publications
  OBVIOUS
<1>1. CASE \E r \in Reviewers, q \in Requests \cup {NoRequest} : Publish(r, q)
  <2>1. PICK r \in Reviewers : \E q \in Requests \cup {NoRequest} : PublishLocked(r, q, "none")
    BY <1>1 DEF Publish
  <2>2. PICK q \in Requests \cup {NoRequest} : PublishLocked(r, q, "none")
    BY <2>1
  <2> QED
    BY <2>2, PublishLockedFacts, PublishesAdds
<1>2. CASE \E r \in Reviewers, b \in BOOLEAN : PublishGraded(r, b)
  <2>1. PICK r \in Reviewers : \E b \in BOOLEAN : PublishGraded(r, b)
    BY <1>2
  <2>2. PICK g \in {"none", "yes", "no"} : PublishLocked(r, NoRequest, g)
    BY <2>1 DEF PublishGraded
  <2> QED
    BY <2>2, PublishLockedFacts, PublishesAdds
<1>3. CASE /\ ~\E r \in Reviewers, q \in Requests \cup {NoRequest} : Publish(r, q)
           /\ ~\E r \in Reviewers, b \in BOOLEAN : PublishGraded(r, b)
  BY <1>3
  DEF Next, ReviewNext, vars, Open, Look, SaveDraft, SaveOutcome, RequestPublication, Expire,
      Migrate, AddRequirement, Correct, SetStatus, Submit
<1> QED
  BY <1>1, <1>2, <1>3

\* Every behaviour of the review case is one of the abstract history.
THEOREM ImplementsHistory == Spec => KeepsHistory
<1>1. Init => History!Init
  <2> SUFFICES ASSUME Init PROVE History!Init
    OBVIOUS
  <2>1. Published = {}
    BY DEF Init, Published
  <2> QED
    BY <2>1 DEF Init, History!Init, Published, Greatest
<1>2. IInv /\ [Next]_vars => [History!Next]_<<{<<p.iteration, p.draft>> : p \in publications},
                                             Greatest({p.iteration : p \in publications})>>
  BY HistoryStep
<1> QED
  BY <1>1, <1>2, Invariance, PTL DEF Spec, KeepsHistory, History!Spec
-----------------------------------------------------------------------------
(* The composition with the publication of requirements.                   *)

\* Publications, their events and the impacts fit together: an event that was
\* consumed has flagged what was affected, and one that announces requirements
\* for the first time is not refused while they are current.
ImpactsOK ==
    /\ history \in Seq(Publications) /\ Now <= MaxPublications
    /\ events \in [1..MaxPublications -> {"none", "sent", "consumed", "refused"}]
    /\ impacts \subseteq Impact
    /\ \A n \in 1..Now : events[n] # "none" /\ history[n].existed <= opened
    /\ \A x \in impacts : x.event \in 2..Now /\ x.version = history[x.event].version
    /\ \A n \in 2..Now : events[n] = "consumed" =>
        \A i \in 1..history[n].existed : i \in Affected(n) => Flagged(i, history[n].version)
    /\ \A n \in 1..Now : n = Now /\ Changes(n) /\ FirstTime(n) => events[n] # "refused"

\* A review is flagged for requirements at most once, and never for its own.
FlagsAreTrue ==
    /\ \A x \in impacts : x.iteration \in 1..opened /\ rows[x.iteration].requirements # x.version
    /\ \A x, y \in impacts : x.iteration = y.iteration /\ x.version = y.version => x = y

\* A review that was open when its requirements changed is flagged, or the event
\* that will flag it is still on its way, as long as the change is current.
UnmarkedIsOnItsWay ==
    \A n \in 1..Now : n = Now /\ Changes(n) /\ FirstTime(n) =>
        \A i \in 1..history[n].existed :
            i \in Affected(n) /\ ~Flagged(i, history[n].version) => events[n] = "sent"

CompositionInv == IInv /\ ImpactsOK /\ FlagsAreTrue

\* Publishing requirements and handling their events leaves the case alone, and
\* a submission under the current requirements is one the case admits.
LEMMA StepInCase ==
    ASSUME ImpactsOK, [ImpactNext]_<<vars, impactVars>>
    PROVE  [Next]_vars
<1>1. CASE UNCHANGED <<vars, impactVars>>
  BY <1>1
<1>2. CASE \/ \E h \in Requirements \ ReviewOnly : PublishRequirements(h)
           \/ \E n \in 1..Now : Consume(n)
           \/ \E n \in 1..Now : Refuse(n)
  BY <1>2 DEF PublishRequirements, Consume, Refuse
<1>3. ASSUME NEW v \in Versions, SubmitCurrent(v) PROVE Next
  <2>1. history \in Seq(Publications) /\ Now \in 1 .. Len(history)
    BY <1>3 DEF SubmitCurrent, ImpactsOK, Now
  <2>2. history[Now] \in Publications
    BY <2>1, ElementOfSeq
  <2> QED
    BY <1>3, <2>2 DEF SubmitCurrent, Next, Publications
<1>4. CASE ReviewNext
  BY <1>4 DEF Next
<1> QED
  BY <1>1, <1>2, <1>3, <1>4 DEF ImpactNext

\* An iteration keeps the requirements it was opened under.
LEMMA RequirementsStay ==
    ASSUME IInv, [Next]_vars
    PROVE  /\ opened \in Nat /\ opened' \in Nat /\ opened <= opened'
           /\ \A i \in 1..opened : rows'[i].requirements = rows[i].requirements
<1> DEFINE Stays == /\ opened' \in Nat /\ opened <= opened'
                    /\ \A i \in 1..opened : rows'[i].requirements = rows[i].requirements
<1>1. opened \in Nat /\ \A i \in 1..opened : i \in Numbers
  BY OpenedNumbers, ReviewCaseAssumption DEF IInv, TypeOK
<1> SUFFICES Stays
  BY <1>1
<1>2. ASSUME UNCHANGED <<opened, rows>> PROVE Stays
  BY <1>1, <1>2
<1>3. ASSUME NEW row, NEW first, Extend(row, first) PROVE Stays
  <2>1. opened' = opened + 1 /\ rows' = [rows EXCEPT ![opened + 1] = row]
    BY <1>3 DEF Extend
  <2>2. \A i \in 1..opened : rows'[i] = rows[i]
    BY <1>1, <2>1 DEF IInv, TypeOK
  <2> QED
    BY <1>1, <2>1, <2>2
<1>4. ASSUME NEW i \in Numbers, NEW row \in Row, row.requirements = rows[i].requirements,
             Update(i, row), opened' = opened
      PROVE  Stays
  <2>1. \A j \in Numbers : rows'[j].requirements = rows[j].requirements
    BY <1>4, UpdateRow DEF IInv
  <2> QED
    BY <1>1, <1>4, <2>1
<1>5. ASSUME NEW i \in 1..opened PROVE rows[i] \in Row /\ i \in Numbers
  BY <1>1, <1>5 DEF IInv, TypeOK
<1>6. CASE \/ UNCHANGED vars
           \/ \E r \in Reviewers, i \in Numbers : Look(r, i)
           \/ \E r \in Reviewers, q \in Requests : RequestPublication(r, q)
           \/ \E q \in Requests : Expire(q)
           \/ \E w \in Archivable : SetStatus(w)
           \/ \E v \in Versions, h \in Requirements : Submit(v, h)
  BY <1>2, <1>6 DEF vars, caseVars, Look, RequestPublication, Expire, SetStatus, Submit
<1>7. CASE \/ \E v \in Versions : Open(v)
           \/ \E r \in Reviewers, h \in Requirements, s \in Scores : Migrate(r, h, s)
           \/ \E r \in Reviewers, h \in Requirements, s \in Scores : AddRequirement(r, h, s)
           \/ \E r \in Reviewers, p \in publications : Correct(r, p.draft)
  <2>1. PICK row, first : Extend(row, first)
    BY <1>7 DEF Open, Migrate, AddRequirement, Correct
  <2> HIDE DEF Stays
  <2> QED
    BY <1>3, <2>1
<1>8. ASSUME NEW r \in Reviewers, NEW s \in Scores, SaveDraft(r, s) PROVE Stays
  <2> DEFINE i == seen[r].iteration
             n == Len(drafts[i]) + 1
             row == [rows[i] EXCEPT !.current = n]
  <2>1. i \in 1..opened /\ Update(i, row) /\ opened' = opened
    BY <1>8 DEF SaveDraft, Locked
  <2>2. rows[i] \in Row /\ i \in Numbers /\ n \in Nat
    BY <1>5, <2>1 DEF IInv, TypeOK
  <2> HIDE DEF n
  <2>3. row \in Row /\ row.requirements = rows[i].requirements
    BY <2>2 DEF Row
  <2> HIDE DEF row, i
  <2> QED
    BY <1>4, <2>1, <2>2, <2>3
<1>9. ASSUME NEW i \in Numbers, NEW o \in Decisions, SaveOutcome(i, o) PROVE Stays
  <2>1. i \in 1..opened /\ Update(i, rows[i]) /\ opened' = opened
    BY <1>9 DEF SaveOutcome
  <2> QED
    BY <1>4, <1>5, <2>1
<1>10. ASSUME NEW r \in Reviewers, NEW q, NEW passed, PublishLocked(r, q, passed), opened' = opened
       PROVE  Stays
  <2> DEFINE i == seen[r].iteration
             row == [rows[i] EXCEPT !.status = "published"]
  <2>1. i \in 1..opened /\ Update(i, row)
    BY <1>10 DEF PublishLocked, LockedCurrent, Locked
  <2>2. rows[i] \in Row /\ i \in Numbers
    BY <1>5, <2>1
  <2>3. row \in Row /\ row.requirements = rows[i].requirements
    BY <2>2 DEF Row, Statuses
  <2> HIDE DEF row, i
  <2> QED
    BY <1>4, <1>10, <2>1, <2>2, <2>3
<1>11. CASE \/ \E r \in Reviewers, q \in Requests \cup {NoRequest} : Publish(r, q)
            \/ \E r \in Reviewers, b \in BOOLEAN : PublishGraded(r, b)
  BY <1>10, <1>11 DEF Publish, PublishGraded
<1>12. CASE ReviewNext
  <2> HIDE DEF Stays
  <2> QED
    BY <1>6, <1>7, <1>8, <1>9, <1>11, <1>12 DEF ReviewNext
<1> HIDE DEF Stays
<1> QED
  BY <1>6, <1>12 DEF Next

LEMMA CaseKeepsImpacts ==
    ASSUME CompositionInv, [Next]_vars, UNCHANGED impactVars
    PROVE  ImpactsOK' /\ FlagsAreTrue'
<1>1. /\ opened \in Nat /\ opened' \in Nat /\ opened <= opened'
      /\ \A i \in 1..opened : rows'[i].requirements = rows[i].requirements
  BY RequirementsStay DEF CompositionInv
<1>2. history' = history /\ events' = events /\ impacts' = impacts
  BY DEF impactVars
<1>3. \A n \in 1..Now : history[n] \in Publications /\ history[n].existed \in Nat
  <2>1. ASSUME NEW n \in 1..Now PROVE history[n] \in Publications
    BY ElementOfSeq DEF CompositionInv, ImpactsOK, Now
  <2> QED
    BY <2>1, ReviewCaseAssumption DEF Publications
<1>4. ASSUME NEW n \in 1..Now, NEW i \in 1..history[n].existed
      PROVE  i \in Affected(n)' => i \in Affected(n)
  <2>1. i \in 1..opened
    BY <1>1, <1>3 DEF CompositionInv, ImpactsOK
  <2> QED
    BY <1>1, <1>2, <2>1 DEF Affected
<1>5. \A n \in 1..Now : history[n].existed <= opened'
  BY <1>1, <1>3 DEF CompositionInv, ImpactsOK
<1>6. \A n \in 2..Now : events[n] = "consumed" =>
        \A i \in 1..history[n].existed : i \in Affected(n)' => Flagged(i, history[n].version)
  BY <1>4 DEF CompositionInv, ImpactsOK, Now
<1>7. ImpactsOK'
  BY <1>2, <1>5, <1>6 DEF CompositionInv, ImpactsOK, Now, Flagged, Changes, FirstTime
<1>8. FlagsAreTrue'
  BY <1>1, <1>2 DEF CompositionInv, FlagsAreTrue
<1> QED
  BY <1>7, <1>8

LEMMA PublishRequirementsStep ==
    ASSUME CompositionInv, NEW h \in Requirements, PublishRequirements(h)
    PROVE  ImpactsOK' /\ FlagsAreTrue'
<1> DEFINE entry == [version |-> h, existed |-> opened]
           k == Len(history) + 1
<1>1. entry \in Publications /\ entry.existed = opened /\ opened \in Nat
  BY ReviewCaseAssumption DEF CompositionInv, IInv, TypeOK, Publications
<1>2. /\ history \in Seq(Publications) /\ Len(history) < MaxPublications
      /\ history' = Append(history, entry) /\ events' = [events EXCEPT ![k] = "sent"]
      /\ impacts' = impacts /\ opened' = opened /\ rows' = rows
  BY DEF CompositionInv, ImpactsOK, PublishRequirements, Now, vars, caseVars
<1> HIDE DEF entry
<1>3. /\ history' \in Seq(Publications) /\ Len(history) \in Nat /\ Len(history') = k
      /\ \A n \in 1..Len(history) : history'[n] = history[n]
      /\ history'[k] = entry
  BY <1>1, <1>2
<1>4. /\ events' \in [1..MaxPublications -> {"none", "sent", "consumed", "refused"}]
      /\ events'[k] = "sent" /\ \A n \in 1..Len(history) : events'[n] = events[n]
  BY <1>2, <1>3, RequirementImpactsAssumption DEF CompositionInv, ImpactsOK
<1>5. \A n \in 1..Len(history') : n \in 1..Len(history) \/ n = k
  BY <1>3
<1>6. \A n \in 1..Len(history') : events'[n] # "none" /\ history'[n].existed <= opened
  BY <1>1, <1>3, <1>4, <1>5 DEF CompositionInv, ImpactsOK, Now
<1>7. \A x \in impacts : x.event \in 2..Len(history') /\ x.version = history'[x.event].version
  BY <1>3 DEF CompositionInv, ImpactsOK, Now
<1>8. \A n \in 2..Len(history') : events'[n] = "consumed" =>
        n \in 2..Len(history) /\ events[n] = "consumed" /\ history'[n] = history[n]
  BY <1>3, <1>4, <1>5
<1>9. \A n \in 2..Len(history') : events'[n] = "consumed" =>
        \A i \in 1..history'[n].existed : i \in Affected(n)' => Flagged(i, history'[n].version)
  BY <1>2, <1>8 DEF CompositionInv, ImpactsOK, Affected, Now
<1>10. \A n \in 1..Len(history') : n = Len(history') => events'[n] # "refused"
  BY <1>3, <1>4
<1>11. ImpactsOK'
  <2>1. k <= MaxPublications
    BY <1>2, <1>3, RequirementImpactsAssumption
  <2> QED
    BY <1>2, <1>3, <1>4, <1>6, <1>7, <1>9, <1>10, <2>1 DEF CompositionInv, ImpactsOK, Now, Flagged
<1>12. FlagsAreTrue'
  BY <1>2 DEF CompositionInv, FlagsAreTrue
<1> QED
  BY <1>11, <1>12

LEMMA ConsumeStep ==
    ASSUME CompositionInv, NEW n \in 1..Now, Consume(n)
    PROVE  ImpactsOK' /\ FlagsAreTrue'
<1>1. /\ history' = history /\ opened' = opened /\ rows' = rows
      /\ events' = [events EXCEPT ![n] = "consumed"]
      /\ impacts' = IF n = 1 THEN impacts ELSE impacts \cup New(n)
  BY DEF Consume, vars, caseVars
<1>2. /\ Now \in Nat /\ n \in 1..MaxPublications /\ opened \in 0..MaxIterations
      /\ history[n] \in Publications
  <2>1. Now \in Nat /\ Now <= MaxPublications /\ history[n] \in Publications
    BY ElementOfSeq DEF CompositionInv, ImpactsOK, Now
  <2> QED
    BY <2>1, RequirementImpactsAssumption DEF CompositionInv, IInv, TypeOK
<1>3. /\ events' \in [1..MaxPublications -> {"none", "sent", "consumed", "refused"}]
      /\ events'[n] = "consumed" /\ \A m \in 1..MaxPublications : m # n => events'[m] = events[m]
  BY <1>1, <1>2 DEF CompositionInv, ImpactsOK
<1>4. \A m \in 1..Now : m \in 1..MaxPublications
  BY <1>2, RequirementImpactsAssumption DEF CompositionInv, ImpactsOK
<1>5. ASSUME NEW x \in New(n)
      PROVE  /\ x \in Impact /\ x.event = n /\ x.version = history[n].version
             /\ x.iteration \in Affected(n) /\ ~Flagged(x.iteration, history[n].version)
  BY <1>2, ReviewCaseAssumption DEF New, Affected, Impact, Publications, Numbers
<1>6. \A x \in impacts' : x \in impacts \/ (n # 1 /\ x \in New(n))
  BY <1>1
<1>8. ASSUME n # 1, NEW i \in Affected(n) PROVE Flagged(i, history[n].version)'
  <2> DEFINE x == [iteration |-> i, version |-> history[n].version, event |-> n]
  <2>1. CASE Flagged(i, history[n].version)
    BY <1>1, <2>1 DEF Flagged
  <2>2. CASE ~Flagged(i, history[n].version)
    <3>1. x \in impacts'
      BY <1>1, <1>8, <2>2 DEF New
    <3> QED
      BY <1>1, <3>1 DEF Flagged
  <2> QED
    BY <2>1, <2>2
<1>9. impacts' \subseteq Impact
  BY <1>5, <1>6 DEF CompositionInv, ImpactsOK
<1>10. \A x \in impacts' : x.event \in 2..Now /\ x.version = history[x.event].version
  BY <1>2, <1>5, <1>6 DEF CompositionInv, ImpactsOK
<1>11. \A m \in 2..Now : events'[m] = "consumed" =>
        \A i \in 1..history[m].existed : i \in Affected(m) => Flagged(i, history[m].version)'
  <2> SUFFICES ASSUME NEW m \in 2..Now, events'[m] = "consumed",
                      NEW i \in 1..history[m].existed, i \in Affected(m)
               PROVE  Flagged(i, history[m].version)'
    BY <1>1 DEF Flagged
  <2>1. CASE m = n
    BY <1>8, <2>1
  <2>2. CASE m # n
    <3>1. events[m] = "consumed"
      BY <1>3, <1>4, <2>2 DEF Now
    <3>2. Flagged(i, history[m].version)
      BY <3>1 DEF CompositionInv, ImpactsOK
    <3> QED
      BY <1>1, <3>2 DEF Flagged
  <2> QED
    BY <2>1, <2>2
<1>12. \A m \in 1..Now : events'[m] # "none" /\ (events'[m] = "refused" => events[m] = "refused")
  BY <1>3, <1>4 DEF CompositionInv, ImpactsOK
<1>13. ImpactsOK'
  BY <1>1, <1>3, <1>9, <1>10, <1>11, <1>12
    DEF CompositionInv, ImpactsOK, Now, Affected, Flagged, Changes, FirstTime
<1>14. \A x \in impacts' : x.iteration \in 1..opened /\ rows[x.iteration].requirements # x.version
  BY <1>5, <1>6 DEF CompositionInv, FlagsAreTrue, Affected
<1>15. \A x, y \in impacts' : x.iteration = y.iteration /\ x.version = y.version => x = y
  <2> SUFFICES ASSUME NEW x \in impacts', NEW y \in impacts',
                      x.iteration = y.iteration, x.version = y.version
               PROVE  x = y
    OBVIOUS
  <2>1. CASE x \in impacts /\ y \in impacts
    BY <2>1 DEF CompositionInv, FlagsAreTrue
  <2>2. CASE x \in New(n) /\ y \in New(n)
    BY <1>5, <2>2 DEF Impact
  <2>3. CASE \/ x \in impacts /\ y \in New(n)
             \/ y \in impacts /\ x \in New(n)
    BY <1>5, <2>3 DEF Flagged
  <2> QED
    BY <1>6, <2>1, <2>2, <2>3
<1>16. FlagsAreTrue'
  BY <1>1, <1>14, <1>15 DEF FlagsAreTrue
<1> QED
  BY <1>13, <1>16

\* The event of a change that is current and announces requirements for the first
\* time describes that change, and every impact for them is its own.
LEMMA RefuseStep ==
    ASSUME CompositionInv, NEW n \in 1..Now, Refuse(n)
    PROVE  ImpactsOK' /\ FlagsAreTrue'
<1>1. /\ history' = history /\ opened' = opened /\ rows' = rows /\ impacts' = impacts
      /\ events' = [events EXCEPT ![n] = "refused"]
      /\ ~(Describes(n) /\ Replayable(n))
  BY DEF Refuse, vars, caseVars
<1>2. Now \in Nat /\ n \in 1..MaxPublications /\ \A m \in 1..Now : m \in 1..MaxPublications
  BY RequirementImpactsAssumption DEF CompositionInv, ImpactsOK, Now
<1>3. /\ events' \in [1..MaxPublications -> {"none", "sent", "consumed", "refused"}]
      /\ events'[n] = "refused" /\ \A m \in 1..MaxPublications : m # n => events'[m] = events[m]
  BY <1>1, <1>2 DEF CompositionInv, ImpactsOK
<1>4. ASSUME n = Now, Changes(n), FirstTime(n) PROVE FALSE
  <2>1. Describes(n)
    BY <1>4 DEF Describes
  <2>2. ASSUME NEW x \in impacts, x.version = history[n].version PROVE x.event = n
    <3>1. x.event \in 2..Now /\ history[x.event].version = history[n].version
      BY <2>2 DEF CompositionInv, ImpactsOK
    <3>2. x.event \notin 1..(n - 1)
      BY <1>4, <3>1 DEF FirstTime
    <3> QED
      BY <1>2, <1>4, <3>1, <3>2
  <2>3. Replayable(n)
    BY <2>2 DEF Replayable
  <2> QED
    BY <1>1, <2>1, <2>3
<1>5. \A m \in 1..Now : m = Now /\ Changes(m) /\ FirstTime(m) => events'[m] # "refused"
  BY <1>2, <1>3, <1>4 DEF CompositionInv, ImpactsOK
<1>6. \A m \in 1..Now : events'[m] # "none" /\ (events'[m] = "consumed" => events[m] = "consumed")
  BY <1>2, <1>3 DEF CompositionInv, ImpactsOK
<1>7. ImpactsOK'
  BY <1>1, <1>2, <1>3, <1>5, <1>6
    DEF CompositionInv, ImpactsOK, Now, Affected, Flagged, Changes, FirstTime
<1>8. FlagsAreTrue'
  BY <1>1 DEF CompositionInv, FlagsAreTrue
<1> QED
  BY <1>7, <1>8

LEMMA InitComposition == ImpactInit => CompositionInv
<1> SUFFICES ASSUME ImpactInit PROVE CompositionInv
  OBVIOUS
<1>1. IInv
  BY InitIInv DEF ImpactInit
<1>2. history = <<>> /\ Now = 0 /\ impacts = {}
  BY DEF ImpactInit, Now
<1>3. ImpactsOK
  BY <1>2, RequirementImpactsAssumption DEF ImpactInit, ImpactsOK
<1>4. FlagsAreTrue
  BY <1>2 DEF FlagsAreTrue
<1> QED
  BY <1>1, <1>3, <1>4 DEF CompositionInv

LEMMA StepComposition ==
    CompositionInv /\ [ImpactNext]_<<vars, impactVars>> => CompositionInv'
<1> SUFFICES ASSUME CompositionInv, [ImpactNext]_<<vars, impactVars>> PROVE CompositionInv'
  OBVIOUS
<1>1. [Next]_vars
  BY StepInCase DEF CompositionInv
<1>2. IInv'
  BY <1>1, NextIInv DEF CompositionInv
<1>3. ASSUME UNCHANGED impactVars PROVE ImpactsOK' /\ FlagsAreTrue'
  BY <1>1, <1>3, CaseKeepsImpacts
<1>4. ImpactsOK' /\ FlagsAreTrue'
  BY <1>3, PublishRequirementsStep, ConsumeStep, RefuseStep DEF ImpactNext, SubmitCurrent
<1> QED
  BY <1>2, <1>4 DEF CompositionInv

\* With requirements published and events handled beside it, a review case still
\* behaves as ReviewCase says; so everything proved of Spec holds in the composition.
THEOREM CompositionImplementsCase == ImpactSpec => Spec
<1>1. ImpactInit => Init
  BY DEF ImpactInit
<1>2. CompositionInv /\ [ImpactNext]_<<vars, impactVars>> => [Next]_vars
  BY StepInCase DEF CompositionInv
<1> QED
  BY <1>1, <1>2, InitComposition, StepComposition, PTL DEF ImpactSpec, Spec

\* No review is flagged twice for the same requirements or for its own
\* (reserve_impact and the unique key of review_impact_events).
THEOREM FlagsStayTrue == ImpactSpec => []FlagsAreTrue
<1>1. CompositionInv => FlagsAreTrue
  BY DEF CompositionInv
<1> QED
  BY <1>1, InitComposition, StepComposition, PTL DEF ImpactSpec

\* However events are delayed, repeated and overtaken, and however the case grows
\* meanwhile, a review that should be flagged for the current requirements is, or
\* their event has neither been refused nor lost: consume then flags it.
THEOREM UnmarkedReviewsWait == ImpactSpec => []UnmarkedIsOnItsWay
<1>1. ASSUME CompositionInv PROVE UnmarkedIsOnItsWay
  <2> SUFFICES ASSUME NEW n \in 1..Now, n = Now, Changes(n), FirstTime(n),
                      NEW i \in 1..history[n].existed, i \in Affected(n),
                      ~Flagged(i, history[n].version)
               PROVE  events[n] = "sent"
    BY DEF UnmarkedIsOnItsWay
  <2>1. n \in 2..Now /\ n \in 1..MaxPublications
    BY <1>1, RequirementImpactsAssumption DEF Changes, CompositionInv, ImpactsOK, Now
  <2>2. events[n] \in {"none", "sent", "consumed", "refused"}
    BY <1>1, <2>1 DEF CompositionInv, ImpactsOK
  <2>3. events[n] # "none" /\ events[n] # "refused" /\ events[n] # "consumed"
    BY <1>1, <2>1 DEF CompositionInv, ImpactsOK
  <2> QED
    BY <2>2, <2>3
<1> QED
  BY <1>1, InitComposition, StepComposition, PTL DEF ImpactSpec

=============================================================================
