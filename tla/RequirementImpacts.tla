-------------------------- MODULE RequirementImpacts --------------------------
(***************************************************************************)
(* Requirements of the homework change while its reviews are open.  This   *)
(* module composes ReviewCase with the publication of homework versions in *)
(* the course run and with the worker that consumes the durable event      *)
(* HomeworkRequirementsChanged and flags the reviews it affects.           *)
(*                                                                         *)
(* The event is a message of the outbox: it is on its way until a worker   *)
(* handled it, and may be delivered again afterwards.  A handler that      *)
(* raises rolls back; what makes it raise does not go away, so the retries *)
(* of the broker end in the same refusal.                                  *)
(***************************************************************************)
EXTENDS ReviewCase

CONSTANTS
    MaxPublications     \* bound: publications of the homework in the course run

ASSUME RequirementImpactsAssumption == MaxPublications \in Nat

VARIABLES
    history,    \* CourseRunHomeworkPublication rows in order; the last is current
    events,     \* how far the event of each publication has come
    impacts     \* ReviewImpactEvent rows

impactVars == <<history, events, impacts>>

Now == Len(history)

\* existed: iterations there were when the version was published.
Publications == [version : Requirements, existed : 0..MaxIterations]

Impact == [iteration : Numbers, version : Requirements, event : 1..MaxPublications]

-----------------------------------------------------------------------------
ImpactInit ==
    /\ Init
    /\ history = <<>>
    /\ events = [n \in 1..MaxPublications |-> "none"]
    /\ impacts = {}

\* HomeworkService.publish_version: a publication, the pointer to it and the event
\* in one transaction.
PublishRequirements(h) ==
    /\ Now < MaxPublications
    /\ closed = {}
    /\ history' = Append(history, [version |-> h, existed |-> opened])
    /\ events' = [events EXCEPT ![Now + 1] = "sent"]
    /\ UNCHANGED <<vars, impacts>>

\* Mutant: only the current iteration is flagged.
AffectedCurrent(n) ==
    {i \in 1..opened : rows[i].requirements # history[n].version /\ i = pointer.iteration}

\* list_affected_reviews: iterations of any status and age under other requirements.
Affected(n) == {i \in 1..opened : rows[i].requirements # history[n].version}

\* _impact_by_identity
Flagged(i, h) == \E x \in impacts : x.iteration = i /\ x.version = h

\* The publication replaced another version.
Changes(n) == IF n > 1 THEN history[n].version # history[n - 1].version ELSE FALSE

\* The event describes a change, and the version it announces is still the
\* published one: _validate_event and lock_change_context.
Describes(n) == n = 1 \/ (n = Now /\ Changes(n))

\* A row that already flags the iteration for this version was written for the
\* same event: _validate_stored.
Replayable(n) ==
    \A x \in impacts : (n > 1 /\ x.version = history[n].version /\ x.iteration \in Affected(n))
                           => x.event = n

\* reserve_impact of every affected review
New(n) ==
    {[iteration |-> i, version |-> history[n].version, event |-> n] :
        i \in {j \in Affected(n) : ~Flagged(j, history[n].version)}}

\* ReviewRequirementImpactService.consume; the first publication has nothing to flag.
Consume(n) ==
    /\ events[n] \in {"sent", "consumed"}
    /\ Describes(n)
    /\ Replayable(n)
    /\ impacts' = IF n = 1 THEN impacts ELSE impacts \cup New(n)
    /\ events' = [events EXCEPT ![n] = "consumed"]
    /\ UNCHANGED <<vars, history>>

\* The handler raises, and raises again on every retry of the broker.
Refuse(n) ==
    /\ events[n] = "sent"
    /\ ~(Describes(n) /\ Replayable(n))
    /\ events' = [events EXCEPT ![n] = "refused"]
    /\ UNCHANGED <<vars, history, impacts>>

\* Students submit under the published requirements.
SubmitCurrent(v) ==
    /\ Now > 0
    /\ Submit(v, history[Now].version)
    /\ UNCHANGED impactVars

ImpactNext ==
    \/ \E h \in Requirements \ ReviewOnly : PublishRequirements(h)
    \/ \E n \in 1..Now : Consume(n)
    \/ \E n \in 1..Now : Refuse(n)
    \/ \E v \in Versions : SubmitCurrent(v)
    \/ ReviewNext /\ UNCHANGED impactVars

\* The outbox and its relay bring the event to a worker.
ImpactSpec ==
    /\ ImpactInit
    /\ [][ImpactNext]_<<vars, impactVars>>
    /\ \A n \in 1..MaxPublications : WF_<<vars, impactVars>>(n \in 1..Now /\ Consume(n))

-----------------------------------------------------------------------------
\* The version of publication n had not been published before.
FirstTime(n) == \A m \in 1..(n - 1) : history[m].version # history[n].version

\* A review that was open when its requirements changed is flagged for the new ones,
\* unless they are replaced first: no publication of a new version leaves a review
\* unmarked, however events are delayed, repeated or overtaken (FR-018).  A version
\* that is published a second time is left out: the code refuses its event.
ChangedReviewIsFlagged ==
    \A i \in Numbers, n \in 1..MaxPublications :
        (Now = n /\ Changes(n) /\ FirstTime(n) /\ i \in 1..history[n].existed /\ i \in Affected(n))
            ~> (Now # n \/ Flagged(i, history[n].version))
=============================================================================
