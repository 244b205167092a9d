------------------------------ MODULE Artifacts ------------------------------
(***************************************************************************)
(* The bytes a student submits: submission versions                        *)
(* (application/services/submissions.py, application/workspace/            *)
(* submissions.py), the capture task and the staged-to-final promotion     *)
(* (infrastructure/tasks/artifacts.py, object_storage/promotions.py), the  *)
(* cleaner of staged objects and the retention worker                      *)
(* (infrastructure/tasks/retention.py).                                    *)
(*                                                                         *)
(* One student submits one reference, whose content may differ each time   *)
(* the provider is asked.  SQL transactions are atomic steps, except the     *)
(* capture, which keeps its row locks while it calls the provider and      *)
(* uploads; every S3 call is a step of its own.  An artifact is named by   *)
(* the fresh artifact_version_id of the attempt that made it; staged[t]    *)
(* and final[t] are the two objects under that prefix.                     *)
(***************************************************************************)
EXTENDS Integers, Sequences, FiniteSets

CONSTANTS
    Contents,             \* digests the provider may serve
    Workers,              \* processes that promote artifacts
    MaxVersions,          \* bound on submissions
    MaxArtifacts,         \* bound on artifact_version_ids handed out
    CaptureMaxAttempts,   \* capture_max_attempts
    PromotionMaxAttempts, \* max_promotion_attempts
    ProviderMayFail,      \* the provider, a download or an upload may fail
    RetentionDays         \* TRUE when the run lasts longer than the retention period

ASSUME ArtifactsAssumption ==
    /\ "none" \notin Contents
    /\ MaxVersions \in Nat /\ MaxArtifacts \in Nat
    /\ CaptureMaxAttempts \in 1..10
    /\ PromotionMaxAttempts \in Nat \ {0}
    /\ ProviderMayFail \in BOOLEAN /\ RetentionDays \in BOOLEAN

VARIABLES
    versions,   \* the submission_versions of the student, with their capture Operation
    current,    \* current_predeadline_version_id, 0 when null
    artifacts,  \* artifact_versions, each with its artifact_promotions row
    staged,     \* staged objects in the bucket
    final,      \* final objects in the bucket
    serial,     \* artifact_version_ids handed out
    capture,    \* the capture transaction that holds the reference, if any
    hands,      \* hands[w]: the promotion worker w is working on
    doomed,     \* staged keys the cleaner has checked and will delete
    archived,   \* the course run is archived
    reaper      \* the artifact the retention worker has claimed, and its next step

vars == <<versions, current, artifacts, staged, final, serial, capture,
          hands, doomed, archived, reaper>>
submissionVars == <<versions, current>>
bucketVars == <<staged, final>>
workerVars == <<hands, doomed>>
retentionVars == <<archived, reaper>>

Ids == 1..MaxArtifacts
Live == {"db_committed", "promoting"}
NoCapture == [version |-> 0, digest |-> "none", artifact |-> 0, stage |-> "none"]
Idle == [artifact |-> 0, attempt |-> 0, step |-> "idle"]
NoClaim == [artifact |-> 0, step |-> "idle"]

\* An artifact_versions row no transaction has committed.
Absent == [digest |-> "none", state |-> "absent", attempts |-> 0, lease |-> "none",
           due |-> FALSE, tombstone |-> "none"]

Captured(digest) == [Absent EXCEPT !.digest = digest, !.state = "db_committed", !.due = TRUE]
\* A workspace upload has no artifact_promotions row.
Uploaded == [Absent EXCEPT !.state = "uploaded"]

Version(phase, status, artifact, operation) ==
    [phase |-> phase, status |-> status, artifact |-> artifact, operation |-> operation,
     attempts |-> 0]

\* The version whose capture Operation made artifact t.
Owner(t) == CHOOSE v \in DOMAIN versions : versions[v].artifact = t

Init ==
    /\ versions = <<>>
    /\ current = 0
    /\ artifacts = [t \in Ids |-> Absent]
    /\ staged = {} /\ final = {}
    /\ serial = 0
    /\ capture = NoCapture
    /\ hands = [w \in Workers |-> Idle]
    /\ doomed = {}
    /\ archived = FALSE
    /\ reaper = NoClaim

-----------------------------------------------------------------------------
(* Submissions.  The publication in force decides the phase; it may be     *)
(* replaced, so the deadline can move either way between submissions.      *)

\* current_predeadline_version_id after a submission in this phase.
Pointer(phase) == IF phase = "before_deadline" THEN Len(versions) + 1 ELSE current

\* The previous current version becomes superseded at once.
Superseding(phase) ==
    [v \in DOMAIN versions |->
        IF phase = "before_deadline" /\ v = current
        THEN [versions[v] EXCEPT !.status = "superseded"] ELSE versions[v]]

\* submit_work.  mark_superseded waits for a capture that holds the row.
Submit(phase) ==
    /\ ~archived
    /\ Len(versions) < MaxVersions
    /\ phase = "before_deadline" => current = 0 \/ capture.version # current
    /\ phase = "before_deadline" /\ current # 0 => versions[current].status # "superseded"
    /\ LET status == IF phase = "before_deadline" THEN "validating" ELSE "pending_review"
       IN  versions' = Append(Superseding(phase), Version(phase, status, 0, "pending"))
    /\ current' = Pointer(phase)
    /\ UNCHANGED <<artifacts, serial, capture>>
    /\ UNCHANGED <<bucketVars, workerVars, retentionVars>>

\* submit_uploaded_draft: a first submission of an upload creates its row, a
\* repeated one finds it.  The version is ready at once and supersedes nothing.
SubmitUploaded(phase) ==
    /\ ~archived
    /\ Len(versions) < MaxVersions
    /\ \/ \E t \in Ids :
            /\ artifacts[t].state = "uploaded"
            /\ versions' = Append(versions, Version(phase, "ready", t, "succeeded"))
            /\ UNCHANGED <<artifacts, final, serial>>
       \/ /\ serial < MaxArtifacts
          /\ serial' = serial + 1
          /\ artifacts' = [artifacts EXCEPT ![serial'] = Uploaded]
          /\ final' = final \union {serial'}
          /\ versions' = Append(versions, Version(phase, "ready", serial', "succeeded"))
    /\ current' = Pointer(phase)
    /\ UNCHANGED <<staged, capture, workerVars, retentionVars>>

-----------------------------------------------------------------------------
(* The capture task: one transaction that holds the version, its Operation *)
(* and the reference from the first read to the commit.                    *)

\* Mutant: a redelivered message captures a version that has its artifact.
AnyVersion(v) == versions[v].operation # "pending" \/ versions[v].artifact = 0

\* _capture_duplicate: a version that has its artifact is answered from it.
Uncaptured(v) == versions[v].artifact = 0

\* The provider call; the message is delivered at least once.
StartCapture(v) ==
    /\ capture = NoCapture
    /\ Uncaptured(v)
    /\ \E digest \in Contents :
        capture' = [NoCapture EXCEPT !.version = v, !.digest = digest, !.stage = "called"]
    /\ UNCHANGED <<submissionVars, artifacts, serial, bucketVars, workerVars, retentionVars>>

\* _next_attempt_number; attempts past the budget are not told apart.
Attempted(n) == IF n < CaptureMaxAttempts THEN n + 1 ELSE n

\* record_failure and, past the budget, _exhaust_capture_retry.
Failed(version, retryable) ==
    IF retryable /\ version.attempts + 1 < CaptureMaxAttempts
    THEN [version EXCEPT !.attempts = Attempted(@), !.operation = "retryable_failed"]
    ELSE [version EXCEPT !.attempts = Attempted(@), !.operation = "action_required",
                         !.status = "access_error"]

RecordFailure(retryable) ==
    /\ versions' = [versions EXCEPT ![capture.version] = Failed(@, retryable)]
    /\ capture' = NoCapture
    /\ UNCHANGED <<current, artifacts, serial, bucketVars, workerVars, retentionVars>>

\* The artifact of this content under the reference; an upload has a reference
\* of its own.
SameContent(digest) ==
    {t \in Ids : artifacts[t].digest = digest}

\* The provider refused, or the download or the staging failed.
CaptureFails ==
    /\ ProviderMayFail
    /\ capture.stage = "called"
    /\ \E retryable \in BOOLEAN : RecordFailure(retryable)

\* Content already captured whose promotion has moved on is a recorded failure.
CaptureRepeated ==
    /\ capture.stage = "called"
    /\ \E t \in SameContent(capture.digest) : artifacts[t].state # "db_committed"
    /\ RecordFailure(TRUE)

\* The process dies, the actor's rights are gone, or the bundle found belongs
\* to another Operation: the transaction rolls back, the staged object stays.
CaptureRollsBack ==
    /\ capture # NoCapture
    /\ capture' = NoCapture
    /\ UNCHANGED <<submissionVars, artifacts, serial, bucketVars, workerVars, retentionVars>>

Stage ==
    /\ capture.stage = "called"
    /\ SameContent(capture.digest) = {}
    /\ serial < MaxArtifacts
    /\ serial' = serial + 1
    /\ staged' = staged \union {serial'}
    /\ capture' = [capture EXCEPT !.artifact = serial', !.stage = "staged"]
    /\ UNCHANGED <<submissionVars, artifacts, final, workerVars, retentionVars>>

\* _apply_capture_result: the version is linked to its artifact.
Linked(version) ==
    [version EXCEPT !.artifact = capture.artifact, !.operation = "processing",
                    !.attempts = Attempted(@),
                    !.status = IF version.phase = "before_deadline" THEN "ready" ELSE @]

\* record_success and _apply_capture_result: the artifact, its promotion
\* intent, the Operation and the link of the version in one commit.
CommitCapture ==
    /\ capture.stage = "staged"
    /\ artifacts' = [artifacts EXCEPT ![capture.artifact] = Captured(capture.digest)]
    /\ versions' = [versions EXCEPT ![capture.version] = Linked(@)]
    /\ capture' = NoCapture
    /\ UNCHANGED <<current, serial, bucketVars, workerVars, retentionVars>>

-----------------------------------------------------------------------------
(* Promotion workers: the outbox task and the recovery of an operator.     *)

\* The rows of an artifact and of the Operation that captured it.
WritePromotion(t, promotion, operation) ==
    /\ artifacts' = [artifacts EXCEPT ![t] = promotion]
    /\ versions' = [versions EXCEPT ![Owner(t)].operation = operation]

Claimable(t) ==
    \/ artifacts[t].state = "db_committed" /\ artifacts[t].due
    \/ artifacts[t].state = "promoting" /\ artifacts[t].lease = "expired"

Claim(w, t) ==
    /\ hands[w] = Idle
    /\ Claimable(t)
    /\ artifacts[t].attempts < PromotionMaxAttempts
    /\ WritePromotion(t,
            [artifacts[t] EXCEPT !.state = "promoting", !.lease = "live", !.attempts = @ + 1],
            "processing")
    /\ hands' = [hands EXCEPT ![w] =
            [artifact |-> t, attempt |-> artifacts[t].attempts + 1, step |-> "fetch"]]
    /\ UNCHANGED <<current, serial, capture, bucketVars, doomed, retentionVars>>

\* _force_exhausted: the budget was spent by workers that died.
ForceExhausted(w, t) ==
    /\ hands[w] = Idle
    /\ Claimable(t)
    /\ artifacts[t].attempts >= PromotionMaxAttempts
    /\ WritePromotion(t, [artifacts[t] EXCEPT !.state = "action_required", !.lease = "none"],
                      "action_required")
    /\ UNCHANGED <<current, serial, capture, bucketVars, workerVars, retentionVars>>

Step(w, step) == hands' = [hands EXCEPT ![w].step = step]

\* Mutant: a lease is told from others by its attempt alone.
ActiveByAttempt(w) == artifacts[hands[w].artifact].attempts = hands[w].attempt

\* _active_promotion_lease: owner, token and expiry of the row are this lease's.
Active(w) ==
    LET t == hands[w].artifact
    IN  /\ artifacts[t].state = "promoting"
        /\ artifacts[t].attempts = hands[w].attempt
        /\ artifacts[t].lease = "live"

\* The staged object is read first, even when the final one exists.
Fetch(w) ==
    /\ hands[w].step = "fetch"
    /\ \/ hands[w].artifact \in staged /\ Step(w, "store")
       \/ hands[w].artifact \notin staged /\ Step(w, "failed")
    /\ UNCHANGED <<submissionVars, artifacts, serial, capture, bucketVars, doomed, retentionVars>>

\* The final object is found or uploaded.
Store(w) ==
    /\ hands[w].step = "store"
    /\ final' = final \union {hands[w].artifact}
    /\ Step(w, "complete")
    /\ UNCHANGED <<submissionVars, artifacts, serial, capture, staged, doomed, retentionVars>>

\* Mutant: the promotion is recorded before the final object is stored.
ReadyOnceFetched(w) == hands[w].step \in {"store", "complete"}

ReadyToComplete(w) == hands[w].step = "complete"

Complete(w) ==
    /\ ReadyToComplete(w)
    /\ \/ /\ Active(w)
          /\ WritePromotion(hands[w].artifact,
                [artifacts[hands[w].artifact] EXCEPT !.state = "promoted", !.lease = "none"],
                "succeeded")
          /\ Step(w, "tidy")
       \/ /\ ~Active(w)
          /\ hands' = [hands EXCEPT ![w] = Idle]
          /\ UNCHANGED <<artifacts, versions>>
    /\ UNCHANGED <<current, serial, capture, bucketVars, doomed, retentionVars>>

\* The staged object goes last; Abandon covers a delete that fails.
Tidy(w) ==
    /\ hands[w].step = "tidy"
    /\ staged' = staged \ {hands[w].artifact}
    /\ hands' = [hands EXCEPT ![w] = Idle]
    /\ UNCHANGED <<submissionVars, artifacts, serial, capture, final, doomed, retentionVars>>

\* An S3 call raises.
StorageFails(w) ==
    /\ ProviderMayFail
    /\ hands[w].step \in {"fetch", "store"}
    /\ Step(w, "failed")
    /\ UNCHANGED <<submissionVars, artifacts, serial, capture, bucketVars, doomed, retentionVars>>

RecordPromotionFailure(w) ==
    /\ hands[w].step = "failed"
    /\ hands' = [hands EXCEPT ![w] = Idle]
    /\ LET t == hands[w].artifact
       IN  \/ /\ Active(w)
              /\ artifacts[t].attempts >= PromotionMaxAttempts
              /\ WritePromotion(t,
                    [artifacts[t] EXCEPT !.state = "action_required", !.lease = "none"],
                    "action_required")
           \/ /\ Active(w)
              /\ artifacts[t].attempts < PromotionMaxAttempts
              /\ WritePromotion(t,
                    [artifacts[t] EXCEPT !.state = "db_committed", !.lease = "none", !.due = FALSE],
                    "retryable_failed")
           \/ ~Active(w) /\ UNCHANGED <<artifacts, versions>>
    /\ UNCHANGED <<current, serial, capture, bucketVars, doomed, retentionVars>>

\* The worker dies, or a delete after completion fails.
Abandon(w) ==
    /\ hands[w] # Idle
    /\ hands' = [hands EXCEPT ![w] = Idle]
    /\ UNCHANGED <<submissionVars, artifacts, serial, capture, bucketVars, doomed, retentionVars>>

LeaseExpires(t) ==
    /\ artifacts[t].lease = "live"
    /\ artifacts' = [artifacts EXCEPT ![t].lease = "expired"]
    /\ UNCHANGED <<submissionVars, serial, capture, bucketVars, workerVars, retentionVars>>

RetryDue(t) ==
    /\ artifacts[t].state = "db_committed" /\ ~artifacts[t].due
    /\ artifacts' = [artifacts EXCEPT ![t].due = TRUE]
    /\ UNCHANGED <<submissionVars, serial, capture, bucketVars, workerVars, retentionVars>>

-----------------------------------------------------------------------------
(* The cleaner.  Its cutoff is older than any capture in flight, so it     *)
(* never looks at a key whose intent may still be committed.               *)

\* Mutant: only an intent that is being worked on protects its object.
OnlyPromotingIsLive(t) == artifacts[t].state = "promoting"

HasLiveStagedIntent(t) == artifacts[t].state \in Live

Inspect ==
    /\ doomed = {}
    /\ doomed' = {t \in staged : t # capture.artifact /\ ~HasLiveStagedIntent(t)}
    /\ doomed' # {}
    /\ UNCHANGED <<submissionVars, artifacts, serial, capture, bucketVars, hands, retentionVars>>

Sweep ==
    /\ \E t \in doomed :
        /\ staged' = staged \ {t}
        /\ doomed' = doomed \ {t}
    /\ UNCHANGED <<submissionVars, artifacts, serial, capture, final, hands, retentionVars>>

-----------------------------------------------------------------------------
(* Retention.  A claim is an audit row that expires; the passes do not     *)
(* overlap here.  What a scan found is scanned again under the row lock.   *)

Archive ==
    /\ RetentionDays
    /\ archived' = ~archived
    /\ UNCHANGED <<submissionVars, artifacts, serial, capture, bucketVars, workerVars, reaper>>

\* An action_required promotion protects its artifact too.
Purgeable(t) == artifacts[t].state \in {"promoted", "uploaded"}

\* The retention period has passed since the run was archived; no promotion
\* worker and no capture is that old.
ClaimForRemoval(t) ==
    /\ archived
    /\ reaper = NoClaim
    /\ Purgeable(t)
    /\ artifacts[t].tombstone # "removed"
    /\ \A w \in Workers : hands[w].artifact # t
    /\ reaper' = [artifact |-> t, step |-> "tombstone"]
    /\ UNCHANGED <<submissionVars, artifacts, serial, capture, bucketVars, workerVars, archived>>

ReadyToDelete == reaper.step = "delete"

\* A tombstone another pass left pending has another removed_at: conflict.
WriteTombstone ==
    /\ reaper.step = "tombstone"
    /\ LET t == reaper.artifact
       IN  \/ /\ artifacts[t].tombstone = "none"
              /\ artifacts' = [artifacts EXCEPT ![t].tombstone = "delete_pending"]
              /\ reaper' = [reaper EXCEPT !.step = "delete"]
           \/ /\ artifacts[t].tombstone = "delete_pending"
              /\ reaper' = NoClaim
              /\ UNCHANGED artifacts
    /\ UNCHANGED <<submissionVars, serial, capture, bucketVars, workerVars, archived>>

DeleteObject ==
    /\ ReadyToDelete
    /\ final' = final \ {reaper.artifact}
    /\ reaper' = [reaper EXCEPT !.step = "finish"]
    /\ UNCHANGED <<submissionVars, artifacts, serial, capture, staged, workerVars, archived>>

CompleteObjectDeletion ==
    /\ reaper.step = "finish"
    /\ artifacts' = [artifacts EXCEPT ![reaper.artifact].tombstone = "removed"]
    /\ reaper' = NoClaim
    /\ UNCHANGED <<submissionVars, serial, capture, bucketVars, workerVars, archived>>

\* The worker dies or a delete fails; the pass ends.
RetentionStops ==
    /\ reaper # NoClaim
    /\ reaper' = NoClaim
    /\ UNCHANGED <<submissionVars, artifacts, serial, capture, bucketVars, workerVars, archived>>

-----------------------------------------------------------------------------
Next ==
    \/ \E phase \in {"before_deadline", "revision"} : Submit(phase) \/ SubmitUploaded(phase)
    \/ \E v \in DOMAIN versions : StartCapture(v)
    \/ CaptureFails \/ CaptureRepeated \/ CaptureRollsBack \/ Stage \/ CommitCapture
    \/ \E w \in Workers :
        \/ \E t \in Ids : Claim(w, t) \/ ForceExhausted(w, t)
        \/ Fetch(w) \/ Store(w) \/ Complete(w) \/ Tidy(w)
        \/ StorageFails(w) \/ RecordPromotionFailure(w) \/ Abandon(w)
    \/ \E t \in Ids : LeaseExpires(t) \/ RetryDue(t) \/ ClaimForRemoval(t)
    \/ Inspect \/ Sweep
    \/ Archive \/ WriteTombstone \/ DeleteObject \/ CompleteObjectDeletion \/ RetentionStops

Spec == Init /\ [][Next]_vars

-----------------------------------------------------------------------------
\* Every row, object, lease and claim stays in its set.
VersionRows ==
    [phase : {"before_deadline", "revision"},
     status : {"validating", "pending_review", "ready", "superseded", "access_error"},
     artifact : Ids \union {0},
     operation : {"pending", "processing", "succeeded", "retryable_failed", "action_required"},
     attempts : Nat]

ArtifactRows ==
    [digest : Contents \union {"none"},
     state : Live \union {"absent", "uploaded", "promoted", "action_required"},
     attempts : Nat, lease : {"none", "live", "expired"}, due : BOOLEAN,
     tombstone : {"none", "delete_pending", "removed"}]

TypeOK ==
    /\ versions \in Seq(VersionRows)
    /\ current \in 0..Len(versions)
    /\ artifacts \in [Ids -> ArtifactRows]
    /\ staged \subseteq Ids /\ final \subseteq Ids /\ doomed \subseteq Ids
    /\ serial \in 0..MaxArtifacts
    /\ capture \in [version : Nat, digest : Contents \union {"none"}, artifact : Ids \union {0},
                    stage : {"none", "called", "staged"}]
    /\ hands \in [Workers -> [artifact : Ids \union {0}, attempt : Nat,
                  step : {"idle", "fetch", "store", "complete", "tidy", "failed"}]]
    /\ archived \in BOOLEAN
    /\ reaper \in [artifact : Ids \union {0}, step : {"idle", "tombstone", "delete", "finish"}]

\* A promotion intent that can still be worked on finds its staged object: no
\* worker, no cleaner and no crash removes it first (promote reads it before
\* anything else, and a missing one would burn the budget).
StagedOutlivesIntent == \A t \in Ids : artifacts[t].state \in Live => t \in staged

\* An artifact shown as stored has its object until a durable tombstone says
\* otherwise, an artifact recorded as removed has none, and retention never
\* marks bytes a promotion has not delivered: promotion and retention may each
\* die between the database and the bucket.
BytesOutliveReferences ==
    \A t \in Ids :
        /\ artifacts[t].state \in {"promoted", "uploaded"} /\ artifacts[t].tombstone = "none"
            => t \in final
        /\ artifacts[t].tombstone = "removed" => t \notin final
        /\ artifacts[t].tombstone # "none" => artifacts[t].state \in {"promoted", "uploaded"}

\* The Operation the student watches tells the state of the promotion, however
\* many workers took it over from each other.
OperationTellsPromotion ==
    \A v \in DOMAIN versions :
        LET t == versions[v].artifact
            promotion == artifacts[t].state
        IN  t # 0 =>
            CASE versions[v].operation = "succeeded" -> promotion \in {"promoted", "uploaded"}
              [] versions[v].operation = "action_required" -> promotion = "action_required"
              [] versions[v].operation = "processing" -> promotion \in Live
              [] versions[v].operation = "retryable_failed" -> promotion = "db_committed"
              [] OTHER -> FALSE

\* What was promoted, or given up, stays so: a worker whose lease was taken over,
\* or ran out and was given up meanwhile, neither completes nor fails it later.
SettledPromotionStays ==
    [][\A t \in Ids : artifacts[t].state \in {"promoted", "uploaded", "action_required"} =>
          artifacts'[t].state = artifacts[t].state]_vars

\* Capture messages are redelivered and captures are retried after a rollback:
\* still each captured artifact belongs to exactly one version, and one content
\* of the reference is captured once.
CapturedOnce ==
    /\ \A digest \in Contents : Cardinality(SameContent(digest)) <= 1
    /\ \A t \in Ids :
        artifacts[t].digest # "none" =>
            Cardinality({v \in DOMAIN versions : versions[v].artifact = t}) = 1

=============================================================================
