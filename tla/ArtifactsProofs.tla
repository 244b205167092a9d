--------------------------- MODULE ArtifactsProofs ---------------------------
(***************************************************************************)
(* Proofs about Artifacts for any contents, workers and bounds: what the   *)
(* database says of a submitted file is true of the bucket, whatever       *)
(* workers die, however leases change hands, and however capture,          *)
(* promotion, cleaner and retention interleave.                            *)
(***************************************************************************)
EXTENDS Artifacts, FiniteSetTheorems, SequenceTheorems, TLAPS

\* An artifact_versions row beside the objects under its prefix.
RowOK(t) ==
    /\ artifacts[t].digest = "none" <=> artifacts[t].state \in {"absent", "uploaded"}
    /\ artifacts[t].lease # "none" => artifacts[t].state = "promoting"
    /\ artifacts[t].state \in Live => t \in staged
    /\ artifacts[t].tombstone # "none" => Purgeable(t)
    /\ Purgeable(t) /\ artifacts[t].tombstone = "none" => t \in final
    /\ artifacts[t].tombstone = "removed" => t \notin final

\* An id that was not handed out yet names nothing.
FreshOK == \A t \in Ids : t > serial => artifacts[t].state = "absent" /\ t \notin staged

\* A content has one artifact, an artifact that was captured one version.
ContentOnce ==
    \A t, x \in Ids :
        artifacts[t].digest # "none" /\ artifacts[t].digest = artifacts[x].digest => t = x

OwnerOnce ==
    /\ \A t \in Ids : artifacts[t].digest # "none" => \E v \in DOMAIN versions : versions[v].artifact = t
    /\ \A v, u \in DOMAIN versions :
        versions[v].artifact # 0 /\ artifacts[versions[v].artifact].digest # "none"
            /\ versions[u].artifact = versions[v].artifact => u = v

\* What an Operation may tell of a promotion in this state.
Tells(operation, promotion) ==
    \/ operation = "succeeded" /\ promotion \in {"promoted", "uploaded"}
    \/ operation = "action_required" /\ promotion = "action_required"
    \/ operation = "processing" /\ promotion \in Live
    \/ operation = "retryable_failed" /\ promotion = "db_committed"

OperationsOK ==
    \A v \in DOMAIN versions :
        versions[v].artifact # 0 => Tells(versions[v].operation, artifacts[versions[v].artifact].state)

\* The capture in flight owns a version without an artifact and, once its object
\* is staged, an id and a content that no row has.
CaptureOK ==
    /\ capture.stage # "none" =>
        /\ capture.version \in DOMAIN versions
        /\ versions[capture.version].artifact = 0
        /\ capture.digest # "none"
    /\ capture.stage = "staged" =>
        /\ capture.artifact \in Ids
        /\ artifacts[capture.artifact].state = "absent"
        /\ capture.artifact \in staged
        /\ \A t \in Ids : artifacts[t].digest # capture.digest

\* The staged keys the cleaner still deletes will never be needed.
DoomedOK ==
    \A t \in doomed : t <= serial /\ artifacts[t].state \notin Live /\ t # capture.artifact

\* A worker holds a captured artifact retention has not touched; one about to
\* record the promotion has stored the object, one about to tidy has recorded it.
HandOK(w) ==
    /\ hands[w].step # "idle" =>
        /\ hands[w].artifact \in Ids
        /\ artifacts[hands[w].artifact].digest # "none"
        /\ artifacts[hands[w].artifact].tombstone = "none"
        /\ reaper.artifact # hands[w].artifact
    /\ hands[w].step = "complete" => hands[w].artifact \in final
    /\ hands[w].step = "tidy" => artifacts[hands[w].artifact].state = "promoted"

\* The retention worker has claimed a stored artifact and deletes it only under
\* its tombstone.
ReaperOK ==
    /\ reaper.step = "idle" => reaper.artifact = 0
    /\ reaper.step # "idle" => reaper.artifact \in Ids /\ Purgeable(reaper.artifact)
    /\ reaper.step = "tombstone" => artifacts[reaper.artifact].tombstone # "removed"
    /\ reaper.step \in {"delete", "finish"} => artifacts[reaper.artifact].tombstone = "delete_pending"
    /\ reaper.step = "finish" => reaper.artifact \notin final

IInv ==
    /\ TypeOK
    /\ \A t \in Ids : RowOK(t)
    /\ FreshOK /\ ContentOnce /\ OwnerOnce /\ OperationsOK
    /\ CaptureOK /\ DoomedOK
    /\ \A w \in Workers : HandOK(w)
    /\ ReaperOK

-----------------------------------------------------------------------------
(* Rows and the changes the transactions make to them.                     *)

\* The rows the model writes are rows.
LEMMA NewRows ==
    /\ Absent \in ArtifactRows /\ Uploaded \in ArtifactRows
    /\ Uploaded.state = "uploaded" /\ Uploaded.digest = "none" /\ Uploaded.lease = "none"
    /\ Uploaded.tombstone = "none"
    /\ Absent.state = "absent" /\ Absent.digest = "none" /\ Absent.lease = "none"
    /\ Absent.tombstone = "none"
BY DEF Absent, Uploaded, ArtifactRows, Live

LEMMA CapturedRow ==
    ASSUME NEW digest \in Contents
    PROVE  /\ Captured(digest) \in ArtifactRows
           /\ Captured(digest).state = "db_committed" /\ Captured(digest).digest = digest
           /\ Captured(digest).lease = "none" /\ Captured(digest).tombstone = "none"
BY DEF Captured, Absent, ArtifactRows, Live

\* A claim, a completion and a failure change state, lease, attempts and due.
LEMMA ClaimedRow ==
    ASSUME NEW row \in ArtifactRows
    PROVE  LET new == [row EXCEPT !.state = "promoting", !.lease = "live", !.attempts = @ + 1]
           IN  /\ new \in ArtifactRows /\ new.state = "promoting" /\ new.attempts = row.attempts + 1
               /\ new.digest = row.digest /\ new.tombstone = row.tombstone
<1> DEFINE n == row.attempts + 1
           new == [row EXCEPT !.state = "promoting", !.lease = "live", !.attempts = n]
<1>1. n \in Nat
  BY DEF ArtifactRows
<1> HIDE DEF n
<1>2. /\ new \in ArtifactRows /\ new.state = "promoting" /\ new.attempts = n
      /\ new.digest = row.digest /\ new.tombstone = row.tombstone
  BY <1>1 DEF ArtifactRows, Live
<1> QED
  BY <1>2, Zenon DEF n

LEMMA EndedRow ==
    ASSUME NEW row \in ArtifactRows, NEW state \in {"promoted", "action_required"}
    PROVE  LET new == [row EXCEPT !.state = state, !.lease = "none"]
           IN  /\ new \in ArtifactRows /\ new.state = state /\ new.lease = "none"
               /\ new.digest = row.digest /\ new.tombstone = row.tombstone
BY DEF ArtifactRows, Live

LEMMA DeferredRow ==
    ASSUME NEW row \in ArtifactRows
    PROVE  LET new == [row EXCEPT !.state = "db_committed", !.lease = "none", !.due = FALSE]
           IN  /\ new \in ArtifactRows /\ new.state = "db_committed" /\ new.lease = "none"
               /\ new.digest = row.digest /\ new.tombstone = row.tombstone
BY DEF ArtifactRows, Live
-----------------------------------------------------------------------------
(* The link between an artifact and the version whose capture made it.     *)

LEMMA Typed ==
    ASSUME TypeOK
    PROVE  /\ Len(versions) \in Nat /\ DOMAIN versions = 1..Len(versions)
           /\ \A v \in DOMAIN versions : versions[v] \in VersionRows
           /\ \A t \in Ids : artifacts[t] \in ArtifactRows
           /\ 0 \notin Ids /\ \A t \in Ids : t \in Nat
<1>1. versions \in Seq(VersionRows)
  BY DEF TypeOK
<1>2. Len(versions) \in Nat /\ DOMAIN versions = 1..Len(versions)
  BY <1>1, LenProperties
<1>3. \A v \in DOMAIN versions : versions[v] \in VersionRows
  BY <1>1, <1>2, ElementOfSeq
<1> QED
  BY <1>2, <1>3, ArtifactsAssumption DEF TypeOK, Ids

LEMMA OwnerLinks ==
    ASSUME OwnerOnce, NEW t \in Ids, artifacts[t].digest # "none", 0 \notin Ids
    PROVE  /\ Owner(t) \in DOMAIN versions /\ versions[Owner(t)].artifact = t
           /\ \A v \in DOMAIN versions : versions[v].artifact = t => v = Owner(t)
<1>1. \E v \in DOMAIN versions : versions[v].artifact = t
  BY DEF OwnerOnce
<1>2. Owner(t) \in DOMAIN versions /\ versions[Owner(t)].artifact = t
  BY <1>1, Zenon DEF Owner
<1> QED
  BY <1>2 DEF OwnerOnce

\* Rewriting one column of one version.
LEMMA VersionChanged ==
    ASSUME TypeOK, NEW v \in DOMAIN versions, NEW row \in VersionRows,
           versions' = [versions EXCEPT ![v] = row]
    PROVE  /\ versions' \in Seq(VersionRows) /\ Len(versions') = Len(versions)
           /\ DOMAIN versions' = DOMAIN versions
           /\ versions'[v] = row
           /\ \A u \in DOMAIN versions : u # v => versions'[u] = versions[u]
<1>1. versions \in Seq(VersionRows) /\ v \in 1..Len(versions)
  BY Typed DEF TypeOK
<1>2. versions' \in Seq(VersionRows) /\ Len(versions') = Len(versions)
  BY <1>1, ExceptSeq
<1> QED
  BY <1>1, <1>2, LenProperties

\* Everything but the workers' hands, over a write of a promotion and of the
\* Operation that mirrors it.
LEMMA PromotionWritten ==
    ASSUME IInv, NEW t \in Ids, artifacts[t].state \in Live,
           NEW row \in ArtifactRows, NEW operation,
           WritePromotion(t, row, operation),
           operation \in {"processing", "succeeded", "retryable_failed", "action_required"},
           row.digest = artifacts[t].digest, row.tombstone = artifacts[t].tombstone,
           row.lease # "none" => row.state = "promoting",
           row.state \in Live \union {"promoted", "action_required"},
           row.state = "promoted" => t \in final,
           Tells(operation, row.state),
           UNCHANGED <<current, serial, capture, bucketVars, doomed, retentionVars>>,
           hands' \in [Workers -> [artifact : Ids \union {0}, attempt : Nat,
                         step : {"idle", "fetch", "store", "complete", "tidy", "failed"}]]
    PROVE  /\ TypeOK'
           /\ \A x \in Ids : RowOK(x)'
           /\ FreshOK' /\ ContentOnce' /\ OwnerOnce' /\ OperationsOK'
           /\ CaptureOK' /\ DoomedOK' /\ ReaperOK'
           /\ artifacts'[t] = row
           /\ \A x \in Ids : x # t => artifacts'[x] = artifacts[x]
<1>1. /\ artifacts' = [artifacts EXCEPT ![t] = row]
      /\ versions' = [versions EXCEPT ![Owner(t)].operation = operation]
      /\ UNCHANGED <<current, serial, capture, staged, final, doomed, archived, reaper>>
  BY DEF WritePromotion, bucketVars, retentionVars
<1>2. /\ artifacts' \in [Ids -> ArtifactRows] /\ artifacts'[t] = row
      /\ \A x \in Ids : x # t => artifacts'[x] = artifacts[x]
  BY <1>1 DEF IInv, TypeOK
<1>3. artifacts[t].digest # "none" /\ artifacts[t].tombstone = "none"
  BY DEF IInv, RowOK, Live, Purgeable
<1>4. /\ Owner(t) \in DOMAIN versions /\ versions[Owner(t)].artifact = t
      /\ \A v \in DOMAIN versions : versions[v].artifact = t => v = Owner(t)
      /\ versions[Owner(t)] \in VersionRows
  BY <1>3, OwnerLinks, Typed DEF IInv
<1> DEFINE new == [versions[Owner(t)] EXCEPT !.operation = operation]
<1>5. new \in VersionRows /\ new.artifact = t /\ new.operation = operation
  BY <1>4 DEF VersionRows
<1>6. versions' = [versions EXCEPT ![Owner(t)] = new]
  BY <1>1
<1> HIDE DEF new
<1>7. /\ versions' \in Seq(VersionRows) /\ Len(versions') = Len(versions)
      /\ DOMAIN versions' = DOMAIN versions
      /\ versions'[Owner(t)] = new
      /\ \A u \in DOMAIN versions : u # Owner(t) => versions'[u] = versions[u]
  BY <1>4, <1>5, <1>6, VersionChanged DEF IInv
<1>8. \A v \in DOMAIN versions : versions'[v].artifact = versions[v].artifact
  BY <1>4, <1>5, <1>7
<1>9. \A x \in Ids : artifacts'[x].digest = artifacts[x].digest
                     /\ artifacts'[x].tombstone = artifacts[x].tombstone
  BY <1>2
<1>10. TypeOK'
  BY <1>1, <1>2, <1>7 DEF IInv, TypeOK
<1>11. ASSUME NEW x \in Ids PROVE RowOK(x)'
  <2>1. RowOK(x)
    BY DEF IInv
  <2>2. CASE x = t
    BY <1>1, <1>2, <1>3, <2>1, <2>2 DEF RowOK, Purgeable, Live
  <2>3. CASE x # t
    BY <1>1, <1>2, <2>1, <2>3 DEF RowOK, Purgeable
  <2> QED
    BY <2>2, <2>3
<1>12. FreshOK' /\ ContentOnce'
  BY <1>1, <1>2, <1>9 DEF IInv, FreshOK, ContentOnce, Live
<1>13. OwnerOnce'
  <2>1. \A v \in DOMAIN versions : versions[v].artifact # 0 => versions[v].artifact \in Ids
    BY Typed DEF IInv, VersionRows
  <2>2. OwnerOnce
    BY DEF IInv
  <2> QED
    BY <1>7, <1>8, <1>9, <2>1, <2>2 DEF OwnerOnce
<1>14. OperationsOK'
  <2> SUFFICES ASSUME NEW v \in DOMAIN versions, versions[v].artifact # 0
               PROVE  Tells(versions'[v].operation, artifacts'[versions[v].artifact].state)
    BY <1>7, <1>8 DEF OperationsOK
  <2>1. versions[v].artifact \in Ids
    BY Typed DEF IInv, VersionRows
  <2>2. CASE v = Owner(t)
    BY <1>2, <1>4, <1>5, <1>7, <2>2
  <2>3. CASE v # Owner(t)
    BY <1>2, <1>4, <1>7, <2>1, <2>3 DEF IInv, OperationsOK
  <2> QED
    BY <2>2, <2>3
<1>15. CaptureOK'
  <2>1. capture.stage = "staged" => capture.artifact # t
    BY DEF IInv, CaptureOK, Live
  <2> QED
    BY <1>1, <1>2, <1>7, <1>8, <1>9, <2>1 DEF IInv, CaptureOK
<1>16. DoomedOK'
  <2>1. t \notin doomed /\ doomed \subseteq Ids
    BY DEF IInv, DoomedOK, TypeOK
  <2> QED
    BY <1>1, <1>2, <2>1 DEF IInv, DoomedOK
<1>17. ReaperOK'
  <2>1. reaper.step # "idle" => reaper.artifact # t
    BY DEF IInv, ReaperOK, Purgeable, Live
  <2>2. ReaperOK /\ reaper \in [artifact : Ids \union {0}, step : {"idle", "tombstone", "delete", "finish"}]
    BY DEF IInv, TypeOK
  <2> QED
    BY <1>1, <1>2, <2>1, <2>2 DEF ReaperOK, Purgeable
<1> QED
  BY <1>2, <1>10, <1>11, <1>12, <1>13, <1>14, <1>15, <1>16, <1>17
-----------------------------------------------------------------------------
(* The promotion workers.                                                  *)

HandSets ==
    [artifact : Ids \union {0}, attempt : Nat,
     step : {"idle", "fetch", "store", "complete", "tidy", "failed"}]

LEMMA IdleHand == Idle \in HandSets /\ Idle.step = "idle"
BY DEF Idle, HandSets

\* A hand that keeps its artifact and moves on to a step that promises nothing.
LEMMA SteppedHand ==
    ASSUME TypeOK, NEW w \in Workers,
           NEW step \in {"fetch", "store", "complete", "tidy", "failed"}, Step(w, step)
    PROVE  /\ hands' \in [Workers -> HandSets]
           /\ hands'[w].artifact = hands[w].artifact /\ hands'[w].step = step
           /\ \A o \in Workers : o # w => hands'[o] = hands[o]
<1>1. hands \in [Workers -> HandSets]
  BY DEF TypeOK, HandSets
<1> DEFINE new == [hands[w] EXCEPT !.step = step]
<1>2. new \in HandSets /\ new.artifact = hands[w].artifact /\ new.step = step
  BY <1>1 DEF HandSets
<1>3. hands' = [hands EXCEPT ![w] = new]
  BY DEF Step
<1> HIDE DEF new
<1> QED
  BY <1>1, <1>2, <1>3

\* A Live row is not the reaper's and no worker has recorded its promotion.
LEMMA LiveIsUntouched ==
    ASSUME IInv, NEW t \in Ids, artifacts[t].state \in Live
    PROVE  /\ artifacts[t].digest # "none" /\ artifacts[t].tombstone = "none"
           /\ reaper.artifact # t /\ t \notin doomed
           /\ \A w \in Workers : hands[w].step = "tidy" => hands[w].artifact # t
<1>1. RowOK(t) /\ ReaperOK /\ DoomedOK
  BY DEF IInv
<1>2. 0 \notin Ids
  BY Typed DEF IInv
<1>3. reaper.artifact # t
  BY <1>1, <1>2 DEF ReaperOK, Purgeable, Live
<1>4. artifacts[t].digest # "none" /\ artifacts[t].tombstone = "none" /\ t \notin doomed
  BY <1>1 DEF RowOK, DoomedOK, Purgeable, Live
<1>5. \A w \in Workers : hands[w].step = "tidy" => hands[w].artifact # t
  BY DEF IInv, HandOK, Live
<1> QED
  BY <1>3, <1>4, <1>5

\* The hands that a write of the promotion of t leaves alone stay right.
LEMMA OtherHands ==
    ASSUME IInv, NEW t \in Ids, artifacts[t].state \in Live,
           artifacts'[t].digest = artifacts[t].digest,
           artifacts'[t].tombstone = artifacts[t].tombstone,
           \A x \in Ids : x # t => artifacts'[x] = artifacts[x],
           UNCHANGED <<final, reaper>>,
           NEW o \in Workers, hands'[o] = hands[o]
    PROVE  HandOK(o)'
<1>1. HandOK(o)
  BY DEF IInv
<1>2. hands[o].step = "tidy" => hands[o].artifact # t
  BY LiveIsUntouched
<1> QED
  BY <1>1, <1>2 DEF HandOK

LEMMA ClaimStep ==
    ASSUME IInv, NEW w \in Workers, NEW t \in Ids, Claim(w, t)
    PROVE  IInv'
<1> DEFINE row == [artifacts[t] EXCEPT !.state = "promoting", !.lease = "live", !.attempts = @ + 1]
           new == [artifact |-> t, attempt |-> artifacts[t].attempts + 1, step |-> "fetch"]
<1>1. artifacts[t] \in ArtifactRows /\ artifacts[t].state \in Live
  BY Typed DEF IInv, Claim, Claimable, Live
<1>2. /\ row \in ArtifactRows /\ row.state = "promoting"
      /\ row.digest = artifacts[t].digest /\ row.tombstone = artifacts[t].tombstone
  BY <1>1, ClaimedRow
<1>3. /\ WritePromotion(t, row, "processing")
      /\ hands' = [hands EXCEPT ![w] = new]
      /\ UNCHANGED <<current, serial, capture, bucketVars, doomed, retentionVars>>
  BY DEF Claim
<1>4. new \in HandSets /\ new.artifact = t /\ new.step = "fetch"
  BY <1>1 DEF HandSets, ArtifactRows
<1> HIDE DEF row, new
<1>5. /\ hands' \in [Workers -> HandSets] /\ hands'[w] = new
      /\ \A o \in Workers : o # w => hands'[o] = hands[o]
  BY <1>3, <1>4 DEF IInv, TypeOK, HandSets
<1>6. /\ TypeOK' /\ \A x \in Ids : RowOK(x)'
      /\ FreshOK' /\ ContentOnce' /\ OwnerOnce' /\ OperationsOK'
      /\ CaptureOK' /\ DoomedOK' /\ ReaperOK'
      /\ artifacts'[t] = row
      /\ \A x \in Ids : x # t => artifacts'[x] = artifacts[x]
  <2>1. Tells("processing", row.state)
    BY <1>2 DEF Tells, Live
  <2>2. row.state \in Live \union {"promoted", "action_required"} /\ row.state # "promoted"
    BY <1>2 DEF Live
  <2>3. hands' \in [Workers -> [artifact : Ids \union {0}, attempt : Nat,
                      step : {"idle", "fetch", "store", "complete", "tidy", "failed"}]]
    BY <1>5 DEF HandSets
  <2> QED
    BY <1>1, <1>2, <1>3, <2>1, <2>2, <2>3, PromotionWritten
<1>7. UNCHANGED <<final, reaper>>
  BY <1>3 DEF bucketVars, retentionVars
<1>8. ASSUME NEW o \in Workers PROVE HandOK(o)'
  <2>1. CASE o = w
    BY <1>1, <1>2, <1>4, <1>5, <1>6, <1>7, <2>1, LiveIsUntouched DEF HandOK
  <2>2. CASE o # w
    BY <1>1, <1>2, <1>5, <1>6, <1>7, <2>2, OtherHands
  <2> QED
    BY <2>1, <2>2
<1> QED
  BY <1>6, <1>8 DEF IInv

\* Ending a promotion: the row gives up its lease, the Operation follows, and the
\* hands are left as they are or step.
LEMMA PromotionEnds ==
    ASSUME IInv, NEW t \in Ids, artifacts[t].state \in Live,
           NEW row \in ArtifactRows, NEW operation,
           WritePromotion(t, row, operation),
           row.digest = artifacts[t].digest, row.tombstone = artifacts[t].tombstone,
           row.lease = "none",
           \/ operation = "succeeded" /\ row.state = "promoted" /\ t \in final
           \/ operation = "action_required" /\ row.state = "action_required"
           \/ operation = "retryable_failed" /\ row.state = "db_committed",
           UNCHANGED <<current, serial, capture, bucketVars, doomed, retentionVars>>,
           hands' \in [Workers -> HandSets],
           \A o \in Workers :
               \/ hands'[o] = hands[o] \/ hands'[o] = Idle
               \/ /\ hands'[o].artifact = t /\ hands'[o].step = "tidy"
                  /\ row.state = "promoted"
    PROVE  IInv'
<1>1. /\ TypeOK' /\ \A x \in Ids : RowOK(x)'
      /\ FreshOK' /\ ContentOnce' /\ OwnerOnce' /\ OperationsOK'
      /\ CaptureOK' /\ DoomedOK' /\ ReaperOK'
      /\ artifacts'[t] = row
      /\ \A x \in Ids : x # t => artifacts'[x] = artifacts[x]
  <2>1. Tells(operation, row.state)
    BY DEF Tells, Live
  <2>2. /\ row.state \in Live \union {"promoted", "action_required"}
        /\ row.state = "promoted" => t \in final
        /\ operation \in {"processing", "succeeded", "retryable_failed", "action_required"}
    BY DEF Live
  <2>3. hands' \in [Workers -> [artifact : Ids \union {0}, attempt : Nat,
                      step : {"idle", "fetch", "store", "complete", "tidy", "failed"}]]
    BY DEF HandSets
  <2> QED
    BY <2>1, <2>2, <2>3, PromotionWritten
<1>2. UNCHANGED <<final, reaper>>
  BY DEF bucketVars, retentionVars
<1>3. ASSUME NEW o \in Workers PROVE HandOK(o)'
  <2>1. CASE hands'[o] = hands[o]
    BY <1>1, <1>2, <2>1, OtherHands
  <2>2. CASE hands'[o] = Idle
    BY <2>2, IdleHand DEF HandOK
  <2>3. CASE hands'[o].artifact = t /\ hands'[o].step = "tidy" /\ row.state = "promoted"
    BY <1>1, <1>2, <2>3, LiveIsUntouched DEF HandOK
  <2> QED
    BY <2>1, <2>2, <2>3
<1> QED
  BY <1>1, <1>3 DEF IInv
LEMMA ForceExhaustedStep ==
    ASSUME IInv, NEW w \in Workers, NEW t \in Ids, ForceExhausted(w, t)
    PROVE  IInv'
<1> DEFINE row == [artifacts[t] EXCEPT !.state = "action_required", !.lease = "none"]
<1>1. artifacts[t] \in ArtifactRows /\ artifacts[t].state \in Live
  BY Typed DEF IInv, ForceExhausted, Claimable, Live
<1>2. /\ row \in ArtifactRows /\ row.state = "action_required" /\ row.lease = "none"
      /\ row.digest = artifacts[t].digest /\ row.tombstone = artifacts[t].tombstone
  BY <1>1, EndedRow
<1>3. /\ WritePromotion(t, row, "action_required")
      /\ UNCHANGED <<current, serial, capture, bucketVars, doomed, retentionVars, hands>>
  BY DEF ForceExhausted, workerVars
<1> HIDE DEF row
<1>4. hands' \in [Workers -> HandSets]
  BY <1>3 DEF IInv, TypeOK, HandSets
<1> QED
  BY <1>1, <1>2, <1>3, <1>4, PromotionEnds

LEMMA CompleteStep ==
    ASSUME IInv, NEW w \in Workers, Complete(w), Active(w)
    PROVE  IInv'
<1> DEFINE t == hands[w].artifact
           row == [artifacts[t] EXCEPT !.state = "promoted", !.lease = "none"]
<1>1. t \in Ids /\ t \in final /\ artifacts[t].state \in Live
  BY DEF IInv, HandOK, Complete, ReadyToComplete, Active, Live
<1>2. artifacts[t] \in ArtifactRows
  BY <1>1, Typed DEF IInv
<1>3. /\ row \in ArtifactRows /\ row.state = "promoted" /\ row.lease = "none"
      /\ row.digest = artifacts[t].digest /\ row.tombstone = artifacts[t].tombstone
  BY <1>2, EndedRow
<1>4. /\ WritePromotion(t, row, "succeeded") /\ Step(w, "tidy")
      /\ UNCHANGED <<current, serial, capture, bucketVars, doomed, retentionVars>>
  BY DEF Complete
<1>5. /\ hands' \in [Workers -> HandSets]
      /\ hands'[w].artifact = t /\ hands'[w].step = "tidy"
      /\ \A o \in Workers : o # w => hands'[o] = hands[o]
  BY <1>4, SteppedHand DEF IInv
<1> HIDE DEF row, t
<1>6. \A o \in Workers :
        \/ hands'[o] = hands[o] \/ hands'[o] = Idle
        \/ hands'[o].artifact = t /\ hands'[o].step = "tidy" /\ row.state = "promoted"
  BY <1>3, <1>5
<1> QED
  BY <1>1, <1>3, <1>4, <1>5, <1>6, PromotionEnds

LEMMA RecordPromotionFailureStep ==
    ASSUME IInv, NEW w \in Workers, RecordPromotionFailure(w), Active(w)
    PROVE  IInv'
<1> DEFINE t == hands[w].artifact
           given == [artifacts[t] EXCEPT !.state = "action_required", !.lease = "none"]
           deferred == [artifacts[t] EXCEPT !.state = "db_committed", !.lease = "none", !.due = FALSE]
<1>1. t \in Ids /\ artifacts[t].state \in Live
  BY DEF IInv, HandOK, RecordPromotionFailure, Active, Live
<1>2. artifacts[t] \in ArtifactRows
  BY <1>1, Typed DEF IInv
<1>3. /\ given \in ArtifactRows /\ given.state = "action_required" /\ given.lease = "none"
      /\ given.digest = artifacts[t].digest /\ given.tombstone = artifacts[t].tombstone
  BY <1>2, EndedRow
<1>4. /\ deferred \in ArtifactRows /\ deferred.state = "db_committed" /\ deferred.lease = "none"
      /\ deferred.digest = artifacts[t].digest /\ deferred.tombstone = artifacts[t].tombstone
  BY <1>2, DeferredRow
<1>5. /\ WritePromotion(t, given, "action_required") \/ WritePromotion(t, deferred, "retryable_failed")
      /\ hands' = [hands EXCEPT ![w] = Idle]
      /\ UNCHANGED <<current, serial, capture, bucketVars, doomed, retentionVars>>
  BY DEF RecordPromotionFailure
<1> HIDE DEF given, deferred, t
<1>6. /\ hands' \in [Workers -> HandSets]
      /\ \A o \in Workers : hands'[o] = hands[o] \/ hands'[o] = Idle
  BY <1>5, IdleHand DEF IInv, TypeOK, HandSets
<1>7. CASE WritePromotion(t, given, "action_required")
  BY <1>1, <1>3, <1>5, <1>6, <1>7, PromotionEnds
<1>8. CASE WritePromotion(t, deferred, "retryable_failed")
  BY <1>1, <1>4, <1>5, <1>6, <1>8, PromotionEnds
<1> QED
  BY <1>5, <1>7, <1>8

\* A step of workers alone, between transactions: the objects they store are of
\* captured artifacts that retention has not touched, those they remove promoted.
LEMMA HandsAlone ==
    ASSUME IInv, UNCHANGED <<submissionVars, artifacts, serial, capture, doomed, retentionVars>>,
           hands' \in [Workers -> HandSets],
           \A o \in Workers : HandOK(o)',
           NEW t,
           \/ UNCHANGED <<staged, final>>
           \/ /\ t \in Ids /\ artifacts[t].digest # "none" /\ artifacts[t].tombstone = "none"
              /\ reaper.artifact # t
              /\ final' = final \union {t} /\ UNCHANGED staged
           \/ /\ t \in Ids /\ artifacts[t].state = "promoted"
              /\ staged' = staged \ {t} /\ UNCHANGED final
    PROVE  IInv'
<1>1. UNCHANGED <<versions, current, artifacts, serial, capture, doomed, archived, reaper>>
  BY DEF submissionVars, retentionVars
<1>2. TypeOK'
  BY <1>1 DEF IInv, TypeOK, HandSets
<1>3. FreshOK' /\ ContentOnce' /\ OwnerOnce' /\ OperationsOK' /\ DoomedOK'
  BY <1>1 DEF IInv, FreshOK, ContentOnce, OwnerOnce, OperationsOK, DoomedOK
<1>4. \A x \in Ids : RowOK(x)'
  BY <1>1 DEF IInv, RowOK, Purgeable, Live
<1>5. CaptureOK'
  BY <1>1 DEF IInv, CaptureOK
<1>6. ReaperOK'
  BY <1>1 DEF IInv, ReaperOK, Purgeable
<1> QED
  BY <1>2, <1>3, <1>4, <1>5, <1>6 DEF IInv

LEMMA FetchStep ==
    ASSUME IInv, NEW w \in Workers, Fetch(w) \/ StorageFails(w)
    PROVE  IInv'
<1>1. /\ Step(w, "store") \/ Step(w, "failed")
      /\ hands[w].step # "idle"
      /\ UNCHANGED <<submissionVars, artifacts, serial, capture, doomed, retentionVars>>
      /\ UNCHANGED <<staged, final>>
  BY DEF Fetch, StorageFails, bucketVars
<1>2. /\ hands' \in [Workers -> HandSets]
      /\ hands'[w].artifact = hands[w].artifact /\ hands'[w].step \in {"store", "failed"}
      /\ \A o \in Workers : o # w => hands'[o] = hands[o]
  BY <1>1, SteppedHand DEF IInv
<1>3. ASSUME NEW o \in Workers PROVE HandOK(o)'
  <2>1. HandOK(o) /\ HandOK(w) /\ reaper' = reaper
    BY <1>1 DEF IInv, retentionVars
  <2> QED
    BY <1>1, <1>2, <2>1 DEF HandOK
<1> QED
  BY <1>1, <1>2, <1>3, HandsAlone

LEMMA StoreStep ==
    ASSUME IInv, NEW w \in Workers, Store(w)
    PROVE  IInv'
<1>1. /\ Step(w, "complete")
      /\ hands[w].step = "store"
      /\ final' = final \union {hands[w].artifact} /\ UNCHANGED staged
      /\ UNCHANGED <<submissionVars, artifacts, serial, capture, doomed, retentionVars>>
  BY DEF Store
<1>2. /\ hands' \in [Workers -> HandSets]
      /\ hands'[w].artifact = hands[w].artifact /\ hands'[w].step = "complete"
      /\ \A o \in Workers : o # w => hands'[o] = hands[o]
  BY <1>1, SteppedHand DEF IInv
<1>3. HandOK(w) /\ reaper' = reaper
  BY <1>1 DEF IInv, retentionVars
<1>4. ASSUME NEW o \in Workers PROVE HandOK(o)'
  <2>1. HandOK(o)
    BY DEF IInv
  <2> QED
    BY <1>1, <1>2, <1>3, <2>1 DEF HandOK
<1> QED
  BY <1>1, <1>2, <1>3, <1>4, HandsAlone DEF HandOK

LEMMA HandDropped ==
    ASSUME IInv, NEW w \in Workers, hands' = [hands EXCEPT ![w] = Idle],
           UNCHANGED <<artifacts, final, reaper>>
    PROVE  hands' \in [Workers -> HandSets] /\ \A o \in Workers : HandOK(o)'
<1>1. /\ hands' \in [Workers -> HandSets] /\ hands'[w] = Idle
      /\ \A o \in Workers : o # w => hands'[o] = hands[o]
  BY IdleHand DEF IInv, TypeOK, HandSets
<1>2. ASSUME NEW o \in Workers PROVE HandOK(o)'
  <2>1. HandOK(o)
    BY DEF IInv
  <2> QED
    BY <1>1, <2>1, IdleHand DEF HandOK
<1> QED
  BY <1>1, <1>2

LEMMA DropStep ==
    ASSUME IInv, NEW w \in Workers,
           \/ Abandon(w)
           \/ Complete(w) /\ ~Active(w)
           \/ RecordPromotionFailure(w) /\ ~Active(w)
    PROVE  IInv'
<1>1. /\ hands' = [hands EXCEPT ![w] = Idle]
      /\ UNCHANGED <<submissionVars, artifacts, serial, capture, doomed, retentionVars>>
      /\ UNCHANGED <<staged, final>>
  BY DEF Abandon, Complete, RecordPromotionFailure, bucketVars, submissionVars
<1>2. UNCHANGED <<artifacts, final, reaper>>
  BY <1>1 DEF retentionVars
<1> QED
  BY <1>1, <1>2, HandDropped, HandsAlone

LEMMA TidyStep ==
    ASSUME IInv, NEW w \in Workers, Tidy(w)
    PROVE  IInv'
<1>1. /\ hands' = [hands EXCEPT ![w] = Idle]
      /\ UNCHANGED <<submissionVars, artifacts, serial, capture, doomed, retentionVars>>
      /\ staged' = staged \ {hands[w].artifact} /\ UNCHANGED final
      /\ hands[w].step = "tidy"
  BY DEF Tidy
<1>2. UNCHANGED <<artifacts, final, reaper>>
  BY <1>1 DEF retentionVars
<1>3. hands[w].artifact \in Ids /\ artifacts[hands[w].artifact].state = "promoted"
  BY <1>1 DEF IInv, HandOK
<1> QED
  BY <1>1, <1>2, <1>3, HandDropped, HandsAlone
-----------------------------------------------------------------------------
(* Timers.                                                                 *)

\* A row whose digest, state and tombstone stay: only its lease or due changes.
LEMMA RowRefreshed ==
    ASSUME IInv, NEW t \in Ids, NEW row \in ArtifactRows, artifacts' = [artifacts EXCEPT ![t] = row],
           row.digest = artifacts[t].digest, row.state = artifacts[t].state,
           row.tombstone = artifacts[t].tombstone,
           row.lease # "none" => row.state = "promoting",
           UNCHANGED <<submissionVars, serial, capture, bucketVars, workerVars, retentionVars>>
    PROVE  IInv'
<1>1. UNCHANGED <<versions, current, serial, capture, staged, final, hands, doomed, archived, reaper>>
  BY DEF submissionVars, bucketVars, workerVars, retentionVars
<1>2. /\ artifacts' \in [Ids -> ArtifactRows] /\ artifacts'[t] = row
      /\ \A x \in Ids : x # t => artifacts'[x] = artifacts[x]
  BY DEF IInv, TypeOK
<1>3. \A x \in Ids : /\ artifacts'[x].digest = artifacts[x].digest
                     /\ artifacts'[x].state = artifacts[x].state
                     /\ artifacts'[x].tombstone = artifacts[x].tombstone
                     /\ (artifacts'[x].lease # "none" => artifacts'[x].state = "promoting")
  BY <1>2 DEF IInv, RowOK
<1>4. TypeOK'
  BY <1>1, <1>2 DEF IInv, TypeOK
<1>5. ASSUME NEW x \in Ids PROVE RowOK(x)'
  <2>1. RowOK(x)
    BY DEF IInv
  <2> QED
    BY <1>1, <1>3, <2>1 DEF RowOK, Purgeable
<1>6. FreshOK' /\ ContentOnce' /\ DoomedOK'
  <2>1. doomed \subseteq Ids
    BY DEF IInv, TypeOK
  <2> QED
    BY <1>1, <1>3, <2>1 DEF IInv, FreshOK, ContentOnce, DoomedOK
<1>7. OwnerOnce' /\ OperationsOK'
  <2>1. \A v \in DOMAIN versions : versions[v].artifact # 0 => versions[v].artifact \in Ids
    BY Typed DEF IInv, VersionRows
  <2>2. OwnerOnce /\ OperationsOK
    BY DEF IInv
  <2> QED
    BY <1>1, <1>3, <2>1, <2>2 DEF OwnerOnce, OperationsOK
<1>8. CaptureOK'
  BY <1>1, <1>3 DEF IInv, CaptureOK
<1>9. ASSUME NEW o \in Workers PROVE HandOK(o)'
  <2>1. HandOK(o)
    BY DEF IInv
  <2> QED
    BY <1>1, <1>3, <2>1 DEF HandOK
<1>10. ReaperOK'
  <2>1. ReaperOK /\ reaper \in [artifact : Ids \union {0}, step : {"idle", "tombstone", "delete", "finish"}]
    BY DEF IInv, TypeOK
  <2> QED
    BY <1>1, <1>3, <2>1 DEF ReaperOK, Purgeable
<1> QED
  BY <1>4, <1>5, <1>6, <1>7, <1>8, <1>9, <1>10 DEF IInv

LEMMA TimerStep ==
    ASSUME IInv, NEW t \in Ids, LeaseExpires(t) \/ RetryDue(t)
    PROVE  IInv'
<1> DEFINE expired == [artifacts[t] EXCEPT !.lease = "expired"]
           due == [artifacts[t] EXCEPT !.due = TRUE]
<1>1. artifacts[t] \in ArtifactRows
  BY Typed DEF IInv
<1>2. /\ expired \in ArtifactRows /\ expired.digest = artifacts[t].digest
      /\ expired.state = artifacts[t].state /\ expired.tombstone = artifacts[t].tombstone
  BY <1>1 DEF ArtifactRows
<1>3. /\ due \in ArtifactRows /\ due.digest = artifacts[t].digest
      /\ due.state = artifacts[t].state /\ due.tombstone = artifacts[t].tombstone
      /\ due.lease = artifacts[t].lease
  BY <1>1 DEF ArtifactRows
<1>4. /\ \/ artifacts' = [artifacts EXCEPT ![t] = expired] /\ artifacts[t].lease = "live"
         \/ artifacts' = [artifacts EXCEPT ![t] = due]
      /\ UNCHANGED <<submissionVars, serial, capture, bucketVars, workerVars, retentionVars>>
  BY DEF LeaseExpires, RetryDue
<1>5. artifacts[t].lease # "none" => artifacts[t].state = "promoting"
  BY DEF IInv, RowOK
<1> HIDE DEF expired, due
<1>6. CASE artifacts' = [artifacts EXCEPT ![t] = expired] /\ artifacts[t].lease = "live"
  BY <1>2, <1>4, <1>5, <1>6, RowRefreshed
<1>7. CASE artifacts' = [artifacts EXCEPT ![t] = due]
  BY <1>3, <1>4, <1>5, <1>7, RowRefreshed
<1> QED
  BY <1>4, <1>6, <1>7

-----------------------------------------------------------------------------
(* The capture.                                                            *)

\* The transaction starts, or rolls back.
LEMMA CaptureAlone ==
    ASSUME IInv, (\E v \in DOMAIN versions : StartCapture(v)) \/ CaptureRollsBack
    PROVE  IInv'
<1>1. UNCHANGED <<versions, current, artifacts, serial, staged, final, hands, doomed, archived, reaper>>
  BY DEF StartCapture, CaptureRollsBack, submissionVars, bucketVars, workerVars, retentionVars
<1>2. \/ capture' = NoCapture
      \/ \E v \in DOMAIN versions, digest \in Contents :
            /\ capture' = [version |-> v, digest |-> digest, artifact |-> 0, stage |-> "called"]
            /\ versions[v].artifact = 0
  BY DEF StartCapture, CaptureRollsBack, NoCapture, Uncaptured
<1>3. 0 \notin Ids /\ \A v \in DOMAIN versions : v \in Nat
  BY Typed DEF IInv
<1>4. /\ capture' \in [version : Nat, digest : Contents \union {"none"}, artifact : Ids \union {0},
                       stage : {"none", "called", "staged"}]
      /\ capture'.artifact = 0 /\ capture'.stage # "staged"
      /\ capture'.stage # "none" =>
            /\ capture'.version \in DOMAIN versions /\ versions[capture'.version].artifact = 0
            /\ capture'.digest # "none"
  BY <1>2, <1>3, ArtifactsAssumption DEF NoCapture
<1>5. TypeOK'
  BY <1>1, <1>4 DEF IInv, TypeOK
<1>6. CaptureOK'
  BY <1>1, <1>4 DEF CaptureOK
<1>7. DoomedOK'
  <2>1. doomed \subseteq Ids
    BY DEF IInv, TypeOK
  <2> QED
    BY <1>1, <1>3, <1>4, <2>1 DEF IInv, DoomedOK
<1>8. FreshOK' /\ ContentOnce' /\ OwnerOnce' /\ OperationsOK'
  BY <1>1 DEF IInv, FreshOK, ContentOnce, OwnerOnce, OperationsOK
<1>9. /\ \A x \in Ids : RowOK(x)'
      /\ \A w \in Workers : HandOK(w)'
      /\ ReaperOK'
  BY <1>1 DEF IInv, RowOK, HandOK, ReaperOK, Purgeable
<1> QED
  BY <1>5, <1>6, <1>7, <1>8, <1>9 DEF IInv

\* A recorded failure keeps the version without an artifact.
LEMMA FailedRow ==
    ASSUME NEW row \in VersionRows, NEW retryable \in BOOLEAN
    PROVE  Failed(row, retryable) \in VersionRows /\ Failed(row, retryable).artifact = row.artifact
<1> DEFINE n == Attempted(row.attempts)
           again == [row EXCEPT !.attempts = n, !.operation = "retryable_failed"]
           last == [row EXCEPT !.attempts = n, !.operation = "action_required",
                               !.status = "access_error"]
<1>1. n \in Nat
  BY DEF Attempted, VersionRows
<1>2. \/ Failed(row, retryable) = again
      \/ Failed(row, retryable) = last
  BY DEF Failed
<1> HIDE DEF n
<1>3. again \in VersionRows /\ again.artifact = row.artifact
  BY <1>1 DEF VersionRows
<1>4. last \in VersionRows /\ last.artifact = row.artifact
  BY <1>1 DEF VersionRows
<1> QED
  BY <1>2, <1>3, <1>4

\* Versions without an artifact say nothing of artifacts: rewriting or adding one
\* keeps the links.
LEMMA LinksKept ==
    ASSUME IInv, NEW V, V = DOMAIN versions', DOMAIN versions \subseteq V,
           \A v \in DOMAIN versions :
              /\ versions'[v].artifact = versions[v].artifact
              /\ versions[v].artifact # 0 => versions'[v].operation = versions[v].operation,
           \A v \in V \ DOMAIN versions : versions'[v].artifact = 0,
           UNCHANGED artifacts
    PROVE  OwnerOnce' /\ OperationsOK'
<1>1. OwnerOnce /\ OperationsOK
  BY DEF IInv
<1>2. 0 \notin Ids
  BY Typed DEF IInv
<1> QED
  BY <1>1, <1>2 DEF OwnerOnce, OperationsOK

LEMMA RecordFailureStep ==
    ASSUME IInv, NEW retryable \in BOOLEAN, capture.stage = "called", RecordFailure(retryable)
    PROVE  IInv'
<1> DEFINE v == capture.version
           row == Failed(versions[v], retryable)
<1>1. UNCHANGED <<current, artifacts, serial, staged, final, hands, doomed, archived, reaper>>
  BY DEF RecordFailure, bucketVars, workerVars, retentionVars
<1>2. v \in DOMAIN versions /\ versions[v].artifact = 0
  BY DEF IInv, CaptureOK
<1>3. row \in VersionRows /\ row.artifact = 0
  BY <1>2, FailedRow, Typed DEF IInv
<1>4. versions' = [versions EXCEPT ![v] = row] /\ capture' = NoCapture
  BY DEF RecordFailure
<1> HIDE DEF row, v
<1>5. /\ versions' \in Seq(VersionRows) /\ Len(versions') = Len(versions)
      /\ DOMAIN versions' = DOMAIN versions
      /\ versions'[v] = row
      /\ \A u \in DOMAIN versions : u # v => versions'[u] = versions[u]
  BY <1>2, <1>3, <1>4, VersionChanged DEF IInv
<1>6. OwnerOnce' /\ OperationsOK'
  BY <1>1, <1>2, <1>3, <1>5, LinksKept
<1>7. capture'.artifact = 0 /\ capture'.stage = "none" /\ 0 \notin Ids
  BY <1>4, Typed DEF IInv, NoCapture
<1>8. TypeOK'
  BY <1>1, <1>4, <1>5 DEF IInv, TypeOK, NoCapture
<1>9. CaptureOK'
  BY <1>7 DEF CaptureOK
<1>10. FreshOK' /\ ContentOnce' /\ DoomedOK'
  <2>1. doomed \subseteq Ids
    BY DEF IInv, TypeOK
  <2> QED
    BY <1>1, <1>7, <2>1 DEF IInv, FreshOK, ContentOnce, DoomedOK
<1>11. /\ \A x \in Ids : RowOK(x)'
       /\ \A w \in Workers : HandOK(w)'
       /\ ReaperOK'
  BY <1>1 DEF IInv, RowOK, HandOK, ReaperOK, Purgeable
<1> QED
  BY <1>6, <1>8, <1>9, <1>10, <1>11 DEF IInv
LEMMA StageStep == ASSUME IInv, Stage PROVE IInv'
<1> DEFINE t == serial + 1
<1>1. /\ UNCHANGED <<versions, current, artifacts, final, hands, doomed, archived, reaper>>
      /\ serial' = t /\ staged' = staged \union {t}
      /\ capture' = [capture EXCEPT !.artifact = t, !.stage = "staged"]
      /\ capture.stage = "called" /\ serial < MaxArtifacts
      /\ SameContent(capture.digest) = {}
  BY DEF Stage, submissionVars, workerVars, retentionVars
<1>2. /\ t \in Ids /\ serial \in Nat /\ t > serial
  BY <1>1, ArtifactsAssumption DEF IInv, TypeOK, Ids
<1>3. artifacts[t].state = "absent" /\ t \notin doomed
  BY <1>2 DEF IInv, FreshOK, DoomedOK
<1> HIDE DEF t
<1>4. /\ capture' \in [version : Nat, digest : Contents \union {"none"}, artifact : Ids \union {0},
                       stage : {"none", "called", "staged"}]
      /\ capture'.artifact = t /\ capture'.stage = "staged"
      /\ capture'.version = capture.version /\ capture'.digest = capture.digest
  BY <1>1, <1>2 DEF IInv, TypeOK
<1>5. TypeOK'
  BY <1>1, <1>2, <1>4, ArtifactsAssumption DEF IInv, TypeOK, Ids
<1>6. CaptureOK'
  <2>1. CaptureOK
    BY DEF IInv
  <2>2. \A x \in Ids : artifacts[x].digest # capture.digest
    BY <1>1 DEF SameContent
  <2> QED
    BY <1>1, <1>2, <1>3, <1>4, <2>1, <2>2 DEF CaptureOK
<1>7. FreshOK'
  <2>1. FreshOK /\ \A x \in Ids : x \in Nat
    BY Typed DEF IInv
  <2> QED
    BY <1>1, <1>2, <2>1 DEF FreshOK, t
<1>8. DoomedOK'
  <2>1. DoomedOK /\ doomed \subseteq Ids /\ \A x \in Ids : x \in Nat
    BY Typed DEF IInv, TypeOK
  <2> QED
    BY <1>1, <1>2, <1>3, <1>4, <2>1 DEF DoomedOK, t
<1>9. ContentOnce' /\ OwnerOnce' /\ OperationsOK'
  BY <1>1 DEF IInv, ContentOnce, OwnerOnce, OperationsOK
<1>10. /\ \A x \in Ids : RowOK(x)'
       /\ \A w \in Workers : HandOK(w)'
       /\ ReaperOK'
  BY <1>1 DEF IInv, RowOK, HandOK, ReaperOK, Purgeable
<1> QED
  BY <1>5, <1>6, <1>7, <1>8, <1>9, <1>10 DEF IInv

\* The version a committed capture links to its artifact.
LEMMA LinkedRow ==
    ASSUME NEW row \in VersionRows, capture.artifact \in Ids
    PROVE  /\ Linked(row) \in VersionRows
           /\ Linked(row).artifact = capture.artifact /\ Linked(row).operation = "processing"
<1> DEFINE n == Attempted(row.attempts)
           status == IF row.phase = "before_deadline" THEN "ready" ELSE row.status
           t == capture.artifact
           new == [row EXCEPT !.artifact = t, !.operation = "processing",
                              !.attempts = n, !.status = status]
<1>1. n \in Nat /\ t \in Ids
  BY DEF Attempted, VersionRows
<1>2. status \in {"validating", "pending_review", "ready", "superseded", "access_error"}
  BY DEF VersionRows
<1>3. Linked(row) = new
  BY Zenon DEF Linked
<1> HIDE DEF n, status, t
<1>4. new \in VersionRows /\ new.artifact = t /\ new.operation = "processing"
  BY <1>1, <1>2 DEF VersionRows
<1> QED
  BY <1>3, <1>4 DEF t

LEMMA CommitCaptureStep == ASSUME IInv, CommitCapture PROVE IInv'
<1> DEFINE t == capture.artifact
           v == capture.version
           row == Captured(capture.digest)
           new == Linked(versions[v])
<1>1. /\ UNCHANGED <<current, serial, staged, final, hands, doomed, archived, reaper>>
      /\ capture' = NoCapture /\ capture.stage = "staged"
  BY DEF CommitCapture, bucketVars, workerVars, retentionVars
<1>2. artifacts' = [artifacts EXCEPT ![t] = row]
  BY DEF CommitCapture
<1>3. versions' = [versions EXCEPT ![v] = new]
  BY DEF CommitCapture
<1>4. /\ t \in Ids /\ artifacts[t].state = "absent" /\ t \in staged
      /\ v \in DOMAIN versions /\ versions[v].artifact = 0
      /\ capture.digest \in Contents /\ capture.digest # "none"
      /\ \A x \in Ids : artifacts[x].digest # capture.digest
  BY <1>1 DEF IInv, CaptureOK, TypeOK
<1>5. /\ row \in ArtifactRows /\ row.state = "db_committed" /\ row.digest = capture.digest
      /\ row.lease = "none" /\ row.tombstone = "none"
  BY <1>4, CapturedRow
<1>6. versions[v] \in VersionRows
  BY <1>4, Typed DEF IInv
<1>7. new \in VersionRows /\ new.artifact = t /\ new.operation = "processing"
  BY <1>4, <1>6, LinkedRow
<1>8. 0 \notin Ids
  BY Typed DEF IInv
<1> HIDE DEF t, v, row, new
<1>9. /\ versions' \in Seq(VersionRows) /\ Len(versions') = Len(versions)
      /\ DOMAIN versions' = DOMAIN versions
      /\ versions'[v] = new
      /\ \A u \in DOMAIN versions : u # v => versions'[u] = versions[u]
  BY <1>3, <1>4, <1>7, VersionChanged DEF IInv
<1>10. /\ artifacts' \in [Ids -> ArtifactRows] /\ artifacts'[t] = row
       /\ \A x \in Ids : x # t => artifacts'[x] = artifacts[x]
  BY <1>2, <1>4, <1>5 DEF IInv, TypeOK
<1>11. artifacts[t].digest = "none" /\ artifacts[t].tombstone = "none"
  BY <1>4 DEF IInv, RowOK, Purgeable
<1>12. \A u \in DOMAIN versions : versions[u].artifact # t
  BY <1>4, <1>8 DEF IInv, OperationsOK, Tells, Live
<1>13. \A u \in DOMAIN versions : versions[u].artifact # 0 => versions[u].artifact \in Ids
  BY Typed DEF IInv, VersionRows
<1>14. TypeOK'
  BY <1>1, <1>9, <1>10 DEF IInv, TypeOK, NoCapture
<1>15. ASSUME NEW x \in Ids PROVE RowOK(x)'
  <2>1. CASE x = t
    BY <1>1, <1>4, <1>5, <1>10, <2>1 DEF RowOK, Purgeable, Live
  <2>2. CASE x # t
    <3>1. RowOK(x)
      BY DEF IInv
    <3> QED
      BY <1>1, <1>10, <2>2, <3>1 DEF RowOK, Purgeable
  <2> QED
    BY <2>1, <2>2
<1>16. FreshOK'
  <2>1. FreshOK /\ \A x \in Ids : x \in Nat
    BY Typed DEF IInv
  <2> QED
    BY <1>1, <1>4, <1>10, <2>1 DEF FreshOK
<1>17. ContentOnce'
  BY <1>4, <1>5, <1>10 DEF IInv, ContentOnce
<1>18. OwnerOnce'
  <2>1. OwnerOnce
    BY DEF IInv
  <2>2. \A x \in Ids : artifacts'[x].digest # "none" =>
            \E u \in DOMAIN versions : versions'[u].artifact = x
    <3> SUFFICES ASSUME NEW x \in Ids, artifacts'[x].digest # "none"
                 PROVE  \E u \in DOMAIN versions : versions'[u].artifact = x
      OBVIOUS
    <3>1. CASE x = t
      BY <1>4, <1>7, <1>9, <3>1
    <3>2. CASE x # t
      <4>1. PICK u \in DOMAIN versions : versions[u].artifact = x
        BY <1>10, <2>1, <3>2 DEF OwnerOnce
      <4>2. u # v
        BY <1>4, <1>8, <4>1
      <4> QED
        BY <1>9, <4>1, <4>2
    <3> QED
      BY <3>1, <3>2
  <2>3. \A a, b \in DOMAIN versions :
            versions'[a].artifact # 0 /\ artifacts'[versions'[a].artifact].digest # "none"
                /\ versions'[b].artifact = versions'[a].artifact => b = a
    BY <1>4, <1>7, <1>8, <1>9, <1>10, <1>12, <1>13, <2>1 DEF OwnerOnce
  <2> QED
    BY <1>9, <2>2, <2>3 DEF OwnerOnce
<1>19. OperationsOK'
  <2> SUFFICES ASSUME NEW u \in DOMAIN versions, versions'[u].artifact # 0
               PROVE  Tells(versions'[u].operation, artifacts'[versions'[u].artifact].state)
    BY <1>9 DEF OperationsOK
  <2>1. CASE u = v
    BY <1>5, <1>7, <1>9, <1>10, <2>1 DEF Tells, Live
  <2>2. CASE u # v
    BY <1>9, <1>10, <1>12, <1>13, <2>2 DEF IInv, OperationsOK
  <2> QED
    BY <2>1, <2>2
<1>20. CaptureOK'
  BY <1>1 DEF CaptureOK, NoCapture
<1>21. DoomedOK'
  <2>1. DoomedOK /\ doomed \subseteq Ids /\ t \notin doomed /\ NoCapture.artifact = 0
    BY DEF IInv, TypeOK, DoomedOK, NoCapture, t
  <2> QED
    BY <1>1, <1>8, <1>10, <2>1 DEF DoomedOK
<1>22. ASSUME NEW o \in Workers PROVE HandOK(o)'
  <2>1. HandOK(o)
    BY DEF IInv
  <2> QED
    BY <1>1, <1>4, <1>10, <1>11, <2>1 DEF HandOK
<1>23. ReaperOK'
  <2>1. ReaperOK
    BY DEF IInv
  <2>2. reaper.step # "idle" => reaper.artifact # t
    BY <1>4, <2>1 DEF ReaperOK, Purgeable
  <2>3. reaper.step \in {"idle", "tombstone", "delete", "finish"}
    BY DEF IInv, TypeOK
  <2> QED
    BY <1>1, <1>10, <2>1, <2>2, <2>3 DEF ReaperOK, Purgeable
<1> QED
  BY <1>14, <1>15, <1>16, <1>17, <1>18, <1>19, <1>20, <1>21, <1>22, <1>23 DEF IInv
-----------------------------------------------------------------------------
(* Submissions.                                                            *)

LEMMA VersionAdded ==
    ASSUME TypeOK, NEW s \in Seq(VersionRows), Len(s) = Len(versions),
           NEW row \in VersionRows, versions' = Append(s, row)
    PROVE  /\ versions' \in Seq(VersionRows) /\ Len(versions') = Len(versions) + 1
           /\ DOMAIN versions' = DOMAIN versions \union {Len(versions) + 1}
           /\ Len(versions) + 1 \notin DOMAIN versions
           /\ versions'[Len(versions) + 1] = row
           /\ \A v \in DOMAIN versions : versions'[v] = s[v]
<1>1. Len(versions) \in Nat /\ DOMAIN versions = 1..Len(versions)
  BY Typed
<1>2. /\ versions' \in Seq(VersionRows) /\ Len(versions') = Len(s) + 1
      /\ \A i \in 1..Len(s) : versions'[i] = s[i]
      /\ versions'[Len(s) + 1] = row
  BY AppendProperties
<1>3. DOMAIN versions' = 1..Len(versions')
  BY <1>2, LenProperties
<1> QED
  BY <1>1, <1>2, <1>3

LEMMA SupersedingKeeps ==
    ASSUME TypeOK, NEW phase
    PROVE  /\ Superseding(phase) \in Seq(VersionRows)
           /\ Len(Superseding(phase)) = Len(versions)
           /\ \A v \in DOMAIN versions :
                /\ Superseding(phase)[v].artifact = versions[v].artifact
                /\ Superseding(phase)[v].operation = versions[v].operation
<1> DEFINE s == Superseding(phase)
           n == Len(versions)
<1>1. n \in Nat /\ DOMAIN versions = 1..n
  BY Typed
<1>2. \A v \in DOMAIN versions : versions[v] \in VersionRows
  BY Typed
<1>3. \A row \in VersionRows :
        /\ [row EXCEPT !.status = "superseded"] \in VersionRows
        /\ [row EXCEPT !.status = "superseded"].artifact = row.artifact
        /\ [row EXCEPT !.status = "superseded"].operation = row.operation
  BY DEF VersionRows
<1>4. s \in [1..n -> VersionRows]
  BY <1>1, <1>2, <1>3 DEF Superseding
<1>5. s \in Seq(VersionRows) /\ Len(s) = n
  BY <1>1, <1>4
<1>6. \A v \in DOMAIN versions :
        s[v].artifact = versions[v].artifact /\ s[v].operation = versions[v].operation
  BY <1>1, <1>2, <1>3 DEF Superseding
<1> QED
  BY <1>5, <1>6

\* A version more, and perhaps the row and object of an upload that take the
\* next id.
LEMMA SubmissionAdds ==
    ASSUME IInv, NEW s \in Seq(VersionRows), Len(s) = Len(versions),
           \A v \in DOMAIN versions :
              s[v].artifact = versions[v].artifact /\ s[v].operation = versions[v].operation,
           NEW row \in VersionRows, versions' = Append(s, row),
           current' \in 0..Len(versions) + 1,
           UNCHANGED <<staged, capture, workerVars, retentionVars>>,
           \/ /\ UNCHANGED <<artifacts, final, serial>>
              /\ row.artifact # 0 => /\ artifacts[row.artifact].state = "uploaded"
                                     /\ row.artifact \in Ids /\ row.operation = "succeeded"
           \/ /\ serial < MaxArtifacts
              /\ serial' = serial + 1
              /\ artifacts' = [artifacts EXCEPT ![serial + 1] = Uploaded]
              /\ final' = final \union {serial + 1}
              /\ row.artifact = serial + 1 /\ row.operation = "succeeded"
    PROVE  IInv'
<1> DEFINE k == serial + 1
           n == Len(versions) + 1
<1>1. UNCHANGED <<staged, capture, hands, doomed, archived, reaper>>
  BY DEF workerVars, retentionVars
<1>2. /\ versions' \in Seq(VersionRows) /\ Len(versions') = n
      /\ DOMAIN versions' = DOMAIN versions \union {n} /\ n \notin DOMAIN versions
      /\ versions'[n] = row
      /\ \A v \in DOMAIN versions : versions'[v] = s[v]
  BY VersionAdded DEF IInv
<1>3. \A v \in DOMAIN versions :
        /\ versions'[v].artifact = versions[v].artifact
        /\ versions'[v].operation = versions[v].operation
  BY <1>2
<1>4. /\ 0 \notin Ids /\ \A t \in Ids : t \in Nat
      /\ \A v \in DOMAIN versions : versions[v].artifact # 0 => versions[v].artifact \in Ids
  BY Typed DEF IInv, VersionRows
<1> DEFINE found == /\ UNCHANGED <<artifacts, final, serial>>
                    /\ row.artifact # 0 => /\ artifacts[row.artifact].state = "uploaded"
                                           /\ row.artifact \in Ids /\ row.operation = "succeeded"
           made == /\ serial < MaxArtifacts /\ serial' = k
                   /\ artifacts' = [artifacts EXCEPT ![k] = Uploaded]
                   /\ final' = final \union {k}
                   /\ row.artifact = k /\ row.operation = "succeeded"
<1>a. found \/ made
  OBVIOUS
<1>b. /\ artifacts \in [Ids -> ArtifactRows] /\ final \subseteq Ids
      /\ serial \in 0..MaxArtifacts /\ MaxArtifacts \in Nat
  BY ArtifactsAssumption DEF IInv, TypeOK
<1>5. /\ serial \in Nat /\ serial' \in 0..MaxArtifacts /\ serial' >= serial
      /\ \A t \in Ids : t > serial' => t > serial
      /\ k > serial
  BY <1>4, <1>a, <1>b
<1>6. /\ artifacts' \in [Ids -> ArtifactRows] /\ final' \subseteq Ids
      /\ final \subseteq final' /\ final' \subseteq final \union {k}
      /\ \A t \in Ids :
            \/ artifacts'[t] = artifacts[t] /\ (t \in final' => t \in final)
            \/ /\ t = k /\ artifacts'[t] = Uploaded /\ t \in final'
               /\ artifacts[t].state = "absent" /\ serial' = k
  <2>1. CASE found
    BY <1>b, <2>1
  <2>2. CASE made
    <3>1. k \in Ids /\ k > serial
      BY <2>2, <1>b DEF Ids
    <3>2. artifacts[k].state = "absent"
      BY <3>1 DEF IInv, FreshOK
    <3> HIDE DEF k
    <3> QED
      BY <1>b, <2>2, <3>1, <3>2, NewRows
  <2> QED
    BY <1>a, <2>1, <2>2
<1>7. /\ row.artifact # 0 => /\ row.artifact \in Ids /\ artifacts'[row.artifact].state = "uploaded"
                             /\ row.operation = "succeeded"
  <2>1. CASE found
    BY <2>1
  <2>2. CASE made
    <3>1. k \in Ids
      BY <2>2, <1>b DEF Ids
    <3> QED
      BY <1>b, <2>2, <3>1, NewRows
  <2> QED
    BY <1>a, <2>1, <2>2
<1>8. \A t \in Ids : artifacts[t].state = "absent" =>
        artifacts[t].digest = "none" /\ artifacts[t].tombstone = "none"
  BY DEF IInv, RowOK, Purgeable
<1> HIDE DEF k, n, found, made
<1>9. \A t \in Ids : /\ artifacts'[t].digest = artifacts[t].digest
                     /\ artifacts'[t].tombstone = artifacts[t].tombstone
                     /\ artifacts'[t].state # artifacts[t].state =>
                          /\ artifacts[t].state = "absent" /\ artifacts'[t].state = "uploaded"
                          /\ t = k /\ serial' = k
  BY <1>6, <1>8, NewRows
<1>10. TypeOK'
  BY <1>1, <1>2, <1>5, <1>6 DEF IInv, TypeOK, n
<1>11. ASSUME NEW t \in Ids PROVE RowOK(t)'
  <2>1. CASE artifacts'[t] = artifacts[t] /\ (t \in final' => t \in final)
    <3>1. RowOK(t)
      BY DEF IInv
    <3> QED
      BY <1>1, <1>6, <2>1, <3>1 DEF RowOK, Purgeable
  <2>2. CASE artifacts'[t] = Uploaded /\ t \in final'
    BY <2>2, NewRows DEF RowOK, Purgeable, Live
  <2> QED
    BY <1>6, <2>1, <2>2
<1>12. FreshOK'
  <2>1. FreshOK
    BY DEF IInv
  <2> QED
    BY <1>1, <1>4, <1>5, <1>9, <2>1 DEF FreshOK
<1>13. ContentOnce'
  BY <1>9 DEF IInv, ContentOnce
<1>14. OwnerOnce'
  <2>1. OwnerOnce
    BY DEF IInv
  <2>2. row.artifact # 0 => artifacts[row.artifact].digest = "none"
    <3>1. \A t \in Ids : artifacts'[t].state = "uploaded" => artifacts'[t].digest = "none"
      BY <1>11 DEF RowOK
    <3> QED
      BY <1>7, <1>9, <3>1
  <2>3. \A t \in Ids : artifacts'[t].digest # "none" =>
            \E v \in DOMAIN versions' : versions'[v].artifact = t
    BY <1>2, <1>3, <1>9, <2>1 DEF OwnerOnce
  <2>4. ASSUME NEW v \in DOMAIN versions', NEW u \in DOMAIN versions',
               versions'[v].artifact # 0, artifacts'[versions'[v].artifact].digest # "none",
               versions'[u].artifact = versions'[v].artifact
        PROVE  u = v
    <3>1. versions'[v].artifact \in Ids
      BY <1>2, <1>3, <1>4, <1>7, <2>4
    <3>2. artifacts[versions'[v].artifact].digest # "none"
      BY <1>9, <2>4, <3>1
    <3>3. v # n /\ u # n
      BY <1>2, <2>2, <2>4, <3>2
    <3> QED
      BY <1>2, <1>3, <2>1, <2>4, <3>2, <3>3 DEF OwnerOnce
  <2> QED
    BY <2>3, <2>4 DEF OwnerOnce
<1>15. OperationsOK'
  <2> SUFFICES ASSUME NEW v \in DOMAIN versions', versions'[v].artifact # 0
               PROVE  Tells(versions'[v].operation, artifacts'[versions'[v].artifact].state)
    BY DEF OperationsOK
  <2>1. CASE v = n
    BY <1>2, <1>7, <2>1 DEF Tells
  <2>2. CASE v # n
    <3>1. Tells(versions[v].operation, artifacts[versions[v].artifact].state)
      BY <1>2, <1>3, <2>2 DEF IInv, OperationsOK
    <3>2. artifacts[versions[v].artifact].state # "absent"
      BY <3>1 DEF Tells, Live
    <3> QED
      BY <1>2, <1>3, <1>4, <1>9, <2>2, <3>1, <3>2
  <2> QED
    BY <2>1, <2>2
<1>16. CaptureOK'
  <2>1. CaptureOK
    BY DEF IInv
  <2>2. capture.stage = "staged" => capture.artifact \in Ids /\ capture.artifact # k
    <3>1. capture.stage = "staged" => capture.artifact \in Ids /\ capture.artifact \in staged
      BY <2>1 DEF CaptureOK
    <3>2. capture.artifact \in Ids /\ capture.artifact \in staged => ~(capture.artifact > serial)
      BY DEF IInv, FreshOK
    <3>3. k > serial
      BY <1>5
    <3> QED
      BY <3>1, <3>2, <3>3
  <2> QED
    BY <1>1, <1>2, <1>3, <1>9, <2>1, <2>2 DEF CaptureOK
<1>17. DoomedOK'
  <2>1. DoomedOK /\ doomed \subseteq Ids
    BY DEF IInv, TypeOK
  <2> QED
    BY <1>1, <1>4, <1>5, <1>9, <2>1 DEF DoomedOK, Live
<1>18. ASSUME NEW o \in Workers PROVE HandOK(o)'
  <2>1. HandOK(o)
    BY DEF IInv
  <2> QED
    BY <1>1, <1>6, <1>9, <2>1 DEF HandOK
<1>19. ReaperOK'
  <2>1. ReaperOK /\ reaper.step \in {"idle", "tombstone", "delete", "finish"}
    BY DEF IInv, TypeOK
  <2> QED
    BY <1>1, <1>6, <1>9, <2>1 DEF ReaperOK, Purgeable
<1> QED
  BY <1>10, <1>11, <1>12, <1>13, <1>14, <1>15, <1>16, <1>17, <1>18, <1>19 DEF IInv

LEMMA SubmitStep ==
    ASSUME IInv, NEW phase \in {"before_deadline", "revision"}, Submit(phase) \/ SubmitUploaded(phase)
    PROVE  IInv'
<1>1. current' \in 0..Len(versions) + 1
  BY Typed DEF IInv, TypeOK, Submit, SubmitUploaded, Pointer
<1>2. UNCHANGED <<staged, capture, workerVars, retentionVars>>
  BY DEF Submit, SubmitUploaded, bucketVars
<1>3. versions \in Seq(VersionRows)
  BY DEF IInv, TypeOK
<1>4. CASE Submit(phase)
  <2> DEFINE status == IF phase = "before_deadline" THEN "validating" ELSE "pending_review"
             row == Version(phase, status, 0, "pending")
  <2>1. row \in VersionRows /\ row.artifact = 0
    BY DEF Version, VersionRows
  <2>2. versions' = Append(Superseding(phase), row) /\ UNCHANGED <<artifacts, final, serial>>
    BY <1>4 DEF Submit, bucketVars
  <2> HIDE DEF row
  <2> QED
    BY <1>1, <1>2, <2>1, <2>2, SupersedingKeeps, SubmissionAdds DEF IInv
<1>5. CASE SubmitUploaded(phase)
  <2>1. CASE \E t \in Ids :
                /\ artifacts[t].state = "uploaded"
                /\ versions' = Append(versions, Version(phase, "ready", t, "succeeded"))
                /\ UNCHANGED <<artifacts, final, serial>>
    <3> PICK t \in Ids :
            /\ artifacts[t].state = "uploaded"
            /\ versions' = Append(versions, Version(phase, "ready", t, "succeeded"))
            /\ UNCHANGED <<artifacts, final, serial>>
      BY <2>1
    <3> DEFINE row == Version(phase, "ready", t, "succeeded")
    <3>1. row \in VersionRows /\ row.artifact = t /\ row.operation = "succeeded"
      BY DEF Version, VersionRows
    <3>2. versions' = Append(versions, row)
      OBVIOUS
    <3> HIDE DEF row
    <3> QED
      BY <1>1, <1>2, <1>3, <3>1, <3>2, SubmissionAdds
  <2>2. CASE /\ serial < MaxArtifacts
             /\ serial' = serial + 1
             /\ artifacts' = [artifacts EXCEPT ![serial'] = Uploaded]
             /\ final' = final \union {serial'}
             /\ versions' = Append(versions, Version(phase, "ready", serial', "succeeded"))
    <3> DEFINE row == Version(phase, "ready", serial + 1, "succeeded")
    <3>1. serial + 1 \in Ids
      BY <2>2, ArtifactsAssumption DEF IInv, TypeOK, Ids
    <3>2. row \in VersionRows /\ row.artifact = serial + 1 /\ row.operation = "succeeded"
      BY <3>1 DEF Version, VersionRows
    <3>3. versions' = Append(versions, row)
      BY <2>2
    <3> HIDE DEF row
    <3> QED
      BY <1>1, <1>2, <1>3, <2>2, <3>2, <3>3, SubmissionAdds
  <2> QED
    BY <1>5, <2>1, <2>2 DEF SubmitUploaded
<1> QED
  BY <1>4, <1>5
-----------------------------------------------------------------------------
(* The cleaner and retention.                                              *)

LEMMA CleanerStep == ASSUME IInv, Inspect \/ Sweep PROVE IInv'
<1>1. UNCHANGED <<versions, current, artifacts, serial, capture, final, hands, archived, reaper>>
  BY DEF Inspect, Sweep, submissionVars, bucketVars, retentionVars
<1>2. /\ staged' \subseteq staged /\ \A t \in staged \ staged' : t \in doomed
      /\ doomed' \subseteq doomed \union staged
      /\ \A t \in doomed' : t \in doomed \/ (t # capture.artifact /\ artifacts[t].state \notin Live)
  BY DEF Inspect, Sweep, bucketVars, HasLiveStagedIntent
<1>3. /\ staged \subseteq Ids /\ doomed \subseteq Ids /\ \A t \in Ids : t \in Nat
      /\ DoomedOK /\ serial \in Nat
  BY Typed, ArtifactsAssumption DEF IInv, TypeOK
<1>4. TypeOK'
  BY <1>1, <1>2 DEF IInv, TypeOK
<1>5. ASSUME NEW t \in Ids PROVE RowOK(t)'
  <2>1. RowOK(t)
    BY DEF IInv
  <2> QED
    BY <1>1, <1>2, <1>3, <2>1 DEF RowOK, Purgeable, DoomedOK
<1>6. FreshOK' /\ ContentOnce' /\ OwnerOnce' /\ OperationsOK'
  BY <1>1, <1>2 DEF IInv, FreshOK, ContentOnce, OwnerOnce, OperationsOK
<1>7. CaptureOK'
  <2>1. CaptureOK
    BY DEF IInv
  <2> QED
    BY <1>1, <1>2, <1>3, <2>1 DEF CaptureOK, DoomedOK
<1>8. DoomedOK'
  <2>1. \A t \in staged : t <= serial
    BY <1>3 DEF IInv, FreshOK
  <2> QED
    BY <1>1, <1>2, <1>3, <2>1 DEF DoomedOK
<1>9. /\ \A w \in Workers : HandOK(w)'
      /\ ReaperOK'
  BY <1>1 DEF IInv, HandOK, ReaperOK, Purgeable
<1> QED
  BY <1>4, <1>5, <1>6, <1>7, <1>8, <1>9 DEF IInv

\* A retention pass starts, deletes the object under its tombstone, or ends; the
\* database does not change.
LEMMA ReaperAlone ==
    ASSUME IInv, UNCHANGED <<submissionVars, artifacts, serial, capture, staged, workerVars>>,
           archived' \in BOOLEAN,
           reaper' \in [artifact : Ids \union {0}, step : {"idle", "tombstone", "delete", "finish"}],
           ReaperOK',
           reaper'.artifact \in {0, reaper.artifact}
             \/ \A w \in Workers : hands[w].artifact # reaper'.artifact,
           \/ UNCHANGED final
           \/ /\ final' = final \ {reaper.artifact}
              /\ reaper.artifact \in Ids /\ artifacts[reaper.artifact].tombstone # "none"
    PROVE  IInv'
<1>1. UNCHANGED <<versions, current, artifacts, serial, capture, staged, hands, doomed>>
  BY DEF submissionVars, workerVars
<1>2. 0 \notin Ids
  BY Typed DEF IInv
<1>3. TypeOK'
  BY <1>1 DEF IInv, TypeOK
<1>4. ASSUME NEW t \in Ids PROVE RowOK(t)'
  <2>1. RowOK(t)
    BY DEF IInv
  <2> QED
    BY <1>1, <2>1 DEF RowOK, Purgeable
<1>5. FreshOK' /\ ContentOnce' /\ OwnerOnce' /\ OperationsOK' /\ CaptureOK' /\ DoomedOK'
  BY <1>1 DEF IInv, FreshOK, ContentOnce, OwnerOnce, OperationsOK, CaptureOK, DoomedOK
<1>6. ASSUME NEW w \in Workers PROVE HandOK(w)'
  <2>1. HandOK(w)
    BY DEF IInv
  <2> QED
    BY <1>1, <1>2, <2>1 DEF HandOK
<1> QED
  BY <1>3, <1>4, <1>5, <1>6 DEF IInv

LEMMA ReaperTypes ==
    ASSUME IInv
    PROVE  /\ reaper \in [artifact : Ids \union {0}, step : {"idle", "tombstone", "delete", "finish"}]
           /\ ReaperOK /\ archived \in BOOLEAN
           /\ NoClaim \in [artifact : Ids \union {0}, step : {"idle", "tombstone", "delete", "finish"}]
           /\ NoClaim.step = "idle" /\ NoClaim.artifact = 0
BY DEF IInv, TypeOK, NoClaim

LEMMA ArchiveStep == ASSUME IInv, Archive PROVE IInv'
<1>1. /\ UNCHANGED <<submissionVars, artifacts, serial, capture, staged, final, workerVars, reaper>>
      /\ archived' \in BOOLEAN
  BY ReaperTypes DEF Archive, bucketVars
<1>2. ReaperOK'
  BY <1>1, ReaperTypes DEF ReaperOK, Purgeable
<1> QED
  BY <1>1, <1>2, ReaperTypes, ReaperAlone

LEMMA ClaimForRemovalStep ==
    ASSUME IInv, NEW t \in Ids, ClaimForRemoval(t)
    PROVE  IInv'
<1>1. /\ UNCHANGED <<submissionVars, artifacts, serial, capture, staged, final, workerVars, archived>>
      /\ reaper' = [artifact |-> t, step |-> "tombstone"]
      /\ Purgeable(t) /\ artifacts[t].tombstone # "removed"
      /\ \A w \in Workers : hands[w].artifact # t
  BY DEF ClaimForRemoval, bucketVars
<1>2. ReaperOK'
  BY <1>1 DEF ReaperOK, Purgeable
<1> QED
  BY <1>1, <1>2, ReaperTypes, ReaperAlone

LEMMA DeleteObjectStep == ASSUME IInv, DeleteObject PROVE IInv'
<1>1. /\ UNCHANGED <<submissionVars, artifacts, serial, capture, staged, workerVars, archived>>
      /\ reaper.step = "delete"
      /\ reaper' = [reaper EXCEPT !.step = "finish"]
      /\ final' = final \ {reaper.artifact}
  BY DEF DeleteObject, ReadyToDelete
<1>2. /\ reaper' \in [artifact : Ids \union {0}, step : {"idle", "tombstone", "delete", "finish"}]
      /\ reaper'.artifact = reaper.artifact /\ reaper'.step = "finish"
  BY <1>1, ReaperTypes
<1>3. /\ reaper.artifact \in Ids /\ Purgeable(reaper.artifact)
      /\ artifacts[reaper.artifact].tombstone = "delete_pending"
  BY <1>1, ReaperTypes DEF ReaperOK
<1>4. ReaperOK'
  BY <1>1, <1>2, <1>3 DEF ReaperOK, Purgeable
<1> QED
  BY <1>1, <1>2, <1>3, <1>4, ReaperTypes, ReaperAlone

LEMMA PassEnds ==
    ASSUME IInv, reaper' = NoClaim,
           UNCHANGED <<submissionVars, artifacts, serial, capture, bucketVars, workerVars, archived>>
    PROVE  IInv'
<1>1. UNCHANGED <<staged, final>>
  BY DEF bucketVars
<1>2. ReaperOK'
  BY ReaperTypes DEF ReaperOK
<1> QED
  BY <1>1, <1>2, ReaperTypes, ReaperAlone

\* The tombstone of the artifact the retention worker has claimed is written.
LEMMA TombstoneWritten ==
    ASSUME IInv, NEW t \in Ids, t = reaper.artifact, reaper.step # "idle",
           NEW tombstone \in {"delete_pending", "removed"},
           artifacts' = [artifacts EXCEPT ![t].tombstone = tombstone],
           tombstone = "removed" => t \notin final,
           reaper' \in [artifact : Ids \union {0}, step : {"idle", "tombstone", "delete", "finish"}],
           \/ reaper' = NoClaim
           \/ reaper'.artifact = t /\ reaper'.step = "delete" /\ tombstone = "delete_pending",
           UNCHANGED <<submissionVars, serial, capture, bucketVars, workerVars, archived>>
    PROVE  IInv'
<1> DEFINE row == [artifacts[t] EXCEPT !.tombstone = tombstone]
<1>1. UNCHANGED <<versions, current, serial, capture, staged, final, hands, doomed, archived>>
  BY DEF submissionVars, bucketVars, workerVars
<1>2. artifacts[t] \in ArtifactRows /\ 0 \notin Ids
  BY Typed DEF IInv
<1>3. /\ row \in ArtifactRows /\ row.digest = artifacts[t].digest /\ row.state = artifacts[t].state
      /\ row.tombstone = tombstone /\ row.lease = artifacts[t].lease
  BY <1>2 DEF ArtifactRows
<1>4. artifacts' = [artifacts EXCEPT ![t] = row]
  OBVIOUS
<1> HIDE DEF row
<1>5. /\ artifacts' \in [Ids -> ArtifactRows] /\ artifacts'[t] = row
      /\ \A x \in Ids : x # t => artifacts'[x] = artifacts[x]
  BY <1>3, <1>4 DEF IInv, TypeOK
<1>6. \A x \in Ids : artifacts'[x].digest = artifacts[x].digest
                     /\ artifacts'[x].state = artifacts[x].state
  BY <1>3, <1>5
<1>7. ReaperOK /\ Purgeable(t)
  BY ReaperTypes DEF ReaperOK
<1>8. TypeOK'
  BY <1>1, <1>5 DEF IInv, TypeOK
<1>9. ASSUME NEW x \in Ids PROVE RowOK(x)'
  <2>1. RowOK(x)
    BY DEF IInv
  <2>2. CASE x = t
    BY <1>1, <1>3, <1>5, <1>7, <2>1, <2>2 DEF RowOK, Purgeable
  <2>3. CASE x # t
    BY <1>1, <1>5, <2>1, <2>3 DEF RowOK, Purgeable
  <2> QED
    BY <2>2, <2>3
<1>10. FreshOK' /\ ContentOnce' /\ DoomedOK'
  <2>1. doomed \subseteq Ids
    BY DEF IInv, TypeOK
  <2> QED
    BY <1>1, <1>6, <2>1 DEF IInv, FreshOK, ContentOnce, DoomedOK
<1>11. OwnerOnce' /\ OperationsOK'
  <2>1. \A v \in DOMAIN versions : versions[v].artifact # 0 => versions[v].artifact \in Ids
    BY Typed DEF IInv, VersionRows
  <2>2. OwnerOnce /\ OperationsOK
    BY DEF IInv
  <2> QED
    BY <1>1, <1>6, <2>1, <2>2 DEF OwnerOnce, OperationsOK
<1>12. CaptureOK'
  BY <1>1, <1>6 DEF IInv, CaptureOK
<1>13. ASSUME NEW w \in Workers PROVE HandOK(w)'
  <2>1. HandOK(w) /\ (hands[w].step # "idle" => hands[w].artifact # t)
    BY DEF IInv, HandOK
  <2>2. reaper'.artifact \in {0, t}
    BY DEF NoClaim
  <2> QED
    BY <1>1, <1>2, <1>5, <1>6, <2>1, <2>2 DEF HandOK
<1>14. ReaperOK'
  BY <1>3, <1>5, <1>7, ReaperTypes DEF ReaperOK, Purgeable
<1> QED
  BY <1>8, <1>9, <1>10, <1>11, <1>12, <1>13, <1>14 DEF IInv

LEMMA TombstoneStep ==
    ASSUME IInv, WriteTombstone \/ CompleteObjectDeletion
    PROVE  IInv'
<1> DEFINE t == reaper.artifact
           next == [reaper EXCEPT !.step = "delete"]
<1>1. /\ UNCHANGED <<submissionVars, serial, capture, bucketVars, workerVars, archived>>
      /\ \/ /\ artifacts' = [artifacts EXCEPT ![t].tombstone = "delete_pending"]
            /\ reaper' = next /\ reaper.step = "tombstone"
         \/ artifacts' = artifacts /\ reaper' = NoClaim
         \/ /\ artifacts' = [artifacts EXCEPT ![t].tombstone = "removed"]
            /\ reaper' = NoClaim /\ reaper.step = "finish"
  BY DEF WriteTombstone, CompleteObjectDeletion
<1>2. /\ next \in [artifact : Ids \union {0}, step : {"idle", "tombstone", "delete", "finish"}]
      /\ next.artifact = t /\ next.step = "delete"
  BY ReaperTypes
<1>3. /\ reaper.step # "idle" => t \in Ids
      /\ reaper.step = "finish" => t \notin final
  BY ReaperTypes DEF ReaperOK
<1> HIDE DEF next
<1>4. CASE /\ artifacts' = [artifacts EXCEPT ![t].tombstone = "delete_pending"]
           /\ reaper' = next /\ reaper.step = "tombstone"
  BY <1>1, <1>2, <1>3, <1>4, TombstoneWritten
<1>5. CASE artifacts' = artifacts /\ reaper' = NoClaim
  BY <1>1, <1>5, PassEnds
<1>6. CASE /\ artifacts' = [artifacts EXCEPT ![t].tombstone = "removed"]
           /\ reaper' = NoClaim /\ reaper.step = "finish"
  BY <1>1, <1>3, <1>6, ReaperTypes, TombstoneWritten
<1> QED
  BY <1>1, <1>4, <1>5, <1>6

-----------------------------------------------------------------------------
LEMMA InitIInv == Init => IInv
<1> SUFFICES ASSUME Init PROVE IInv
  OBVIOUS
<1>1. versions \in Seq(VersionRows) /\ Len(versions) = 0 /\ DOMAIN versions = {}
  BY DEF Init
<1>2. TypeOK
  <2>1. artifacts \in [Ids -> ArtifactRows] /\ current \in 0..Len(versions)
    BY <1>1, NewRows DEF Init
  <2>2. /\ capture \in [version : Nat, digest : Contents \union {"none"}, artifact : Ids \union {0},
                        stage : {"none", "called", "staged"}]
        /\ reaper \in [artifact : Ids \union {0}, step : {"idle", "tombstone", "delete", "finish"}]
    BY DEF Init, NoCapture, NoClaim
  <2>3. hands \in [Workers -> [artifact : Ids \union {0}, attempt : Nat,
                  step : {"idle", "fetch", "store", "complete", "tidy", "failed"}]]
    BY IdleHand DEF Init, HandSets
  <2>4. /\ staged \subseteq Ids /\ final \subseteq Ids /\ doomed \subseteq Ids
        /\ serial \in 0..MaxArtifacts
    BY ArtifactsAssumption DEF Init
  <2>5. archived \in BOOLEAN
    BY Zenon DEF Init
  <2> QED
    BY <1>1, <2>1, <2>2, <2>3, <2>4, <2>5 DEF TypeOK
<1>3. \A t \in Ids : artifacts[t] = Absent
  BY DEF Init
<1>4. \A t \in Ids : RowOK(t)
  BY <1>3, NewRows DEF RowOK, Purgeable, Live
<1>5. FreshOK /\ ContentOnce /\ OwnerOnce /\ OperationsOK
  BY <1>1, <1>3, NewRows DEF Init, FreshOK, ContentOnce, OwnerOnce, OperationsOK
<1>6. CaptureOK /\ DoomedOK /\ ReaperOK
  BY DEF Init, CaptureOK, DoomedOK, ReaperOK, NoCapture, NoClaim
<1>7. \A w \in Workers : HandOK(w)
  BY IdleHand DEF Init, HandOK
<1> QED
  BY <1>2, <1>4, <1>5, <1>6, <1>7 DEF IInv

LEMMA StepIInv == IInv /\ [Next]_vars => IInv'
<1> SUFFICES ASSUME IInv, [Next]_vars PROVE IInv'
  OBVIOUS
<1>1. ASSUME NEW phase \in {"before_deadline", "revision"}, Submit(phase) \/ SubmitUploaded(phase)
      PROVE  IInv'
  BY <1>1, SubmitStep
<1>2. ASSUME NEW v \in DOMAIN versions, StartCapture(v) PROVE IInv'
  BY <1>2, CaptureAlone
<1>3. CASE CaptureFails \/ CaptureRepeated
  BY <1>3, RecordFailureStep DEF CaptureFails, CaptureRepeated
<1>4. CASE CaptureRollsBack
  BY <1>4, CaptureAlone
<1>5. CASE Stage
  BY <1>5, StageStep
<1>6. CASE CommitCapture
  BY <1>6, CommitCaptureStep
<1>7. ASSUME NEW w \in Workers, NEW t \in Ids, Claim(w, t) \/ ForceExhausted(w, t)
      PROVE  IInv'
  BY <1>7, ClaimStep, ForceExhaustedStep
<1>8. ASSUME NEW w \in Workers, Complete(w) \/ RecordPromotionFailure(w) \/ Abandon(w)
      PROVE  IInv'
  BY <1>8, CompleteStep, RecordPromotionFailureStep, DropStep
<1>9. ASSUME NEW w \in Workers, Fetch(w) \/ Store(w) \/ Tidy(w) \/ StorageFails(w)
      PROVE  IInv'
  BY <1>9, FetchStep, StoreStep, TidyStep
<1>10. ASSUME NEW t \in Ids, LeaseExpires(t) \/ RetryDue(t) \/ ClaimForRemoval(t)
       PROVE  IInv'
  BY <1>10, TimerStep, ClaimForRemovalStep
<1>11. CASE Inspect \/ Sweep
  BY <1>11, CleanerStep
<1>12. CASE Archive \/ DeleteObject
  BY <1>12, ArchiveStep, DeleteObjectStep
<1>13. CASE WriteTombstone \/ CompleteObjectDeletion
  BY <1>13, TombstoneStep
<1>14. CASE RetentionStops
  BY <1>14, PassEnds DEF RetentionStops
<1>15. CASE UNCHANGED vars
  <2>1. UNCHANGED <<versions, current, artifacts, serial, staged, final, capture, hands, doomed,
                    archived, reaper>>
    BY <1>15 DEF vars
  <2> QED
    BY <2>1 DEF IInv, TypeOK, RowOK, FreshOK, ContentOnce, OwnerOnce, OperationsOK, CaptureOK,
                DoomedOK, HandOK, ReaperOK, Purgeable
<1> QED
  BY <1>1, <1>2, <1>3, <1>4, <1>5, <1>6, <1>7, <1>8, <1>9, <1>10, <1>11, <1>12, <1>13, <1>14,
     <1>15 DEF Next

\* The inductive invariant holds in every reachable state.
THEOREM Invariance == Spec => []IInv
BY InitIInv, StepIInv, PTL DEF Spec

\* Versions, rows, objects, leases and claims stay in their sets.
THEOREM TypeCorrect == Spec => []TypeOK
<1>1. IInv => TypeOK
  BY DEF IInv
<1> QED
  BY <1>1, Invariance, PTL

\* No worker, cleaner or crash removes the staged object of a promotion that can
\* still be worked on.
THEOREM StagedStays == Spec => []StagedOutlivesIntent
<1>1. IInv => StagedOutlivesIntent
  BY DEF IInv, RowOK, StagedOutlivesIntent
<1> QED
  BY <1>1, Invariance, PTL

\* What the rows say of the final object is true of the bucket, and retention
\* marks only bytes that were delivered.
THEOREM BytesStay == Spec => []BytesOutliveReferences
<1>1. IInv => BytesOutliveReferences
  BY DEF IInv, RowOK, Purgeable, BytesOutliveReferences
<1> QED
  BY <1>1, Invariance, PTL

\* The Operation a student watches tells the state of the promotion.
THEOREM OperationIsTrue == Spec => []OperationTellsPromotion
<1>1. IInv => OperationTellsPromotion
  <2> SUFFICES ASSUME IInv, NEW v \in DOMAIN versions, versions[v].artifact # 0
               PROVE  LET promotion == artifacts[versions[v].artifact].state
                      IN  CASE versions[v].operation = "succeeded" -> promotion \in {"promoted", "uploaded"}
                            [] versions[v].operation = "action_required" -> promotion = "action_required"
                            [] versions[v].operation = "processing" -> promotion \in Live
                            [] versions[v].operation = "retryable_failed" -> promotion = "db_committed"
                            [] OTHER -> FALSE
    BY DEF OperationTellsPromotion
  <2>1. Tells(versions[v].operation, artifacts[versions[v].artifact].state)
    BY DEF IInv, OperationsOK
  <2> QED
    BY <2>1 DEF Tells
<1> QED
  BY <1>1, Invariance, PTL

\* A worker whose lease is still in force holds a promotion under way.
LEMMA ActiveIsLive ==
    ASSUME IInv, NEW w \in Workers, Active(w), hands[w].step # "idle"
    PROVE  hands[w].artifact \in Ids /\ artifacts[hands[w].artifact].state = "promoting"
BY DEF IInv, HandOK, Active

LEMMA SettledStep ==
    ASSUME IInv, [Next]_vars, NEW t \in Ids,
           artifacts[t].state \in {"promoted", "uploaded", "action_required"}
    PROVE  artifacts'[t].state = artifacts[t].state
<1> USE DEF submissionVars, bucketVars, workerVars, retentionVars
<1>0. /\ artifacts \in [Ids -> ArtifactRows] /\ serial \in Nat
      /\ \A x \in Ids : x \in Nat /\ artifacts[x] \in ArtifactRows
  BY Typed DEF IInv, TypeOK
<1>1. CASE UNCHANGED artifacts
  BY <1>1
<1>2. ASSUME NEW phase \in {"before_deadline", "revision"}, SubmitUploaded(phase)
      PROVE  artifacts'[t].state = artifacts[t].state
  <2>1. t <= serial
    BY <1>0 DEF IInv, FreshOK
  <2>2. CASE serial' = serial + 1 /\ artifacts' = [artifacts EXCEPT ![serial'] = Uploaded]
    BY <1>0, <2>1, <2>2
  <2> QED
    BY <1>2, <2>2 DEF SubmitUploaded
<1>3. CASE CommitCapture
  BY <1>0, <1>3 DEF CommitCapture, IInv, CaptureOK
<1>4. ASSUME NEW w \in Workers, NEW x \in Ids, Claim(w, x) \/ ForceExhausted(w, x)
      PROVE  artifacts'[t].state = artifacts[t].state
  BY <1>0, <1>4 DEF Claim, ForceExhausted, Claimable, WritePromotion
<1>5. ASSUME NEW w \in Workers, Complete(w) \/ RecordPromotionFailure(w)
      PROVE  artifacts'[t].state = artifacts[t].state
  <2>1. hands[w].step # "idle"
    BY <1>5 DEF Complete, ReadyToComplete, RecordPromotionFailure
  <2>2. CASE Active(w)
    <3>1. t # hands[w].artifact
      BY <2>1, <2>2, ActiveIsLive
    <3> QED
      BY <1>0, <1>5, <2>2, <3>1 DEF Complete, RecordPromotionFailure, WritePromotion
  <2>3. CASE ~Active(w)
    BY <1>5, <2>3 DEF Complete, RecordPromotionFailure
  <2> QED
    BY <2>2, <2>3
<1>6. ASSUME NEW x \in Ids, LeaseExpires(x) \/ RetryDue(x)
      PROVE  artifacts'[t].state = artifacts[t].state
  BY <1>0, <1>6 DEF LeaseExpires, RetryDue, ArtifactRows
<1>7. CASE WriteTombstone \/ CompleteObjectDeletion
  BY <1>0, <1>7 DEF WriteTombstone, CompleteObjectDeletion, ArtifactRows
<1> QED
  BY <1>1, <1>2, <1>3, <1>4, <1>5, <1>6, <1>7 DEF Next, vars, Submit, StartCapture, CaptureFails,
     CaptureRepeated, RecordFailure, CaptureRollsBack, Stage, Fetch, Store, Tidy, StorageFails,
     Abandon, ClaimForRemoval, Inspect, Sweep, Archive, DeleteObject, RetentionStops

\* A promotion that ended stays as it ended, whatever late workers still try.
THEOREM PromotionsEnd == Spec => SettledPromotionStays
<1>1. IInv /\ [Next]_vars =>
        [\A t \in Ids : artifacts[t].state \in {"promoted", "uploaded", "action_required"} =>
            artifacts'[t].state = artifacts[t].state]_vars
  BY SettledStep
<1> QED
  BY <1>1, Invariance, PTL DEF Spec, SettledPromotionStays

\* One content is captured once, and an artifact belongs to one version, however
\* often captures are redelivered, rolled back and retried.
THEOREM CapturesOnce == Spec => []CapturedOnce
<1>1. IInv => CapturedOnce
  <2> SUFFICES ASSUME IInv PROVE CapturedOnce
    OBVIOUS
  <2>1. ASSUME NEW digest \in Contents PROVE Cardinality(SameContent(digest)) <= 1
    <3>1. \A t, x \in SameContent(digest) : t = x
      BY ArtifactsAssumption DEF IInv, ContentOnce, SameContent
    <3>2. CASE SameContent(digest) = {}
      BY <3>2, FS_EmptySet
    <3>3. CASE SameContent(digest) # {}
      <4>1. PICK t : SameContent(digest) = {t}
        BY <3>1, <3>3
      <4>2. Cardinality({t}) = 1
        BY FS_Singleton
      <4> QED
        BY <4>1, <4>2
    <3> QED
      BY <3>2, <3>3
  <2>2. ASSUME NEW t \in Ids, artifacts[t].digest # "none"
        PROVE  Cardinality({v \in DOMAIN versions : versions[v].artifact = t}) = 1
    <3>1. 0 \notin Ids
      BY Typed DEF IInv
    <3>2. {v \in DOMAIN versions : versions[v].artifact = t} = {Owner(t)}
      BY <2>2, <3>1, OwnerLinks DEF IInv
    <3>3. Cardinality({Owner(t)}) = 1
      BY FS_Singleton
    <3> QED
      BY <3>2, <3>3, Zenon
  <2> QED
    BY <2>1, <2>2 DEF CapturedOnce
<1> QED
  BY <1>1, Invariance, PTL
=============================================================================
