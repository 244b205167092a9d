# A TLA+ verification of the review platform's backend core

The repository is a platform for reviewing students' homework: a backend core
(`src/backend`, Python, FastAPI, SQLAlchemy on MySQL, Taskiq on Redis), a
separate AI checking service (`src/prereview`) and a frontend. The backend's
own logic is mostly durable workflow: a command commits rows and an outbox
message in one transaction, processes pick the message up, call somebody
outside the database, and commit the answer. What is hard about it is never in
one function. It is what happens when two processes work on the same row, when
one dies between two transactions, when a message arrives twice, late or not at
all. That is what is modelled here.

Paths below are relative to `src/backend/src/review_platform` unless they start
with `src/`.

## 1. Inventory

| Component | State it keeps | Operations | Talks to | What is hard |
|---|---|---|---|---|
| Transactional outbox and relay (`infrastructure/db/outbox.py`, `infrastructure/tasks/outbox_relay.py`) | `outbox_messages`: state, attempts, lease token, owner and expiry, available_at | create, lease, recover expired, complete, fail; the relay's loop | every component that schedules work; Redis | leases that expire while their owner works, crashes between claim, publish and complete, attempt budgets |
| Taskiq broker and middleware (`infrastructure/tasks/broker.py`) | one semaphore per kind of task, a dictionary of claims by task id | pre_execute, post_execute, on_error, retry | relay, all task handlers | duplicates of one task id, failure hooks that fire twice |
| AI review (`application/services/ai_review_start.py`, `ai_review_events.py`, `infrastructure/tasks/ai_review.py`) | run, attempts, event receipts, Operation | start, dispatch, event ingestion | outbox, AI component | three writers of the same rows, events before the dispatch is recorded, supersession |
| Student self-review (`application/workspace/self_review.py`, `worker.py`) | quota, runs with leases, receipts, quota ledger | start, tick, callback, release, policy | AI service over HTTP | leases, callbacks racing lookups, quota counters, unknown outcomes |
| External delivery (`infrastructure/tasks/deliveries.py`, `infrastructure/db/repositories/deliveries.py`) | delivery, delivery attempts, observations, Operation | schedule, claim, finish, reconcile, manual retry | publication, outbox, provider | at-most-once effects on an outside system, snapshot reads, unknown outcomes |
| Review case (`application/services/review_iterations.py`, `review_drafts.py`, `review_requirements.py`, `review_publication.py`, `publication_requests.py`, `review_corrections.py`, the review routes of `api/routes/workspace.py`) | case with its pointer, iterations, drafts, requests, outcome, publications | open, save draft, save outcome, request, publish, migrate, add requirement, correct | submissions, delivery, requirements | optimistic concurrency over several rows, screens that are out of date |
| Homework versions and requirement impacts (`application/services/homeworks.py`, `review_requirement_impacts.py`, `infrastructure/tasks/review_impacts.py`) | publications of versions, durable event, impacts | publish a version, consume its event | outbox, review case | events late, repeated or overtaken by the next change |
| Submissions, capture, promotion (`application/services/submissions.py`, `artifact_capture.py`, `infrastructure/tasks/artifacts.py`, `object_storage/promotions.py`) | submission versions with their pointer, artifacts, promotion intents, capture Operations; objects in the bucket | submit, capture, promote, recover, clean staged objects | object storage, providers | a crash between object storage and SQL, leases, a cleaner beside the workers |
| Artifact retention (`infrastructure/tasks/retention.py`) | claims, tombstones | scan, claim, tombstone, delete | object storage | deleting what is referenced, a crash between tombstone and object |
| Commands, receipts and rights (`application/idempotency.py`, `infrastructure/db/adapters.py`, `api/routes/reviews.py`, `application/authorization.py`, `auth_guards/membership.py`, `services/memberships.py`) | command receipts, roles, auth epochs, row locks | reserve, replay, handle, revalidate, change roles | every command | replays, rights revoked between check and commit, lock cycles |
| Identity (`application/services/bootstrap.py`, `authentication.py`, `invitations.py`, `memberships.py`, `agent_authorizations.py`, `api/session_middleware.py`, `mcp/`) | users with roles and auth epoch, login states, invitations, sessions, agent tokens | activate, recover, log in, issue and revoke invitations, change roles, grant and revoke tokens, MCP calls | identity providers, every command | proofs read before the provider is asked and used after it, rights that change under open sessions and running calls |
| MCP tools (`mcp/`) | none of their own | one command each | commands | what their commands are exposed to |
| Course import, reviewer selections, availability | courses and their rows | import, edit | Taskiq | partial imports |
| Workspace screens | drafts, preparations, exports, assists | edit, export, assist worker | AI service | a second worker with leases |
| Prereview service | its job store | check a work | backend | an external service to the core |

`PROJECT.json` lists these with their files, and under "hazards" the places
where each can go wrong.

What makes the modelled components correct, in a sentence each:

* outbox: a signal is settled only after it was sent, and every signal is settled;
* AI review: run, attempt, Operation and receipts tell the same story, in the
  order the component numbered its events;
* self-review: the quota counters are the sum of what the runs hold and spent,
  a run is charged once, for a result, and is submitted once;
* concurrency limit: slots are neither lost nor invented;
* delivery: one provider call at a time, an unknown outcome is looked up before
  the next call, only recorded failures are repeated, and what was settled stays
  settled;
* review case: its iterations form one chain, nobody overwrites what he has not
  seen, and what a student is given is complete and never taken back;
* requirement impacts: a review that was open when its requirements changed is
  flagged;
* artifacts: what a promotion still needs is in the bucket, what a version shows
  is in the bucket until a tombstone says otherwise, a promotion that ended stays
  so, and the student's Operation tells how far it got;
* commands: one effect per idempotency key, told to every repetition, under
  rights that still hold at the commit;
* identity: a proof of identity admits once, whatever changes a member's roles
  ends his sessions, and an agent commits only with rights its owner still has.

## 2. Modules

| Module | Models | Reads |
|---|---|---|
| `SignalPromise` | what the outbox promises its callers: owed, sent, settled or parked, never settled unsent | - |
| `Outbox` | rows, leases and the relay processes | instantiates `SignalPromise` |
| `AIReview` | one run of one input fingerprint: start, dispatch, events | - |
| `SelfReview` | the runs of one draft, its quota and the worker loops | - |
| `KindConcurrency` | the semaphores of one worker process | - |
| `Delivery` | the deliveries of successive publications to one destination | - |
| `PublishedHistory` | what a student is promised about his results: they are only added, and only later iterations replace the current one | - |
| `ReviewCase` | one student's homework under review: iterations, drafts, requests, outcomes, publications | instantiates `PublishedHistory` |
| `RequirementImpacts` | publications of homework versions and the worker that flags the reviews they affect | extends `ReviewCase`: the composition of the two |
| `Artifacts` | submissions, capture, promotion, the cleaner of staged objects and retention | - |
| `Commands` | receipts, row locks and the check of rights in the route envelope | - |
| `Identity` | logins, sessions, invitations, roles and the tokens of agents | - |
| `OutboxProofs` | theorems about the path of a signal | extends `Outbox`, `KindConcurrency`, TLAPS |
| `ReviewCaseProofs` | theorems about a case and its requirements | extends `RequirementImpacts`, TLAPS |
| `AIReviewProofs`, `SelfReviewProofs`, `DeliveryProofs`, `ArtifactsProofs`, `CommandsProofs`, `IdentityProofs` | theorems | extend their component and TLAPS |
| `MC*` | the small instances TLC checks | extend their component |

One action is one committed transaction, or one step outside the database; a
request that is refused commits nothing and is no step. A transaction that
locks its rows first is one action. Where the code reads without a lock and
writes later in the same transaction (`Delivery`, under MySQL's REPEATABLE
READ), reading and writing are two actions. Where the code calls somebody
outside, the call is an action of its own and everything may happen in between.
The comment above each action names the function it stands for, and the "map"
of `PROJECT.json` its lines. An operator whose comment begins with "Mutant" is no
part of a specification: it is a plausible mistake in the definition below it,
which the properties are known to catch.

How the modules relate: a component that schedules work relies on the outbox
for what `SignalPromise` says, and its own module has the signal as a counter or
a flag that may be delivered, repeated or lost. Every command runs in the
envelope of `Commands` under the rights of `Identity`; the modules of the
components take a command as one step that either commits or does nothing,
which is what `Commands` checks. `ReviewCase` sees a submission as a row that is
there, `Artifacts` how its bytes get there.

### Outbox

`rows[m]` is a row of `outbox_messages`; `wait` and `ttl` count the ticks until
`available_at` and `lease_expires_at`, so the model needs no absolute clock.
`batch[r]` and `doing[r]` are what the relay process holds in memory in
`run_once`, lost in `Crash`. `serial` makes lease tokens fresh. `sent[m]` is a
history variable: copies of the signal that reached Redis.

`Claim` is `OutboxService.lease`: the recovery of rows whose last lease expired
and the batch of due rows, in one transaction. `Publish`/`PublishFails` are the
publisher's call, the failing one with and without effect. `Complete` and
`Fail` repeat the check of `_current_lease` and of the compare-and-set.

### AIReview

`run`, `attempts`, `operation`, `receipts` are the rows, `dispatches` and
`accepted` abstract the OperationAttempts dispatch workers write. `queue` counts
the copies of the AIReviewRequested signal and remembers whether one was lost.
`StartAttempt` includes the roll-back when the scheduler finds the Operation
with another payload. `RecordDispatch` is `_record_dispatch_outcome`, including
the dispatch budget; `Ingest` is `AIReviewEventService.ingest` with its receipt,
sequence, transition tables and stale target.

### SelfReview

`workers[w]` is the progress of a `tick`: claim, prepare, call, take the answer.
`leased[r]` says that `lease_until` lies in the future, and `owner[r]` whose
token the run carries; a worker that outlived its lease still holds the old
token and is fenced by `Holds`. `receipts` are event identities; `ledger` keeps
the quota events of a run in order. The HTTP service is external: it begins work
for a run only when a POST arrives, and answers lookups from what it issued.

### KindConcurrency

`claimed` is the middleware's dictionary; `PostExecute` and `OnError` are its hooks,
`Conclude` what follows `OnError` for a failed task: the retry middleware, called
after the concurrency middleware, queues a retryable one again, and `post_execute`
is called for failed tasks, too.

### Delivery

`state`, `count`, `operation` are the row and its Operation, `attempts[d][n]`
the DeliveryAttempt rows, `numbered` the greatest OperationAttempt number.
`_claim_delivery` compares the state on an unlocked snapshot; what makes a
second claim fail is the unique OperationAttempt number, computed from the same
snapshot (`NumberFree`). `observed` are the reconciliation observations: which attempt was
looked up with which outcome. `applied` belongs to the provider: which attempts
took effect.

What a call comes back with is any outcome of the contract, an exception, or the
result of another delivery (`Replies`). A timeout is mapped to `unknown_outcome`
and any other exception to `retryable_failed`, so neither needs an answer of its
own; what an exception adds is that a failed `Deliver` may have taken effect. For
`Reconcile`, `retryable_failed` is an answer like any other, with or without an
exception. A result of another delivery raises `DeliveryTaskError`, which both
functions let through: the task ends, the rows stay as they are, and `abandoned`
remembers it, like the death of the worker (`Replied`, `Crash`).

### ReviewCase

`submitted` are the submission versions, `opened` counts the iterations, `rows[i]`
is a ReviewIteration with revision, status, predecessor and requirements,
`drafts[i]` its ReviewRevisions in order, `pointer` the ReviewCase row, `outcome`,
`requests` and `publications` the rest of the tables; `closed` says what is
archived. `seen[r]` is what reviewer r last loaded: commands carry the numbers
and revisions of `seen`, never the present ones, so every combination of stale
screens occurs. Each action is one transaction that locks what it compares
(`Locked`, `LockedCurrent`). Scores are abstracted to how they stand to the pass
score: below it, at it only without the penalty for lateness, or at it in any
case. There are two ways to publish in the code, the review service's and the
workspace's, and both are actions (`Publish`, `PublishGraded`).

### RequirementImpacts

`history` are the rows of CourseRunHomeworkPublication, `events[n]` says whether the
durable event of the nth publication is on its way, handled or refused, and
`impacts` are the ReviewImpactEvents. `Consume` is the worker's transaction: it
finds the impact rows of the same pair of versions and the reviews under other
requirements, at whatever time it runs and however often. `Refuse` is the
branch in which the rows that exist contradict the event.

### Artifacts

`versions` and `current` are the SubmissionVersions and the pointer of the
Submission, `artifacts[t]` joins an ArtifactVersion with its promotion, `staged`
and `final` are the objects in the bucket. `capture` is the capture task, which
keeps its row locks over the provider call and the upload; `hands[w]` what a
promotion worker holds after its claim: its steps in the bucket (fetch, store,
tidy) interleave with the clock, other workers, the cleaner (`doomed`: keys it
has inspected and will delete) and retention (`reaper`). Death of a worker is
`Abandon`: the lease stays, the objects stay.

### Commands

`calls[r]` is where a call is in the envelope (rest, authorized, reserved,
handled, ...), with the actor snapshot it carries; `receipts`, `log`, `revision`
and `roles` are committed data, `organization` who has locked the organization's
row. A receipt's foreign key shares that row until the transaction ends, and the
final check wants it exclusively: two commands may wait for each other, and the
database rolls one back (`DeadlockVictim`). `Crash` ends a call anywhere.
`answers[r]` is what the client was told, for the properties.

### Identity

`roles` and `epoch` are the memberships (a revoked one has no roles), `states` and
`invitations` the one-time proofs, `sessions` and `tokens` the credentials handed
out, each with the epoch it was made under; sessions also remember, for the
properties, by which proof and with which roles they were opened. `calls[c]` is
what a request has read so far: a login its proof and the answer of the identity
provider, a member or an agent the rights it was admitted with. The second half
of each (`FinishLogin`, `FinishInvited`, `Fresh`, `AgentFresh`) is the locked part.
`Lapse` is the passing of an `expires_at`. Scopes of tokens are left out: a grant
needs a reviewer, whose role has all scopes. A person has one external
identity, and a key of the operator is used for the identity it was bound to.

## 3. Runs

| Run | Bounds | Shows |
|---|---|---|
| `Outbox` | 2 messages with budgets 3 and 2, 2 relays, batches of 2, leases of 2 ticks, delays up to 3 | duplicates within the budget, no stranded row, exclusive leases, `EverySignalSettles`, and the refinement `KeepsPromise` |
| `AIReview_safety` | 2 attempts, 3 events each, 2 workers, 2 pushes, 1 retry, budget 3, all faults | rows agree under every race; a pending review is dispatched unless its signal was lost |
| `AIReview_terminal` (violation) | 1 worker, no faults | a recorded dispatch regresses a final run |
| `SelfReview_safety` | 2 runs, 2 workers, limit 0 or 1, 1 change of access, all faults, workers that pause | quota, ledger and outcomes agree; submitted once |
| `SelfReview_liveness` | 1 run, 2 workers, 1 report, 1 crash, timeouts, refusals, malformed results | accepted runs settle, with the exceptions stated |
| `KindConcurrency_slots` | 4 tasks with ids of their own, 2 kinds, limits 2 and 1, 1 retry | slots conserved, no starvation |
| `Delivery_safety` | 1 delivery, 2 workers, 2 attempts, 2 checks, 2 duplicates, 2 retries by hand, all faults: exceptions, results of another delivery, crashes, a revoked credential | one call at a time, unknown outcomes looked up first, only recorded failures repeated, started calls concluded |
| `ReviewCase_safety` | 2 reviewers, 2 submissions, 2 sets of requirements of which one, for this review only, has one criterion more, 1 request, 3 iterations with 2, 1, 1 drafts and 3, 2, 1 revisions, the run may be archived | one chain, no lost draft, complete and confirmed publications, corrections of what was published, the refinement `KeepsHistory` |
| `RequirementImpacts` | 1 reviewer, 2 submissions, 3 sets of requirements published 3 times, 2 iterations | an open review is flagged when its requirements change |
| `Artifacts` | 2 contents, 2 workers, 2 submissions, 2 artifacts, 2 capture and 2 promotion attempts, failures, retention | capture once, no intent without its staged object, no reference without its bytes, ended promotions stay |
| `Commands` | 2 methodologists, 6 calls, each made once: a save, its repetition, another body with the same key, the save that follows, and both leave or demote | one effect per key, true answers, rights held at commit, a methodologist remains, every call is answered |
| `Identity` | 2 users (one by Stepik, one by 2 invitations), 3 states, 3 sessions, 1 token, 2 requests at once, 1 recovery, 2 epochs beyond the first, 1 thing expires | a proof admits once, changed roles end sessions, agents act within present rights |

Why the bounds are enough to be interesting: every race here is between two
holders of the same row, so two relays, workers, reviewers or requests suffice
for one to be overtaken by another, and a third actor (callback, component
event, manual command, cleaner, operator) is always enabled beside them. Uneven
budgets let one message be on its final lease while the other retries. Two
attempts let a retry follow a failure and then exhaust the budget. Two runs of
one draft let a slot be spent and asked for again; the limit is changed in both
directions meanwhile. Three iterations let one be migrated, one corrected, and a
stale screen point at each. Three sets of requirements are the least with
which an event can be overtaken by another change. Two artifacts let the second
submission find or miss the content of the first while the first is promoted,
cleaned and purged. With two invitations a member who is logged in can gain a
role by the second while the first is used twice.

The bounds on counters are constants whose comments say "bound". Symmetry
(workers, reviewers, sessions, requests, login links) is used only in runs
without liveness properties.

`CHECK_DEADLOCK FALSE` is given where the system may really come to rest: an AI
review, a self-review, a delivery, a review or a set of calls that is finished
has nothing left to do, and the bounds on environment actions make that visible.
The outbox never rests under its bounds, and there deadlock is checked.
Deadlocks in the database's sense, calls that wait for each other, are actions
of `Commands`.

### Fairness

* `Outbox`: time passes, and a relay keeps taking steps. `run_forever` polls again
  after every cycle but has no handler for exceptions: one that `run_once` does
  not catch, of the database for example, ends the process, which is `Crash`. That
  the relay goes on afterwards is the deployment's doing (`restart:
  unless-stopped`, `src/deploy/compose.yaml:40`), not the code's. Publishing is
  not assumed to succeed. A message that is never published is given up after its
  budget, which settles it.
* `AIReview`: the relay retries an owed message, workers listen, a provider call
  ends because its client has a timeout. Nothing is assumed of users or of the
  component.
* `SelfReview`: `workspace_loop` keeps ticking, leases run out, the service
  finishes what it received, and not every answer is lost for ever (strong
  fairness of `Respond`). Nothing is assumed of callbacks or of people.
* `KindConcurrency`: strong fairness of `Acquire`, because `asyncio.Semaphore`
  serves waiters in order; handlers end.
* `Delivery`: weak fairness of each worker. Whether the provider ever answers
  usefully, or anybody retries by hand, is left open.
* `RequirementImpacts`: an event that was sent is consumed if its handler
  accepts it, which is what the outbox, the relay and the broker's retries give.
* `Commands`: a call goes on while it is not waiting for a lock.
* `ReviewCase`, `Artifacts`, `Identity`: none; their properties are safety.

## 4. Proofs

`OutboxProofs` proves, for every set of messages and relays and every budget,
lease length, delay and batch size that satisfies `OutboxAssumption`:

* `TypeCorrect`, `CompletedWasSent`, `RowsStayReachable`, `AttemptsAreExclusive`:
  the invariants `TypeOK`, `SettledMeansSent`, `NeverStranded`, `OneLeasePerAttempt`;
* `FinishedStaysFinished`: the action property `FinishedIsFinal`;
* `ImplementsPromise`: every step of the outbox is a step of
  `SignalPromise` or leaves it alone, and so `SafeSpec` implements its safety part;
* `DuplicatesAreBounded`: the invariant `DuplicatesBounded`.

The assumption on budgets, 1 to 10, is the check of `_validate_draft`.

None of the invariants is inductive by itself. That a completed row was sent
needs to know that the lease a relay is completing was published, and that the
row it will complete is the one it leased: so the inductive invariant relates
each lease in a relay's memory to the row (its token is not newer than `serial`,
its attempt number is not greater than the row's, and if the row still carries the
token then attempt and owner agree) and every lease in `doing` with phase
"complete" to `sent`. That attempts are exclusive needs that two leases in hand
with the same attempt of one message carry the same token, which holds because
`Leased` counts each claim. `FinishedIsFinal` and the refinement follow from the
invariant, because `StillMine` fails for a row without a lease.

The bound on duplicates is a counting argument on top. An attempt number of a
message that some relay holds and has not published yet is `Unpublished`;
`CopiesPaid` says that the copies pushed and the unpublished attempts together are
no more than the attempts the row counts. A claim adds one attempt and one
unpublished number, which is new because attempts are exclusive; a push turns
one unpublished number into a copy; a crash only loses numbers.

`DeliveryProofs` proves, for every set of publications and workers, every attempt
budget in 1 to 10, and every set of faults that satisfies `DeliveryAssumption`:

* `TypeCorrect`, `CallsAreExclusive`, `SuccessIsReal`, `OperationIsInStep`: the
  invariants `TypeOK`, `OneCallAtATime`, `SuccessTookEffect`,
  `OperationFollowsDelivery`;
* `SettledForGood`: the action property `SettledStays`;
* `ReconciledFirst`, `EffectsAreNotRepeated`: `UnknownIsReconciledFirst` and
  `OnlyFailuresAreRepeated`. They hold under every fault because they say no more
  than the code does: a lookup that answers `retryable_failed` counts, and an
  attempt recorded as a failure may be repeated although it took effect. What the
  documents ask for beyond that does not hold (section 5).

The hard part is that `_claim_delivery` never compares the state under its lock.
The inductive invariant says why it need not. Call a task eligible if it has
claimed its delivery or read it and would still get its attempt number
(`NumberFree`). If an eligible reader exists, the state is still one it may
claim, because every step that takes the delivery out of such a state is a claim,
which uses the number up, or the answer to a claim, which excludes eligible
readers (`Exclusive`). So a claim makes every other task on the row obsolete for
ever. `RetryGivenUpConflicts` is a lemma of its own: it shows that a retry by
hand of a given-up delivery always ends in a conflict. The last two theorems
add `Honest`: every attempt that was followed by another, and the last one of a
delivery in `retryable_failed`, is `Repeatable`, that is failed or looked up; and what a
lookup did not find had no effect. The latter is stable because only ended
attempts are looked up and only running ones can still take effect. That a call
has no effect after it has ended is an assumption of the model: a provider that
acts on a request after its timeout and after a lookup is not considered.

`SelfReviewProofs` proves, for every set of runs and workers, every limit, any
number of crashes and changes of access, and every set of faults that satisfies
`SelfReviewAssumption`, the safety properties the run `SelfReview_safety` checks
and four more: `TypeCorrect`, `QuotaIsExact`, `LedgerIsTrue`, `ChargedForResults`,
`PostedAtMostOnce`, `NothingPastTheLimit` and `SettledForGood`.

Three additions make them inductive. The sets of runs the quota row counts are
finite, because each step adds or removes one run; the set of all runs need not
be. A run whose input fingerprint is set (`marked`) is in a dispatched status as
long as it holds its slot, so no later claim takes it for a fresh one; and a worker
that claimed a fresh run and still owns its token finds the fingerprint unset.
From that follows that two workers are never about to POST the same run
(`OneSubmitter`). `SettleQuota` is the common lemma of the four places that
settle a run, and `StepKinds` reduces the action properties to three kinds of
step.

About `KindConcurrency` `OutboxProofs` proves three theorems, for any number of
executions and kinds, any limits and any sharing of task ids.
`SlotsTypeCorrect`: no semaphore is negative. `SlotsAreNeverMinted`: free slots and
entries in `_claimed` of one kind are together never more than its limit, because a
unit leaves the semaphore together with an entry and comes back together with
one; so no sequence of hooks raises a semaphore above its limit. It does not
bound the running tasks: with overlapping duplicates one may run without an
entry (section 5). `SlotsAreConserved` says that nothing else goes wrong: in every
behaviour in which duplicates of one signal are not admitted, or failed and not
yet concluded, at the same time (`AloneInWorker`), `SlotsConserved` holds. The code
does not guarantee that, so it is a diagnosis and no promise. Its invariant is that
each running task has its entry and each entry its running task, so that the
second release of a failed task, in `post_execute`, finds nothing to return.

`AIReviewProofs` proves, for any number of workers, events and retries and under
every fault, `TypeCorrect`, `MirrorsRun`, `ResultReceived`, `PendingNotForgotten`
and `EventsInOrder`. The strengthening has three parts. `OneAttempt`: a run never
gets past its first attempt, because the scheduler's payload check rolls a
second one back (section 5); everything else would be false if it did not.
`Bound`: tasks and component work on that attempt only. `Sequenced`: an attempt
does not end before its run, and its sequence is not behind any applied event.

`ReviewCaseProofs` proves, for any reviewers, submissions, requirements, criteria
and bounds, `TypeCorrect`, `IterationsFormOneChain`, `NoLostUpdate`,
`PublicationsAreComplete`, `Confirmed`, `OutcomeAndGradeAgree`,
`CorrectionsStartFromPublished`, and `ImplementsHistory`, the refinement of
`PublishedHistory`. What makes them inductive is what a stale screen can know:
no view is newer than its row, and if it has the row's revision it shows the
row as it is (`Fresh`), so that a compare-and-set that succeeds was made by
somebody who saw the present. `CaseOK` relates statuses, drafts and pointer,
`PublicationsOK` each publication to the draft and row it was made of, and
`HasGreatest` and `Begins` supply what the refinement mapping's maximum needs:
published iterations have a greatest member, and each starts from drafts that
exist. `ExtendStep` is the common lemma of the four actions that add an iteration.

The module ends with the composition. `CompositionImplementsCase`: every step of
`RequirementImpacts` is one of `ReviewCase` or leaves the case alone, so all of the
above holds with requirements published meanwhile. `FlagsStayTrue`: a review is
flagged once for the same requirements and never for its own. `UnmarkedReviewsWait`
is the safety half of `ChangedReviewIsFlagged`: whatever was open when the current
requirements came, and is under others, is flagged or its event is still on its
way. It needs that an iteration keeps its requirements (`RequirementsStay`), that
a consumed event flagged all that existed at its publication, and that the event
of requirements announced for the first time is not refused while they are
current, because every impact for them is its own (`ImpactsOK`).

`ArtifactsProofs` proves, for any contents, workers, numbers of submissions and
artifacts and attempt budgets, with and without failing providers and retention,
`TypeCorrect`, `StagedStays` (`StagedOutlivesIntent`), `BytesStay`
(`BytesOutliveReferences`), `OperationIsTrue` (`OperationTellsPromotion`),
`PromotionsEnd` (the action property `SettledPromotionStays`) and `CapturesOnce`
(`CapturedOnce`). `ArtifactsAssumption` asks for nothing but types and that "none" is
no content. Each actor reads in one transaction and acts on the bucket
later, so the inductive invariant says for each what it may still rely on:

* a capture in flight owns a version without an artifact and, once its object is
  staged, an id and a content no row has (`CaptureOK`), which `_lock_capture_scope`
  and the search for the same digest under the reference's lock ensure; so
  content and version stay unique (`ContentOnce`, `OwnerOnce`);
* what the cleaner has read as free of intents stays free (`DoomedOK`), since an
  intent is only ever made for the id of the capture in flight;
* a promotion worker, fenced or not, holds an artifact that retention has not
  touched, and has stored the object before it records it (`HandOK`); a second
  worker that took the lease over writes the same object again;
* retention deletes only under a pending tombstone of an artifact it claimed
  (`ReaperOK`), and no tombstone is ever put on an artifact whose promotion has
  not ended (`RowOK`).

`CommandsProofs` proves, for any users, calls, keys, commands and expected
revisions, `TypeCorrect`, `OneEffectPerKey` (`AppliedOnce`), `AnswersAreTrue`
(`AnswersTellTheEffect`), `MethodologistStays` (`AMethodologistRemains`), the action
property `AuthorityHolds` (`AuthorityHeldAtCommit`) and `DeadlocksAreFound`.
`CommandsAssumption` asks that there is a user, that "none" names no call, and
that an edit and a role change never have one key: role changes keep no
receipt, their `KeyOf` is only a name. The inductive invariant says that where a
call is tells what receipt its key has (`CallOK`): none while its transaction may
insert it, one of its own command while it is replayed. That is stable because
only one transaction of a key is past the insert (`KeyHeldOnce`, InnoDB's unique
key). Receipts and effects then point to each other (`ReceiptsOK`, `LogOK`), so
two effects of one key would need one receipt with two results. `QuietStep` is
the common lemma of the steps that commit no effect.

`DeadlocksAreFound` shows what `EveryCallIsAnswered` rests on: in any set of calls
that wait for each other, of whatever size, two wait for each other directly
(`DeadlocksAreDirect`), so the pairs `DeadlockVictim` breaks are all the cycles
there are. It follows from the lock order receipt, edited row, organization and
from `LocksOK`: one call at a time holds the edited row, and whoever holds the
organization alone waits for nobody.

`IdentityProofs` proves `ProofsAdmitOnce`, `SessionsFollowRights` and
`AgentsStayWithinRights`, for any users, proofs, sessions, tokens and calls. The
strengthening says that a session's proofs are consumed (`SessionsOK`), that
sessions and tokens are never of a later epoch than their owner, and that one
of the present epoch has the rights it was made with (`SessionsOK`, `TokensOK`);
an agent's call in progress has the epoch of its token (`AgentsOK`). An agent's
commit is then within rights although the agent's guard never looks at the
roles a second time: the epoch stands for them.

Listed theorems without a run of their own, because the inductive invariants
need them or a stronger property is checked: the type invariants,
`SettledMeansSent`, `FinishedIsFinal`, `SuccessTookEffect`, `SettledStays`,
`SettledIsFinal`, `WithinLimit`, `SlotsNeverGrow`, `OperationTellsPromotion`,
`OutcomeMatchesGrade`, `FlagsAreTrue`, `UnmarkedIsOnItsWay`, `DeadlocksAreDirect`
and the charging of self-reviews.

Every safety property a passing run checks is stated by a theorem, except that
`ChangedReviewIsFlagged` has only its safety half and `SlotsConserved` only the
theorem with `AloneInWorker`; the ids of their own that the run gives its tasks
imply that. Only
model-checked: liveness (`EverySignalSettles`, the fairness half of
`KeepsPromise`, `StartIsDispatched`, `AcceptedRunSettles`, `EveryTaskRuns`,
`StartedCallConcludes`, `ChangedReviewIsFlagged`, `EveryCallIsAnswered`), which is
beyond the prover.

## 5. Where the code and its documents disagree

`AIReview_terminal` shows one disagreement, quoted under "findings" in
`PROJECT.json`: a dispatch recorded after the component's final event writes a
final run back to running. The others were met while modelling. Each is a step
the model takes, or a property that fails without the exception it states.

AI review and outbox:

* After `retryable_failed` a new start is rolled back by the scheduler's payload
  check (`OneAttempt` is proved), while `src/docs/SYSTEM_DESIGN.md:159` lets the
  backend start a new attempt with the same fingerprint.
* If Redis loses a pushed signal, nothing dispatches the review (`queue.lost` in
  `StartIsDispatched`), while `src/specs/001-backend-core/research.md:23` says that
  the loss of Redis must not lose an AI start.
* The relay pushes every copy of a message with the same task id
  (`infrastructure/tasks/outbox_relay.py:226`). Two copies that run in one worker
  overwrite each other's entry in `_claimed`, and a slot is lost until the process
  ends; a copy admitted between the failure of another and its `post_execute` has
  its entry popped, and one task more than the limit may run. The class says
  "Bound in-process concurrency independently for each task kind"
  (`infrastructure/tasks/broker.py:190`). The run gives every task its own id;
  section 4 says what is proved without that.

Self-review:

* A crash between the commit of `pending` and the POST loses the run: whoever
  takes over only looks it up, and the service knows nothing of it
  (`src/docs/frontend-completion-and-ai-self-review-plan.md:229`, `:254`).
* A run whose POST was refused alternates between `unknown_outcome` and `running`,
  and can be released by a methodologist only in the former; a malformed final
  result never settles a run.

Delivery:

* A retry by hand of an unknown outcome schedules the reconciliation and moves
  the delivery to `reconciling` in the same transaction; the task accepts only
  `unknown_outcome`, refuses, and nothing leaves `reconciling` again. The comment
  `api/routes/deliveries.py:131` says that the scheduled reconciliation resolves it.
* An exception of the provider is recorded as `retryable_failed` whether or not the
  request took effect (`tasks/deliveries.py:1027`), and the delivery is sent again
  without a lookup, while `research.md:112` and `data-model.md:307` ask for
  reconciliation first.
* A lookup that answers `retryable_failed`, or raises and is mapped to it (`:1072`),
  makes the delivery `retryable_failed` and schedules a reconciliation
  (`:794-799`, `:830`), which its handler refuses in that state. A retry by hand
  schedules the same refused message. A duplicate of the delivery's own signal may
  claim it, and then calls the provider without a `not_found`.
  `OnlyFailuresAreRepeated` names these two ways as the only ones to repeat an
  effect; that the effect is not repeated is no property of this code.
* A result that belongs to another delivery ends the task with a
  `DeliveryTaskError` (`:1007-1011`, `:1052-1056`) and leaves the delivery
  `processing` or `reconciling`, in which no later signal takes it up.
* `not_found` after the last attempt leaves the delivery `retryable_failed` with no
  attempt left, and a retry by hand of `action_required` is always refused, because
  the transition that reopens it finishes an attempt that is already finished;
  `spec.md:132` promises the reason and a manual retry.
* A worker that dies during a call leaves the delivery the same way; `claim_batch`,
  which would take its lease over, has no caller. `StartedCallConcludes` excepts
  both (`abandoned`).
* An older publication's delivery that is claimed after a newer one was delivered
  replaces the newer result at the destination (`tasks/deliveries.py:468`, FR-040);
  `supersede_stale_publications` has no caller.

Review case and requirements:

* A draft may be saved over a published iteration (`api/routes/workspace.py:766-770`,
  against FR-033, `spec.md:212`); the published draft itself stays, and a
  correction starts from it.
* Publishing earlier requirements a second time finds the impact rows of the
  first time; the event is refused, and reviews opened since are not flagged
  (`spec.md:197`, FR-018).
* Impacts are recorded and never resolved, and opening a review looks only at
  whether the course run is archived, not the course.

Artifacts:

* A submission whose content is unchanged after its promotion has moved on ends
  in `access_error`, although the bytes are there (`CaptureRepeated`, FR-022;
  `test_artifact_capture_service.py:492` covers only the first moment).
* A late capture writes over the `superseded` status of its version, and the pointer
  moves to a new version before that one is ready (`data-model.md:171`).
* A retention pass that finds a tombstone an earlier pass left pending stops with
  a conflict, because `removed_at` differs.
* A course run that is restored between the claim and the tombstone loses the
  bytes all the same; and a draft that was submitted, purged and submitted again
  links the purged artifact.

Commands and identity:

* The final check of a change of one's own roles compares the roles just written
  with themselves (`ChangeRoles` in both modules): it refuses only the loss of
  every role, not rights that were lost since the request was admitted. Only
  the expected revision the client sends protects such a command.
* Replays in the workspace routes return the stored answer without the final
  `lock_and_revalidate`.
* Receipt states `reserved` and `invalidated` are never committed.
* Receipts share the organization's row and the final check locks it: two
  commands of one organization deadlock in the database, and one is rolled back
  with an error the client has to repeat.
* Granting and revoking agent tokens lock the membership first and the
  organization afterwards, while `auth_guards/membership.py:88` says that the
  order is organization, then membership.
* `current_session` marks a session expired or revoked and then raises, so the
  roll-back undoes the mark; the session is refused again next time all the same.
* Tokens of an earlier epoch, after an invited role or a recovery, stay rows with
  status `active` that no agent can use and `revoke_linked` refuses to revoke.
* `issue_reviewer_magic_link_state`, `InvitationService.consume` and `revoke_exact`
  have no caller in the repository; the first is modelled as a way in which
  login states come to be, the others are not.

## 6. Not modelled, and the plan

Components marked `not_modelled` or `partly` in `PROJECT.json` carry the reason.
In particular:

* artifact preflight, course import, creating homeworks and versions,
  responsibility, availability and selections: single-row upserts or inserts
  under a revision check, whose races are those of `ReviewCase` in the small;
* preparation of linked drafts and the reviewer's AI assistant: two more leased
  workers like that of `SelfReview`. What is particular to preparation, and not yet
  stated as a property, is that the object of a snapshot has a key of its own
  but no version: a worker that outlived its lease during the download may still
  upload over the object a later worker has recorded;
* the single MCP tools, which call commands modelled elsewhere;
* projections, statistics, search, exports, notifications: queries and formatting;
* the object store, e-mail, Stepik, provider adapters and Prereview: external;
  what the core needs of them are the external actions of the modules;
* the frontend, prompts, migrations and deployment.

Assumptions worth knowing: the cleaner of staged objects only looks at objects
older than a cut-off that exceeds a capture, so it never sees an object whose
capture has not committed; leases in `Artifacts` and `SelfReview` may expire at
any time, so no property rests on their length; that every promotion eventually
settles is not stated, because its recovery is started by a message
(`ArtifactPromotionRecoveryRequested`) that nothing under `src/` sends.

What comes next:

1. `Preparation` and `ReviewAssist`, with the snapshot property above.
2. An abstract specification of `Artifacts` and one of `Commands`, and proofs that
   they implement them; safety lemmas for the liveness properties.
3. Composition of `ReviewCase` with `Delivery` through the intents a publication
   schedules, and of `Artifacts` with `ReviewCase` through submissions.
4. Course import with its partial failures.
