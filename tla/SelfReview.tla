----------------------------- MODULE SelfReview -----------------------------
(***************************************************************************)
(* Student self-review: the quota ledger of one draft and the durable      *)
(* worker that hands each accepted run to the external AI service.         *)
(*                                                                         *)
(* A run is accepted together with a reserved slot of the quota.  Workers  *)
(* of several API processes claim it under a lease with a fresh token, in  *)
(* one transaction to claim, one to prepare the request, an HTTP call      *)
(* outside any transaction and one to take the answer.  The service also   *)
(* calls back with the same events.  A methodologist may release a run     *)
(* whose outcome is unknown.  Each action is one committed transaction, or *)
(* one step outside the database.  One draft has one quota row, and every  *)
(* writer locks it, so the runs modelled are the runs of one draft.        *)
(***************************************************************************)
EXTENDS Integers, Sequences, FiniteSets

CONSTANTS
    Runs,           \* run ids the student may ever be given
    Workers,        \* worker loops, one in each API process
    NoRun,          \* the run of an idle worker
    NoWorker,       \* the owner of a run nobody claimed: lease_token is null
    MaxLimit,       \* bound: greatest self_review_limit a policy sets
    MaxEpoch,       \* bound: changes of the student's membership revision
    MaxReports,     \* bound: "running" events the service issues for one run
    MaxCrashes,     \* bound: worker processes that die during a tick
    Faults          \* which of FaultKinds may happen

FaultKinds == {"pause", "storage", "refused", "timeout", "malformed", "declined"}

ASSUME SelfReviewAssumption ==
    /\ NoRun \notin Runs
    /\ NoWorker \notin Workers
    /\ {MaxLimit, MaxEpoch, MaxReports, MaxCrashes} \subseteq Nat
    /\ Faults \subseteq FaultKinds

VARIABLES
    limit,          \* PublicationPolicy.self_review_limit
    used, reserved, \* the SelfReviewQuota row
    ledger,         \* SelfReviewQuotaEvent actions of each run, in order
    status,         \* SelfReviewRun.status
    disposition,    \* SelfReviewRun.disposition, "absent" before start
    attempt,        \* SelfReviewRun.attempt
    sequence,       \* SelfReviewRun.sequence
    marked,         \* SelfReviewRun.input_fingerprint is set
    grant,          \* membership revision and auth epoch the run was started with
    receipts,       \* SelfReviewEventReceipt rows
    owner,          \* worker whose claim wrote SelfReviewRun.lease_token
    leased,         \* lease_until lies in the future
    epoch,          \* current membership revision and auth epoch of the student
    workers,        \* tick in progress of each worker
    received,       \* the service: runs whose POST arrived
    events,         \* the service: events issued so far
    posts,          \* POSTs sent for each run
    crashes         \* worker processes that died

quotaVars == <<used, reserved, ledger>>
runVars == <<status, disposition, attempt, sequence, marked, grant>>
leaseVars == <<owner, leased>>
serviceVars == <<received, events>>
vars == <<limit, quotaVars, runVars, leaseVars, receipts, epoch, workers,
          serviceVars, posts, crashes>>

-----------------------------------------------------------------------------
\* Mutant: "pending" does not count as dispatched.
DispatchedOnceAnswered == {"running", "unknown_outcome"}

Dispatched == {"pending", "running", "unknown_outcome"}
Statuses == {"queued", "capturing", "succeeded", "failed"} \cup Dispatched
Dispositions == {"absent", "reserved", "consumed", "released"}

\* What a final event amounts to: "useful" has a result with a finding that was
\* checked, "empty" only findings that were not, "failed" an error code, and
\* "malformed" a result whose criteria are not the run's.
FinalKinds == {"useful", "empty", "failed", "malformed"}
Event == [run : Runs, attempt : {1}, sequence : Nat, kind : {"running"} \cup FinalKinds]

Phases == {"idle", "claimed", "ready", "sent", "silent", "answered", "declined", "error"}
Idle == [phase |-> "idle", run |-> NoRun, fresh |-> FALSE, event |-> <<>>]
InPhase(w, p) == workers[w].phase = p
Move(w, p) == workers' = [workers EXCEPT ![w].phase = p]
Rest(w) == workers' = [workers EXCEPT ![w] = Idle]
Take(w, e) == workers' = [workers EXCEPT ![w] = [phase |-> "answered", run |-> @.run,
                                                 fresh |-> @.fresh, event |-> e]]

Remaining == IF limit - used - reserved > 0 THEN limit - used - reserved ELSE 0

\* student_epoch_valid
AccessValid(r) == grant[r] = epoch

\* The lease-token check every later transaction of a tick repeats.
Holds(w) == /\ owner[workers[w].run] = w
            /\ disposition[workers[w].run] = "reserved"

\* Mutant: only a released run gives its slot back.
SettleKeepingSlot(r, outcome) ==
    /\ disposition' = [disposition EXCEPT ![r] = outcome]
    /\ status' = [status EXCEPT ![r] = IF outcome = "consumed" THEN "succeeded" ELSE "failed"]
    /\ used' = IF outcome = "consumed" THEN used + 1 ELSE used
    /\ reserved' = IF outcome = "consumed" THEN reserved ELSE reserved - 1
    /\ ledger' = [ledger EXCEPT ![r] =
                    Append(@, IF outcome = "consumed" THEN "consume" ELSE "release")]

\* The run becomes final and gives its slot back, spent or not.
Settle(r, outcome) ==
    /\ disposition' = [disposition EXCEPT ![r] = outcome]
    /\ status' = [status EXCEPT ![r] = IF outcome = "consumed" THEN "succeeded" ELSE "failed"]
    /\ used' = IF outcome = "consumed" THEN used + 1 ELSE used
    /\ reserved' = reserved - 1
    /\ ledger' = [ledger EXCEPT ![r] =
                    Append(@, IF outcome = "consumed" THEN "consume" ELSE "release")]

\* Mutants: a final run takes further events; a sequence must leave a gap.
AcceptableAnyTime(e) ==
    /\ e.attempt = attempt[e.run]
    /\ marked[e.run]
    /\ e.sequence > sequence[e.run]
    /\ e.kind # "malformed"
AcceptableAfterGap(e) ==
    /\ e.attempt = attempt[e.run]
    /\ marked[e.run]
    /\ disposition[e.run] = "reserved"
    /\ e.sequence > sequence[e.run] + 1
    /\ e.kind # "malformed"

\* SelfReviewService.accept refuses an event of another attempt, of a final
\* run, not newer than the last one, or with the wrong criteria.
Acceptable(e) ==
    /\ e.attempt = attempt[e.run]
    /\ marked[e.run]
    /\ disposition[e.run] = "reserved"
    /\ e.sequence > sequence[e.run]
    /\ e.kind # "malformed"

\* "valid" in accept: the event is worth a slot of the quota.
Charged(e) == e.kind = "useful" /\ AccessValid(e.run)

\* SelfReviewService.accept of an event without a receipt.
Accept(e) ==
    /\ Acceptable(e)
    /\ sequence' = [sequence EXCEPT ![e.run] = e.sequence]
    /\ receipts' = receipts \cup {e}
    /\ IF e.kind = "running" /\ AccessValid(e.run)
       THEN /\ status' = [status EXCEPT ![e.run] = "running"]
            /\ UNCHANGED <<disposition, quotaVars, leased>>
       ELSE /\ Settle(e.run, IF Charged(e) THEN "consumed" ELSE "released")
            /\ leased' = [leased EXCEPT ![e.run] = FALSE]
    /\ UNCHANGED <<attempt, marked, grant, owner>>

-----------------------------------------------------------------------------
Init ==
    /\ limit \in 0..MaxLimit
    /\ used = 0 /\ reserved = 0
    /\ ledger = [r \in Runs |-> <<>>]
    /\ status = [r \in Runs |-> "queued"]
    /\ disposition = [r \in Runs |-> "absent"]
    /\ attempt = [r \in Runs |-> 0]
    /\ sequence = [r \in Runs |-> -1]
    /\ marked = [r \in Runs |-> FALSE]
    /\ grant = [r \in Runs |-> 0]
    /\ receipts = {}
    /\ owner = [r \in Runs |-> NoWorker]
    /\ leased = [r \in Runs |-> FALSE]
    /\ epoch = 0
    /\ workers = [w \in Workers |-> Idle]
    /\ received = {} /\ events = {}
    /\ posts = [r \in Runs |-> 0]
    /\ crashes = 0

\* SelfReviewService.start of a run with a fresh id.
Start(r) ==
    /\ disposition[r] = "absent"
    /\ reserved = 0
    /\ Remaining > 0
    /\ disposition' = [disposition EXCEPT ![r] = "reserved"]
    /\ grant' = [grant EXCEPT ![r] = epoch]
    /\ reserved' = reserved + 1
    /\ ledger' = [ledger EXCEPT ![r] = Append(@, "reserve")]
    /\ UNCHANGED <<limit, used, status, attempt, sequence, marked, receipts, leaseVars,
                   epoch, workers, serviceVars, posts, crashes>>

\* SelfReviewService.set_policy; a lower limit leaves accepted runs alone.
SetPolicy(n) ==
    /\ n # limit
    /\ limit' = n
    /\ UNCHANGED <<quotaVars, runVars, receipts, leaseVars, epoch, workers, serviceVars,
                   posts, crashes>>

\* The student's membership is revoked, or granted anew: a new revision.
ChangeAccess ==
    /\ epoch < MaxEpoch
    /\ epoch' = epoch + 1
    /\ UNCHANGED <<limit, quotaVars, runVars, receipts, leaseVars, workers, serviceVars,
                   posts, crashes>>

\* release_self_review: the methodologist ends a run of unknown outcome.  The
\* lease is not cleared; the attempt number fences the service's late events.
Release(r) ==
    /\ disposition[r] = "reserved"
    /\ status[r] \in {"unknown_outcome", "failed"}
    /\ Settle(r, "released")
    /\ attempt' = [attempt EXCEPT ![r] = @ + 1]
    /\ UNCHANGED <<limit, sequence, marked, grant, receipts, leaseVars, epoch, workers,
                   serviceVars, posts, crashes>>

\* POST /internal/self-review/events.  A replayed or refused event commits
\* nothing and is no step.
Callback(e) ==
    /\ e \notin receipts
    /\ Accept(e)
    /\ UNCHANGED <<limit, epoch, workers, serviceVars, posts, crashes>>

-----------------------------------------------------------------------------
\* tick, first transaction.  A run whose student lost access is released here.
Claim(w, r) ==
    /\ InPhase(w, "idle")
    /\ disposition[r] = "reserved"
    /\ ~leased[r]
    /\ owner' = [owner EXCEPT ![r] = w]
    /\ attempt' = [attempt EXCEPT ![r] = IF @ = 0 THEN 1 ELSE @]
    /\ IF AccessValid(r)
       THEN /\ leased' = [leased EXCEPT ![r] = TRUE]
            /\ status' = [status EXCEPT ![r] = IF @ \in Dispatched THEN @ ELSE "capturing"]
            /\ workers' = [workers EXCEPT ![w] =
                             [phase |-> "claimed", run |-> r,
                              fresh |-> status[r] \notin Dispatched, event |-> <<>>]]
            /\ UNCHANGED <<disposition, quotaVars>>
       ELSE /\ Settle(r, "released")
            /\ UNCHANGED <<leased, workers>>
    /\ UNCHANGED <<limit, sequence, marked, grant, receipts, epoch, serviceVars, posts,
                   crashes>>

\* tick, second transaction: the request is built and the run is "pending".
Prepare(w) ==
    /\ InPhase(w, "claimed")
    /\ LET r == workers[w].run IN
       IF Holds(w)
       THEN /\ marked' = [marked EXCEPT ![r] = TRUE]
            /\ status' = [status EXCEPT ![r] = "pending"]
            /\ Move(w, "ready")
       ELSE Rest(w) /\ UNCHANGED <<marked, status>>
    /\ UNCHANGED <<limit, quotaVars, disposition, attempt, sequence, grant, receipts,
                   leaseVars, epoch, serviceVars, posts, crashes>>

\* The artifact row or the storage fails; the second transaction rolls back.
PrepareFails(w) ==
    /\ "storage" \in Faults
    /\ InPhase(w, "claimed") /\ Holds(w)
    /\ Move(w, "error")
    /\ UNCHANGED <<limit, quotaVars, runVars, receipts, leaseVars, epoch, serviceVars,
                   posts, crashes>>

\* provider.submit by the first worker to prepare the run, provider.lookup by
\* every later one.  Only a POST that arrives gives the service work to do.
Call(w) ==
    /\ InPhase(w, "ready")
    /\ LET r == workers[w].run IN
       IF workers[w].fresh
       THEN /\ posts' = [posts EXCEPT ![r] = @ + 1]
            /\ \/ received' = received \cup {r} /\ Move(w, "sent")
               \/ "refused" \in Faults /\ Move(w, "error") /\ UNCHANGED received
       ELSE Move(w, "sent") /\ UNCHANGED <<posts, received>>
    /\ UNCHANGED <<limit, quotaVars, runVars, receipts, leaseVars, epoch, events, crashes>>

\* A port adapter other than HTTPWorkspaceAI may refuse the work for good.
Decline(w) ==
    /\ "declined" \in Faults
    /\ InPhase(w, "ready")
    /\ Move(w, "declined")
    /\ UNCHANGED <<limit, quotaVars, runVars, receipts, leaseVars, epoch, serviceVars,
                   posts, crashes>>

\* HTTPWorkspaceAI._call: 200 with the latest event, or 202, 204 and 404.
Respond(w) ==
    /\ InPhase(w, "sent")
    /\ LET issued == {e \in events : e.run = workers[w].run} IN
       IF issued = {}
       THEN Move(w, "silent")
       ELSE \E e \in issued :
              /\ \A f \in issued : f.sequence <= e.sequence
              /\ Take(w, e)
    /\ UNCHANGED <<limit, quotaVars, runVars, receipts, leaseVars, epoch, serviceVars,
                   posts, crashes>>

\* No answer in time, or one that cannot be verified.
ResponseLost(w) ==
    /\ "timeout" \in Faults
    /\ InPhase(w, "sent")
    /\ Move(w, "error")
    /\ UNCHANGED <<limit, quotaVars, runVars, receipts, leaseVars, epoch, serviceVars,
                   posts, crashes>>

\* tick, third transaction, on an event.  A replay is answered from the
\* receipt, and a refused event goes to the handler of transient errors.
TakeEvent(w) ==
    /\ InPhase(w, "answered")
    /\ LET e == workers[w].event IN
       \/ /\ e \in receipts
          /\ Rest(w)
          /\ UNCHANGED <<quotaVars, runVars, receipts, leaseVars>>
       \/ /\ e \notin receipts
          /\ Accept(e)
          /\ Rest(w)
       \/ /\ e \notin receipts /\ ~Acceptable(e)
          /\ Move(w, "error")
          /\ UNCHANGED <<quotaVars, runVars, receipts, leaseVars>>
    /\ UNCHANGED <<limit, epoch, serviceVars, posts, crashes>>

\* tick, third transaction, on None: the run waits under a short lease.
TakeSilence(w) ==
    /\ InPhase(w, "silent")
    /\ Rest(w)
    /\ IF Holds(w)
       THEN /\ status' = [status EXCEPT ![workers[w].run] = "running"]
            /\ leased' = [leased EXCEPT ![workers[w].run] = TRUE]
       ELSE UNCHANGED <<status, leased>>
    /\ UNCHANGED <<limit, quotaVars, disposition, attempt, sequence, marked, grant, receipts,
                   owner, epoch, serviceVars, posts, crashes>>

\* tick, handler of OSError, TimeoutError, WorkspaceFailure and HTTPError.
TakeError(w) ==
    /\ InPhase(w, "error")
    /\ Rest(w)
    /\ LET r == workers[w].run IN
       IF Holds(w)
       THEN /\ status' = [status EXCEPT ![r] =
                            IF ~workers[w].fresh \/ marked[r] THEN "unknown_outcome"
                            ELSE "capturing"]
            /\ leased' = [leased EXCEPT ![r] = TRUE]
       ELSE UNCHANGED <<status, leased>>
    /\ UNCHANGED <<limit, quotaVars, disposition, attempt, sequence, marked, grant, receipts,
                   owner, epoch, serviceVars, posts, crashes>>

\* tick, handler of DefinitivePreparationFailure.
TakeRefusal(w) ==
    /\ InPhase(w, "declined")
    /\ Rest(w)
    /\ IF Holds(w)
       THEN /\ Settle(workers[w].run, "released")
            /\ leased' = [leased EXCEPT ![workers[w].run] = FALSE]
       ELSE UNCHANGED <<quotaVars, status, disposition, leased>>
    /\ UNCHANGED <<limit, attempt, sequence, marked, grant, receipts, owner, epoch,
                   serviceVars, posts, crashes>>

\* The process dies during a tick: only committed rows remain.
Crash(w) ==
    /\ crashes < MaxCrashes
    /\ ~InPhase(w, "idle")
    /\ crashes' = crashes + 1
    /\ Rest(w)
    /\ UNCHANGED <<limit, quotaVars, runVars, receipts, leaseVars, epoch, serviceVars, posts>>

\* lease_until passes.  A tick is far shorter than its lease of a minute, so
\* without "pause" only the lease of a tick that has ended or died runs out.
LeaseExpires(r) ==
    /\ leased[r]
    /\ "pause" \in Faults \/ \A w \in Workers : owner[r] = w => workers[w].run # r
    /\ leased' = [leased EXCEPT ![r] = FALSE]
    /\ UNCHANGED <<limit, quotaVars, runVars, receipts, owner, epoch, workers, serviceVars,
                   posts, crashes>>

\* The service issues the next event of a run it has received.
Report(r, kind) ==
    /\ r \in received
    /\ kind = "malformed" => "malformed" \in Faults
    /\ LET issued == {e \in events : e.run = r} IN
       /\ \A e \in issued : e.kind = "running"
       /\ kind = "running" => Cardinality(issued) < MaxReports
       /\ events' = events \cup {[run |-> r, attempt |-> 1,
                                  sequence |-> Cardinality(issued), kind |-> kind]}
    /\ UNCHANGED <<limit, quotaVars, runVars, receipts, leaseVars, epoch, workers, received,
                   posts, crashes>>

-----------------------------------------------------------------------------
WorkerStep(w) ==
    \/ \E r \in Runs : Claim(w, r)
    \/ Prepare(w)
    \/ Call(w)
    \/ Respond(w)
    \/ TakeEvent(w)
    \/ TakeSilence(w)
    \/ TakeError(w)
    \/ TakeRefusal(w)

Next ==
    \/ \E r \in Runs : Start(r) \/ Release(r) \/ LeaseExpires(r)
    \/ \E n \in 0..MaxLimit : SetPolicy(n)
    \/ ChangeAccess
    \/ \E e \in events : Callback(e)
    \/ \E w \in Workers :
         \/ WorkerStep(w)
         \/ PrepareFails(w) \/ Decline(w) \/ ResponseLost(w) \/ Crash(w)
    \/ \E r \in Runs, kind \in {"running"} \cup FinalKinds : Report(r, kind)

SafeSpec == Init /\ [][Next]_vars

\* The worker loops keep ticking, clocks advance, the service finishes what it
\* received, the network does not lose every answer for ever and the storage does
\* not fail for ever.  Nothing is assumed of callbacks, of the student or of the
\* methodologist.
Fairness ==
    /\ \A w \in Workers : WF_vars(WorkerStep(w)) /\ SF_vars(Respond(w)) /\ SF_vars(Prepare(w))
    /\ WF_vars(\E r \in Runs : LeaseExpires(r))
    /\ WF_vars(\E r \in Runs, kind \in FinalKinds : Report(r, kind))

Spec == SafeSpec /\ Fairness

-----------------------------------------------------------------------------
\* Every variable stays in its domain.
Tick == [phase : Phases, run : Runs \cup {NoRun}, fresh : BOOLEAN, event : {<<>>} \cup Event]

TypeOK ==
    /\ limit \in 0..MaxLimit
    /\ used \in Nat /\ reserved \in Nat
    /\ ledger \in [Runs -> Seq({"reserve", "consume", "release"})]
    /\ status \in [Runs -> Statuses]
    /\ disposition \in [Runs -> Dispositions]
    /\ attempt \in [Runs -> Nat]
    /\ sequence \in [Runs -> Int]
    /\ marked \in [Runs -> BOOLEAN]
    /\ grant \in [Runs -> Nat]
    /\ receipts \subseteq events /\ events \subseteq Event
    /\ owner \in [Runs -> Workers \cup {NoWorker}]
    /\ leased \in [Runs -> BOOLEAN]
    /\ epoch \in Nat
    /\ workers \in [Workers -> Tick]
    /\ received \subseteq Runs
    /\ posts \in [Runs -> Nat]
    /\ crashes \in 0..MaxCrashes

\* The quota row agrees with the runs it counts, and one run at a time holds a
\* slot, whatever order claims, callbacks, late answers and releases commit in.
QuotaMatchesRuns ==
    /\ used = Cardinality({r \in Runs : disposition[r] = "consumed"})
    /\ reserved = Cardinality({r \in Runs : disposition[r] = "reserved"})
    /\ reserved <= 1

\* A run's ledger tells its story: reserved once, then settled at most once.
LedgerTellsOutcome ==
    \A r \in Runs :
        ledger[r] = CASE disposition[r] = "absent" -> <<>>
                      [] disposition[r] = "reserved" -> <<"reserve">>
                      [] disposition[r] = "consumed" -> <<"reserve", "consume">>
                      [] disposition[r] = "released" -> <<"reserve", "release">>

\* A student is charged only for a useful result, received as the run's last
\* event; a released run shows none, not even one that arrives late.
ChargeHasResult ==
    \A r \in Runs :
        disposition[r] = "consumed" <=>
            \E e \in receipts : /\ e.run = r /\ e.kind = "useful"
                                /\ e.sequence = sequence[r]
                                /\ status[r] = "succeeded"

\* The service is asked to do the work at most once: no crash, expired lease or
\* lost answer makes a second worker POST the run again.
SubmittedOnce == \A r \in Runs : posts[r] <= 1

\* New slots are only taken within the limit in force, also after it is lowered.
WithinLimit ==
    [][used' + reserved' > used + reserved => used' + reserved' <= limit]_vars

\* A settled run stays as it is: late answers, leases and events change nothing.
SettledIsFinal ==
    [][\A r \in Runs : disposition[r] \in {"consumed", "released"} =>
          /\ disposition'[r] = disposition[r]
          /\ status'[r] = status[r]
          /\ sequence'[r] = sequence[r]]_vars

\* Nobody will ever work on r again: its POST never arrived, so no lookup can
\* answer, or the service's final event is one no receiver accepts.
LostCause(r) ==
    \/ posts[r] > 0 /\ r \notin received
    \/ \E e \in events : e.run = r /\ e.kind = "malformed"

\* Every accepted run reaches an outcome and returns its slot, the only one a student
\* can hold at a time, through lost answers, failing storage, late callbacks and
\* changes of access, unless it is a lost cause or a worker died with it.
AcceptedRunSettles ==
    reserved > 0 ~> \/ reserved = 0
                    \/ \E r \in Runs : disposition[r] = "reserved" /\ LostCause(r)
                    \/ crashes > 0
=============================================================================
