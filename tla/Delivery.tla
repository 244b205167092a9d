------------------------------ MODULE Delivery ------------------------------
(***************************************************************************)
(* External delivery of published reviews to one destination: durable      *)
(* delivery rows, the Taskiq handlers that call the provider or reconcile  *)
(* an unknown outcome with it, and a methodologist's retry command.        *)
(*                                                                         *)
(* A delivery is named by its publication version.  A handler reads the    *)
(* delivery without a lock, takes the lock and changes the row in the same *)
(* transaction, calls the provider outside any transaction, and records    *)
(* the answer in a second one.  Under MySQL's REPEATABLE READ the unlocked *)
(* reads all see the snapshot of the first, while the locked read sees the *)
(* newest row; so reading and writing are two actions here.  Taskiq does   *)
(* not retry the errors of these handlers.                                 *)
(***************************************************************************)
EXTENDS Integers, FiniteSets

CONSTANTS
    Deliveries,     \* publication versions delivered to the destination
    Workers,        \* delivery tasks that may run at the same time
    MaxAttempts,    \* DeliveryTaskRuntime.max_attempts
    MaxChecks,      \* bound: reconciliations started for one delivery
    MaxDuplicates,  \* bound: signals a relay publishes a second time
    MaxRetries,     \* bound: retry commands of methodologists
    Faults          \* which of FaultKinds may happen

\* An exception of the adapter after the request took effect, a result that
\* belongs to another delivery, a dead worker, a revoked credential.
FaultKinds == {"exception", "foreign_result", "crash", "credential_revoked"}

ASSUME DeliveryAssumption ==
    /\ Deliveries \subseteq Nat
    /\ MaxAttempts \in 1..10
    /\ {MaxChecks, MaxDuplicates, MaxRetries} \subseteq Nat
    /\ Faults \subseteq FaultKinds

VARIABLES
    state,          \* ExternalDelivery.state, "absent" before it is scheduled
    count,          \* ExternalDelivery.attempt_count
    attempts,       \* DeliveryAttempt.state of each attempt number
    observed,       \* reconciliation observations: attempt number and outcome
    operation,      \* Operation.state
    numbered,       \* greatest OperationAttempt.attempt_number of the operation
    signals,        \* copies of each event's signal waiting in the queue
    duplicates,     \* signals published a second time
    asked,          \* deliveries with a manual message for their present revision
    retried,        \* result of the latest retry command, and commands so far
    workers,        \* tasks in progress
    applied,        \* the provider: attempts that took effect
    credential,     \* the exact credential version is active
    abandoned       \* history: deliveries whose task ended without recording a call

rowVars == <<state, count, attempts, observed, operation, numbered>>
providerVars == <<applied>>
environment == <<credential, abandoned>>
vars == <<rowVars, signals, duplicates, asked, retried, workers, providerVars, environment>>

-----------------------------------------------------------------------------
Claimable == {"pending", "retryable_failed"}
Terminal == {"succeeded", "action_required"}
States == {"absent", "processing", "unknown_outcome", "reconciling"}
            \cup Claimable \cup Terminal
Outcomes == Terminal \cup {"retryable_failed", "unknown_outcome"}
Answers == Outcomes \cup {"not_found"}
Replies == Answers \cup {"foreign_result"}
AttemptNumbers == 1..MaxAttempts

DELIVER == "ExternalDeliveryRequested"
RECONCILE == "ExternalDeliveryReconciliationRequested"
Events == {DELIVER, RECONCILE}

Idle == [pc |-> "idle", event |-> DELIVER, delivery |-> 0, number |-> 0, attempt |-> 0,
         answer |-> "retryable_failed"]
Rest(w) == workers' = [workers EXCEPT ![w] = Idle]

\* A task is about to call the provider for an attempt, and it gets an answer.
Begin(w, n) ==
    workers' = [workers EXCEPT ![w] =
                  [pc |-> "calling", event |-> @.event, delivery |-> @.delivery,
                   number |-> @.number, attempt |-> n, answer |-> @.answer]]
Answered(w, answer) ==
    workers' = [workers EXCEPT ![w] =
                  [pc |-> "answered", event |-> @.event, delivery |-> @.delivery,
                   number |-> @.number, attempt |-> @.attempt, answer |-> answer]]

\* What a call comes back with.  A result of another delivery is raised as a
\* DeliveryTaskError, which ends the task and leaves the rows as they are.
Replied(w, reply) ==
    IF reply = "foreign_result"
    THEN /\ "foreign_result" \in Faults
         /\ Rest(w)
         /\ abandoned' = abandoned \cup {workers[w].delivery}
    ELSE Answered(w, reply) /\ UNCHANGED abandoned

\* Mutant: an unknown outcome may be claimed like a failure.
ExpectedWithUnknown(event) ==
    IF event = DELIVER THEN Claimable \cup {"unknown_outcome"} ELSE {"unknown_outcome"}

\* The states of a delivery an event's handler works on.
Expected(event) == IF event = DELIVER THEN Claimable ELSE {"unknown_outcome"}

\* _append_outbox, or no message for event "none".
Signal(d, event) ==
    signals' = IF event = "none" THEN signals
               ELSE [signals EXCEPT ![<<d, event>>] = @ + 1]

\* Mutant: the unique constraint on (operation, attempt_number) is missing.
NumberAlwaysFree(w) == TRUE

\* uq_operation_attempt_org_operation_number: no other task has inserted the
\* attempt number computed from this task's snapshot.
NumberFree(w) == numbered[workers[w].delivery] < workers[w].number

\* Mutant: the attempt count is the one read before the claim counted its attempt.
ClaimCurrentAsRead(w, st, attemptSt) ==
    LET d == workers[w].delivery
        n == workers[w].attempt
    IN  /\ state[d] = st
        /\ count[d] = n - 1
        /\ n > 0 /\ attempts[d][n] = attemptSt
        /\ credential

\* _lock_claim_rows and _require_exact_active_credential.
ClaimCurrent(w, st, attemptSt) ==
    LET d == workers[w].delivery
        n == workers[w].attempt
    IN  /\ state[d] = st
        /\ count[d] = n
        /\ n > 0 /\ attempts[d][n] = attemptSt
        /\ credential

\* The state _finish_delivery gives a delivery the provider answered so.
Outcome(d, answer) ==
    CASE answer \in {"retryable_failed", "not_found"} /\ count[d] >= MaxAttempts ->
           "action_required"
      [] answer = "not_found" -> "retryable_failed"
      [] OTHER -> answer

\* The message _finish_delivery schedules.
Followup(st) ==
    CASE st = "unknown_outcome" -> RECONCILE
      [] st = "retryable_failed" -> DELIVER
      [] OTHER -> "none"

\* Mutant: a lookup that could not tell counts as a failure.
ReconciledStateHasty(answer) ==
    IF answer \in {"not_found", "unknown_outcome"} THEN "retryable_failed" ELSE answer

\* The state and the message _finish_reconciliation chooses.
ReconciledState(answer) == IF answer = "not_found" THEN "retryable_failed" ELSE answer
ReconciledFollowup(answer) ==
    CASE answer = "not_found" -> DELIVER
      [] answer \in {"retryable_failed", "unknown_outcome"} -> RECONCILE
      [] OTHER -> "none"

-----------------------------------------------------------------------------
Init ==
    /\ state = [d \in Deliveries |-> "absent"]
    /\ count = [d \in Deliveries |-> 0]
    /\ attempts = [d \in Deliveries |-> [n \in AttemptNumbers |-> "none"]]
    /\ observed = [d \in Deliveries |-> {}]
    /\ operation = [d \in Deliveries |-> "absent"]
    /\ numbered = [d \in Deliveries |-> 0]
    /\ signals = [m \in Deliveries \X Events |-> 0]
    /\ duplicates = 0
    /\ asked = {}
    /\ retried = [result |-> "none", times |-> 0]
    /\ workers = [w \in Workers |-> Idle]
    /\ applied = [d \in Deliveries |-> {}]
    /\ credential = TRUE
    /\ abandoned = {}

\* SqlReviewDeliveryScheduler.schedule, in the transaction that publishes the
\* next version: delivery, Operation and outbox message.
Schedule(d) ==
    /\ state[d] = "absent"
    /\ \A e \in Deliveries : e < d => state[e] # "absent"
    /\ credential
    /\ state' = [state EXCEPT ![d] = "pending"]
    /\ operation' = [operation EXCEPT ![d] = "pending"]
    /\ Signal(d, DELIVER)
    /\ UNCHANGED <<count, attempts, observed, numbered, duplicates, asked, retried, workers,
                   providerVars, environment>>

\* A relay whose lease expired publishes the signal once more.
Duplicate(d, e) ==
    /\ state[d] # "absent"
    /\ e = RECONCILE => "unknown_outcome" \in {attempts[d][n] : n \in AttemptNumbers}
    /\ duplicates < MaxDuplicates
    /\ duplicates' = duplicates + 1
    /\ Signal(d, e)
    /\ UNCHANGED <<rowVars, asked, retried, workers, providerVars, environment>>

\* A handler pops a signal and reads: a delivery in a terminal state is a
\* replay, one in another unexpected state an error, and either ends the task.
Read(w, d, e) ==
    /\ workers[w].pc = "idle"
    /\ signals[<<d, e>>] > 0
    /\ state[d] = "unknown_outcome" => numbered[d] < MaxAttempts + MaxChecks
    /\ signals' = [signals EXCEPT ![<<d, e>>] = @ - 1]
    /\ IF state[d] \in Expected(e) /\ credential
       THEN workers' = [workers EXCEPT ![w] =
                          [Idle EXCEPT !.pc = "reading", !.event = e, !.delivery = d,
                                       !.number = numbered[d] + 1]]
       ELSE UNCHANGED workers
    /\ UNCHANGED <<rowVars, duplicates, asked, retried, providerVars, environment>>

\* _claim_delivery from the lock on.  The state is not compared again; what
\* stops a second claim is the number of the OperationAttempt.
Claim(w) ==
    LET d == workers[w].delivery IN
    /\ workers[w].pc = "reading" /\ workers[w].event = DELIVER
    /\ IF count[d] < MaxAttempts /\ NumberFree(w)
       THEN /\ state' = [state EXCEPT ![d] = "processing"]
            /\ count' = [count EXCEPT ![d] = @ + 1]
            /\ attempts' = [attempts EXCEPT ![d] = [@ EXCEPT ![count[d] + 1] = "processing"]]
            /\ operation' = [operation EXCEPT ![d] = "processing"]
            /\ numbered' = [numbered EXCEPT ![d] = workers[w].number]
            /\ asked' = asked \ {d}
            /\ Begin(w, count[d] + 1)
       ELSE Rest(w) /\ UNCHANGED <<state, count, attempts, operation, numbered, asked>>
    /\ UNCHANGED <<observed, signals, duplicates, retried, providerVars, environment>>

\* _deliver: what the provider replies, and whether the request took effect.  A
\* timeout is an unknown outcome, any other exception of the adapter, or a result
\* that does not parse, a retryable failure.
Deliver(w, reply, effect) ==
    LET d == workers[w].delivery IN
    /\ workers[w].pc = "calling" /\ workers[w].event = DELIVER
    /\ CASE reply = "succeeded" -> effect
         [] reply \in {"unknown_outcome", "foreign_result"} -> TRUE
         [] reply = "retryable_failed" -> "exception" \in Faults \/ ~effect
         [] OTHER -> ~effect
    /\ Replied(w, reply)
    /\ applied' = IF effect THEN [applied EXCEPT ![d] = @ \cup {workers[w].attempt}] ELSE applied
    /\ UNCHANGED <<rowVars, signals, duplicates, asked, retried, credential>>

\* _finish_delivery; a stale claim or a revoked credential ends the task.
Finish(w) ==
    LET d == workers[w].delivery
        st == Outcome(d, workers[w].answer)
    IN
    /\ workers[w].pc = "answered" /\ workers[w].event = DELIVER
    /\ Rest(w)
    /\ IF ClaimCurrent(w, "processing", "processing")
       THEN /\ state' = [state EXCEPT ![d] = st]
            /\ attempts' = [attempts EXCEPT ![d] = [@ EXCEPT ![count[d]] = st]]
            /\ operation' = [operation EXCEPT ![d] = st]
            /\ asked' = asked \ {d}
            /\ Signal(d, Followup(st))
       ELSE UNCHANGED <<state, attempts, operation, asked, signals>>
    /\ UNCHANGED <<count, observed, numbered, duplicates, retried, providerVars, environment>>

-----------------------------------------------------------------------------
\* _begin_reconciliation from the lock on.
BeginReconciliation(w) ==
    LET d == workers[w].delivery IN
    /\ workers[w].pc = "reading" /\ workers[w].event = RECONCILE
    /\ IF NumberFree(w)
       THEN /\ state' = [state EXCEPT ![d] = "reconciling"]
            /\ operation' = [operation EXCEPT ![d] = "reconciling"]
            /\ numbered' = [numbered EXCEPT ![d] = workers[w].number]
            /\ asked' = asked \ {d}
            /\ Begin(w, count[d])
       ELSE Rest(w) /\ UNCHANGED <<state, operation, numbered, asked>>
    /\ UNCHANGED <<count, attempts, observed, signals, duplicates, retried, providerVars,
                   environment>>

\* _reconcile: the provider looks the delivery key up.  A retryable failure is an
\* answer like any other, and what an exception of the lookup is mapped to.
Reconcile(w, reply) ==
    LET d == workers[w].delivery IN
    /\ workers[w].pc = "calling" /\ workers[w].event = RECONCILE
    /\ CASE reply = "succeeded" -> applied[d] # {}
         [] reply = "not_found" -> applied[d] = {}
         [] OTHER -> TRUE
    /\ Replied(w, reply)
    /\ UNCHANGED <<rowVars, signals, duplicates, asked, retried, providerVars, credential>>

\* _finish_reconciliation.
FinishReconciliation(w) ==
    LET d == workers[w].delivery
        answer == workers[w].answer
        st == ReconciledState(answer)
    IN
    /\ workers[w].pc = "answered" /\ workers[w].event = RECONCILE
    /\ Rest(w)
    /\ IF ClaimCurrent(w, "reconciling", "unknown_outcome")
       THEN /\ observed' = [observed EXCEPT ![d] = @ \cup {<<count[d], answer>>}]
            /\ state' = [state EXCEPT ![d] = st]
            /\ operation' = [operation EXCEPT ![d] = st]
            /\ asked' = asked \ {d}
            /\ Signal(d, ReconciledFollowup(answer))
       ELSE UNCHANGED <<observed, state, operation, asked, signals>>
    /\ UNCHANGED <<count, attempts, numbered, duplicates, retried, providerVars, environment>>

-----------------------------------------------------------------------------
\* _manual_recovery_event
ManualEvent(d) ==
    IF \/ state[d] = "pending"
       \/ state[d] = "retryable_failed" /\ <<count[d], "not_found">> \in observed[d]
    THEN DELIVER ELSE RECONCILE

\* SqlManualDeliveryScheduler.schedule: one message for each revision.
ScheduleManually(d) ==
    /\ Signal(d, IF d \in asked THEN "none" ELSE ManualEvent(d))
    /\ asked' = asked \cup {d}

\* retry_delivery of a delivery in a claimable state: a message, no transition.
Retry(d) ==
    /\ state[d] \in Claimable
    /\ retried.times < MaxRetries
    /\ retried' = [result |-> "accepted", times |-> retried.times + 1]
    /\ ScheduleManually(d)
    /\ UNCHANGED <<rowVars, duplicates, workers, providerVars, environment>>

\* retry_delivery of an unknown outcome: a message, and begin_reconciliation.
RetryUnknown(d) ==
    /\ state[d] = "unknown_outcome"
    /\ retried.times < MaxRetries
    /\ retried' = [result |-> "accepted", times |-> retried.times + 1]
    /\ Signal(d, IF d \in asked THEN "none" ELSE ManualEvent(d))
    /\ asked' = asked \ {d}
    /\ state' = [state EXCEPT ![d] = "reconciling"]
    /\ UNCHANGED <<count, attempts, observed, operation, numbered, duplicates, workers,
                   providerVars, environment>>

\* Mutant: the transition does not look at the attempt.
RetryGivenUpAnyway(d) ==
    /\ state[d] = "action_required"
    /\ retried.times < MaxRetries
    /\ retried' = [result |-> "accepted", times |-> retried.times + 1]
    /\ Signal(d, IF d \in asked THEN "none" ELSE ManualEvent(d))
    /\ asked' = asked \ {d}
    /\ state' = [state EXCEPT ![d] = "unknown_outcome"]
    /\ UNCHANGED <<count, attempts, observed, operation, numbered, duplicates, workers,
                   providerVars, environment>>

\* retry_delivery of a given-up delivery: a message, and a transition back to
\* unknown_outcome that also finishes the current attempt, which has to be
\* processing; otherwise the conflict rolls the command back.
RetryGivenUp(d) ==
    /\ state[d] = "action_required"
    /\ retried.times < MaxRetries
    /\ IF count[d] = 0 \/ attempts[d][count[d]] = "processing"
       THEN /\ retried' = [result |-> "accepted", times |-> retried.times + 1]
            /\ Signal(d, IF d \in asked THEN "none" ELSE ManualEvent(d))
            /\ asked' = asked \ {d}
            /\ state' = [state EXCEPT ![d] = "unknown_outcome"]
            /\ attempts' = IF count[d] = 0 THEN attempts
                           ELSE [attempts EXCEPT ![d] =
                                   [@ EXCEPT ![count[d]] = "unknown_outcome"]]
       ELSE /\ retried' = [result |-> "conflict", times |-> retried.times + 1]
            /\ UNCHANGED <<signals, asked, state, attempts>>
    /\ UNCHANGED <<count, observed, operation, numbered, duplicates, workers, providerVars,
                   environment>>

-----------------------------------------------------------------------------
\* The worker process dies; its signal was already popped.
Crash(w) ==
    /\ "crash" \in Faults
    /\ workers[w].pc # "idle"
    /\ Rest(w)
    /\ abandoned' = abandoned \cup {workers[w].delivery}
    /\ UNCHANGED <<rowVars, signals, duplicates, asked, retried, providerVars, credential>>

RevokeCredential ==
    /\ "credential_revoked" \in Faults
    /\ credential
    /\ credential' = FALSE
    /\ UNCHANGED <<rowVars, signals, duplicates, asked, retried, workers, providerVars,
                   abandoned>>

WorkerStep(w) ==
    \/ \E d \in Deliveries, e \in Events : Read(w, d, e)
    \/ Claim(w)
    \/ \E reply \in Replies, effect \in BOOLEAN : Deliver(w, reply, effect)
    \/ Finish(w)
    \/ BeginReconciliation(w)
    \/ \E reply \in Replies : Reconcile(w, reply)
    \/ FinishReconciliation(w)

Next ==
    \/ \E d \in Deliveries : Schedule(d) \/ Retry(d) \/ RetryUnknown(d) \/ RetryGivenUp(d)
    \/ \E d \in Deliveries, e \in Events : Duplicate(d, e)
    \/ \E w \in Workers : WorkerStep(w) \/ Crash(w)
    \/ RevokeCredential

SafeSpec == Init /\ [][Next]_vars

\* Workers listen on the queue and provider calls end.  Whether a provider ever
\* answers usefully, and whether anybody retries by hand, is left open.
Fairness == \A w \in Workers : WF_vars(WorkerStep(w))

Spec == SafeSpec /\ Fairness

-----------------------------------------------------------------------------
\* Every variable stays in its set.
Task == [pc : {"idle", "reading", "calling", "answered"}, event : Events,
         delivery : Deliveries \cup {0}, number : Nat, attempt : Nat, answer : Answers]

TypeOK ==
    /\ state \in [Deliveries -> States]
    /\ count \in [Deliveries -> 0..MaxAttempts]
    /\ attempts \in [Deliveries -> [AttemptNumbers -> {"none", "processing"} \cup Outcomes]]
    /\ observed \in [Deliveries -> SUBSET (AttemptNumbers \X Answers)]
    /\ operation \in [Deliveries -> States]
    /\ numbered \in [Deliveries -> Nat]
    /\ signals \in [Deliveries \X Events -> Nat]
    /\ duplicates \in Nat
    /\ asked \subseteq Deliveries
    /\ retried \in [result : {"none", "accepted", "conflict"}, times : Nat]
    /\ workers \in [Workers -> Task]
    /\ applied \in [Deliveries -> SUBSET AttemptNumbers]
    /\ credential \in BOOLEAN
    /\ abandoned \subseteq Deliveries \cup {0}

\* The provider is never called twice at once for one delivery, and the attempt
\* shown as processing is the current one, although no claim compares the state
\* under its lock: duplicate signals, retries by hand and reconciliation race.
Calling(w) == workers[w].pc \in {"calling", "answered"}

OneCallAtATime ==
    /\ \A v, w \in Workers :
         Calling(v) /\ Calling(w) /\ workers[v].delivery = workers[w].delivery => v = w
    /\ \A d \in Deliveries, n \in AttemptNumbers :
         attempts[d][n] = "processing" <=> (n = count[d] /\ state[d] = "processing")

\* A delivery is shown as succeeded only if some call of its own took effect.
SuccessTookEffect ==
    \A d \in Deliveries : state[d] = "succeeded" => applied[d] # {}

\* The Operation and its delivery are in the same state, except that a retry by
\* hand of an unknown outcome moves only the delivery.
OperationFollowsDelivery ==
    \A d \in Deliveries :
        \/ operation[d] = state[d]
        \/ operation[d] = "unknown_outcome" /\ state[d] = "reconciling"

\* A delivery that was settled stays so, and is not delivered again, however late
\* its duplicate signals are and whatever is retried by hand.
SettledStays ==
    [][\A d \in Deliveries : state[d] \in Terminal =>
          state'[d] = state[d] /\ applied'[d] = applied[d]]_vars

\* An attempt whose outcome was unknown is followed by another one only after a
\* recorded lookup of it, which said that the provider has not got it or that it
\* failed: whatever duplicates were read before, no task goes round the lookup.
UnknownIsReconciledFirst ==
    \A d \in Deliveries, n \in AttemptNumbers :
        n < count[d] /\ attempts[d][n] = "unknown_outcome" =>
            \E answer \in {"not_found", "retryable_failed"} : <<n, answer>> \in observed[d]

\* An attempt that took effect is followed by another one only if it was recorded
\* as a retryable failure, by the call itself or by its lookup.  That record may
\* be wrong (an exception after the effect); a success, an unknown outcome that
\* stays unknown, or an answer overtaken by another task is never repeated.
OnlyFailuresAreRepeated ==
    \A d \in Deliveries, n \in AttemptNumbers :
        n < count[d] /\ n \in applied[d] =>
            attempts[d][n] = "retryable_failed" \/ <<n, "retryable_failed">> \in observed[d]

\* A delivery or reconciliation that its Operation shows as started is concluded:
\* however duplicates, reconciliations and retries by hand interleave with it, its
\* answer is recorded while workers run, unless its task ended without one (dead,
\* or given the result of another delivery) or its credential was revoked.
StartedCallConcludes ==
    \A d \in Deliveries, st \in {"processing", "reconciling"} :
        operation[d] = st ~> operation[d] # st \/ d \in abandoned \/ ~credential

=============================================================================
