------------------------------ MODULE AIReview ------------------------------
(***************************************************************************)
(* One AI review run of the backend core, from the start command through   *)
(* the outbox signal and the Taskiq dispatch to the component's events.    *)
(*                                                                         *)
(* A run is the logical identity of one input fingerprint: every start of  *)
(* the same inputs finds it.  Three kinds of process write the same rows   *)
(* (AIReviewRun, AIReviewAttempt, Operation), each in transactions of its  *)
(* own: the start command, dispatch workers (one transaction before and    *)
(* one after the provider call) and the HTTP ingestion of events.  Events  *)
(* may arrive before the dispatch that caused them is recorded, twice, or  *)
(* out of order.  Every action is one committed transaction or one step    *)
(* outside the database; a rejected request commits nothing and is no step.*)
(***************************************************************************)
EXTENDS Integers, Sequences, FiniteSets

CONSTANTS
    Workers,        \* dispatch tasks that may run at the same time
    MaxAttempt,     \* bound: attempt numbers the model tells apart
    MaxSeq,         \* bound: events the component emits for one attempt
    MaxPushes,      \* bound: copies of the signal the outbox relays push
    MaxRetries,     \* default_retry_count: times Taskiq enqueues the task again
    DispatchMax,    \* dispatch_max_attempts
    Faults          \* which of FaultKinds may happen

FaultKinds == {"redis_loss", "worker_crash", "credential_revoked", "superseded"}

ASSUME AIReviewAssumption ==
    /\ MaxAttempt \in Nat \ {0}
    /\ MaxSeq \in Nat
    /\ MaxPushes \in Nat \ {0}
    /\ MaxRetries \in Nat
    /\ DispatchMax \in 1..10
    /\ Faults \subseteq FaultKinds

Attempts == 1..MaxAttempt

VARIABLES
    run,            \* AIReviewRun: status and current_attempt_no
    attempts,       \* AIReviewAttempt rows: status and last_sequence
    operation,      \* state of the Operation with the run's id
    payload,        \* attempt_number in the AIReviewRequested message, 0 before
    outbox,         \* that message: "none", "owed" to the queue or "settled"
    queue,          \* copies of its signal: waiting, pushed and retried so far, and
                    \* whether Redis or a worker ever lost one
    dispatches,     \* OperationAttempts written by dispatch workers
    accepted,       \* attempts with a dispatch OperationAttempt "processing"
    receipts,       \* AIReviewEventReceipt rows
    started,        \* result of the latest start command
    workers,        \* dispatch tasks in progress
    emitted,        \* the component: statuses of the events it issued, in order
    begun,          \* the component: attempts it works on
    inputsCurrent,  \* the review case still points at the run's inputs
    credential      \* the bound component credential is active

database == <<run, attempts, operation, dispatches, accepted, receipts>>
component == <<emitted, begun>>
environment == <<inputsCurrent, credential>>
vars == <<database, payload, outbox, queue, started, workers, component, environment>>

-----------------------------------------------------------------------------
FinalEvents == {"succeeded", "retryable_failed", "action_required"}
EventStatuses == {"running", "partial"} \cup FinalEvents

RunTerminal == {"succeeded", "action_required", "stale"}
AttemptTerminal == RunTerminal

Progress == {"partial", "succeeded", "retryable_failed", "action_required", "stale"}

\* RUN_TRANSITIONS
RunTransitions ==
    {"pending", "retryable_failed"} \X {"running", "action_required", "stale"}
    \cup {"running"} \X Progress
    \cup {"partial"} \X (Progress \cup {"running"})

\* ATTEMPT_TRANSITIONS
AttemptTransitions ==
    {"pending", "retryable_failed"} \X {"running", "action_required", "stale"}
    \cup {"running", "partial"} \X Progress

\* Mutant: partial results count as processing.
OperationStateCoarse(st) == IF st \in {"running", "partial"} THEN "processing" ELSE st

\* _operation_state: the Operation state shown for a run state.
OperationState(st) == IF st = "running" THEN "processing" ELSE st

\* _REPLAYABLE_STATUSES of the start service
Replayable == {"pending", "running", "partial", "succeeded", "action_required", "stale"}

\* schedule accepts an Operation it already made only with the identical payload.
CanSchedule(n) == operation = "none" \/ payload = n

\* Mutant: the run is expected to be untouched by the start command.
DispatchRowsPending(n) ==
    /\ operation # "none"
    /\ run.no = n
    /\ run.status = "pending"
    /\ credential

\* _validate_dispatch_rows for a task that carries attempt n.
DispatchRowsValid(n) ==
    /\ operation # "none"
    /\ run.no = n
    /\ credential

IdleWorker == [pc |-> "idle", n |-> 0, outcome |-> "none"]

-----------------------------------------------------------------------------
Init ==
    /\ run = [status |-> "none", no |-> 0]
    /\ attempts = [n \in Attempts |-> [status |-> "none", seq |-> 0]]
    /\ operation = "none"
    /\ payload = 0
    /\ outbox = "none"
    /\ queue = [waiting |-> 0, pushed |-> 0, retried |-> 0, lost |-> FALSE]
    /\ dispatches = 0
    /\ accepted = {}
    /\ receipts = {}
    /\ started = "none"
    /\ workers = [w \in Workers |-> IdleWorker]
    /\ emitted = [n \in Attempts |-> <<>>]
    /\ begun = {}
    /\ inputsCurrent = TRUE
    /\ credential = TRUE

\* start for inputs without a run, or for a run that failed retryably: a new
\* attempt, the run back to running, and the dispatch scheduled, or, when schedule
\* raises, nothing at all.
StartAttempt ==
    LET n == run.no + 1 IN
    /\ inputsCurrent /\ credential
    /\ run.status \in {"none", "retryable_failed"}
    /\ n \in Attempts
    /\ IF CanSchedule(n)
       THEN /\ run' = [status |-> "running", no |-> n]
            /\ attempts' = [attempts EXCEPT ![n] = [status |-> "pending", seq |-> 0]]
            /\ operation' = IF operation = "none" THEN "pending" ELSE operation
            /\ payload' = n
            /\ outbox' = IF outbox = "none" THEN "owed" ELSE outbox
            /\ started' = "created"
       ELSE /\ started' = "rolled_back"
            /\ UNCHANGED <<run, attempts, operation, payload, outbox>>
    /\ UNCHANGED <<queue, dispatches, accepted, receipts, workers, component, environment>>

\* start for a run in any other state returns the current attempt.
StartReplay ==
    /\ inputsCurrent /\ credential
    /\ run.status \in Replayable
    /\ started' = "replayed"
    /\ UNCHANGED <<database, payload, outbox, queue, workers, component, environment>>

-----------------------------------------------------------------------------
\* The outbox relay pushes a copy while the message is owed, then settles it;
\* a relay that lost its lease may push once more after that.
PushSignal ==
    /\ outbox # "none"
    /\ queue.pushed < MaxPushes
    /\ queue' = [queue EXCEPT !.waiting = @ + 1, !.pushed = @ + 1]
    /\ outbox' = "settled"
    /\ UNCHANGED <<database, payload, started, workers, component, environment>>

\* The Redis list is lost.
LoseRedis ==
    /\ "redis_loss" \in Faults
    /\ queue.waiting > 0
    /\ queue' = [queue EXCEPT !.waiting = 0, !.lost = TRUE]
    /\ UNCHANGED <<database, payload, outbox, started, workers, component, environment>>

\* A worker pops a signal and loads the context; an attempt whose dispatch was
\* recorded as accepted is a replay, and rows that do not fit are an error that
\* nothing retries.
BeginDispatch(w) ==
    /\ workers[w].pc = "idle"
    /\ queue.waiting > 0
    /\ queue' = [queue EXCEPT !.waiting = @ - 1]
    /\ workers' = IF DispatchRowsValid(payload) /\ payload \notin accepted
                  THEN [workers EXCEPT ![w] = [pc |-> "calling", n |-> payload,
                                               outcome |-> "none"]]
                  ELSE workers
    /\ UNCHANGED <<database, payload, outbox, started, component, environment>>

\* provider.start_review returns or raises.  The component has begun the attempt
\* if it answered "accepted", and may have begun when its answer got lost.
CallProvider(w, outcome, begins) ==
    /\ workers[w].pc = "calling"
    /\ outcome = "accepted" => begins
    /\ outcome = "action_required" => ~ begins
    /\ workers' = [workers EXCEPT ![w] = [@ EXCEPT !.pc = "answered", !.outcome = outcome]]
    /\ begun' = IF begins THEN begun \cup {workers[w].n} ELSE begun
    /\ UNCHANGED <<database, payload, outbox, queue, started, emitted, environment>>

\* The recording transaction: _lock_dispatch_context, the dispatch budget and
\* _record_dispatch_outcome, which writes the three statuses whatever they were.
\* A retryable outcome makes Taskiq enqueue the same signal again.
RecordDispatch(w) ==
    LET n == workers[w].n
        exhausted == workers[w].outcome = "retryable_failed" /\ dispatches + 1 >= DispatchMax
        outcome == IF exhausted THEN "action_required" ELSE workers[w].outcome
        status == IF outcome = "accepted" THEN "running" ELSE outcome
    IN
    /\ workers[w].pc = "answered"
    /\ workers' = [workers EXCEPT ![w] = IdleWorker]
    /\ IF DispatchRowsValid(n)
       THEN /\ run' = [run EXCEPT !.status = status]
            /\ attempts' = [attempts EXCEPT ![n].status = status]
            /\ operation' = OperationState(status)
            /\ dispatches' = dispatches + 1
            /\ accepted' = IF outcome = "accepted" THEN accepted \cup {n} ELSE accepted
            /\ IF outcome = "retryable_failed" /\ queue.retried < MaxRetries
               THEN queue' = [queue EXCEPT !.waiting = @ + 1, !.retried = @ + 1]
               ELSE UNCHANGED queue
       ELSE UNCHANGED <<run, attempts, operation, dispatches, accepted, queue>>
    /\ UNCHANGED <<payload, outbox, receipts, started, component, environment>>

\* The worker process dies; its signal was already popped.
WorkerCrash(w) ==
    /\ "worker_crash" \in Faults
    /\ workers[w].pc # "idle"
    /\ workers' = [workers EXCEPT ![w] = IdleWorker]
    /\ queue' = [queue EXCEPT !.lost = TRUE]
    /\ UNCHANGED <<database, payload, outbox, started, component, environment>>

-----------------------------------------------------------------------------
\* The component issues its next event for an attempt, until a final one.
Emit(n, st) ==
    /\ n \in begun
    /\ Len(emitted[n]) < MaxSeq
    /\ \A i \in DOMAIN emitted[n] : emitted[n][i] \notin FinalEvents
    /\ emitted' = [emitted EXCEPT ![n] = Append(@, st)]
    /\ UNCHANGED <<database, payload, outbox, queue, started, workers, begun, environment>>

\* Mutant: the sequence of an event is not compared.
AnySequence(n, s) == TRUE

\* The event advances the attempt's sequence.
Advances(n, s) == s > attempts[n].seq

\* Mutant: the sequence of an applied event is not stored.
AttemptWithoutSequence(n, s, st) ==
    IF attempts[n].status \notin AttemptTerminal
    THEN [status |-> st, seq |-> attempts[n].seq] ELSE attempts[n]

\* The attempt row after event s with status st; a terminal attempt stays.
AttemptAfter(n, s, st) ==
    IF attempts[n].status \notin AttemptTerminal
    THEN [status |-> st, seq |-> s] ELSE attempts[n]

\* ingest of an event the component issued; a copy of an event already received
\* is acknowledged without effect, and a sequence that does not advance, or a
\* transition the tables do not allow, rolls everything back.
Ingest(n, s) ==
    LET st == emitted[n][s]
        current == run.no = n
        target == IF inputsCurrent THEN st ELSE "stale"
    IN
    /\ s \in DOMAIN emitted[n]
    /\ \A e \in receipts : e.n # n \/ e.seq # s
    /\ Advances(n, s)
    /\ attempts[n].status \notin AttemptTerminal =>
         <<attempts[n].status, st>> \in AttemptTransitions
    /\ current => <<run.status, target>> \in RunTransitions
    /\ receipts' = receipts \cup {[n |-> n, seq |-> s, status |-> st]}
    /\ attempts' = [attempts EXCEPT ![n] = AttemptAfter(n, s, st)]
    /\ run' = IF current THEN [run EXCEPT !.status = target] ELSE run
    /\ operation' = OperationState(run'.status)
    /\ UNCHANGED <<payload, outbox, queue, dispatches, accepted, started, workers,
                   component, environment>>

-----------------------------------------------------------------------------
\* A new submission version makes another iteration current.
Supersede ==
    /\ "superseded" \in Faults
    /\ inputsCurrent
    /\ inputsCurrent' = FALSE
    /\ UNCHANGED <<database, payload, outbox, queue, started, workers, component, credential>>

RevokeCredential ==
    /\ "credential_revoked" \in Faults
    /\ credential
    /\ credential' = FALSE
    /\ UNCHANGED <<database, payload, outbox, queue, started, workers, component, inputsCurrent>>

CallOutcomes == {"accepted", "retryable_failed", "action_required"}

Next ==
    \/ StartAttempt
    \/ StartReplay
    \/ PushSignal
    \/ LoseRedis
    \/ \E w \in Workers : BeginDispatch(w)
    \/ \E w \in Workers, o \in CallOutcomes, b \in BOOLEAN : CallProvider(w, o, b)
    \/ \E w \in Workers : RecordDispatch(w)
    \/ \E w \in Workers : WorkerCrash(w)
    \/ \E n \in Attempts, st \in EventStatuses : Emit(n, st)
    \/ \E n \in Attempts : \E s \in DOMAIN emitted[n] : Ingest(n, s)
    \/ Supersede
    \/ RevokeCredential

SafeSpec == Init /\ [][Next]_vars

\* The relay retries an owed message, workers listen on the queue, and a provider
\* call ends (its client has a timeout).  Users and the component owe nothing.
Fairness ==
    /\ WF_vars(outbox = "owed" /\ PushSignal)
    /\ \A w \in Workers :
        /\ WF_vars(BeginDispatch(w))
        /\ WF_vars(\E o \in CallOutcomes, b \in BOOLEAN : CallProvider(w, o, b))
        /\ WF_vars(RecordDispatch(w))

Spec == SafeSpec /\ Fairness

-----------------------------------------------------------------------------
Statuses == {"none", "pending"} \cup EventStatuses \cup {"stale"}

\* Every variable stays in its set.
TypeOK ==
    /\ run \in [status : Statuses, no : 0..MaxAttempt]
    /\ attempts \in [Attempts -> [status : Statuses, seq : 0..MaxSeq]]
    /\ operation \in {"none", "pending", "processing", "partial", "stale"} \cup FinalEvents
    /\ payload \in 0..MaxAttempt
    /\ outbox \in {"none", "owed", "settled"}
    /\ queue \in [waiting : 0..(MaxPushes + MaxRetries), pushed : 0..MaxPushes,
                  retried : 0..MaxRetries, lost : BOOLEAN]
    /\ dispatches \in Nat
    /\ accepted \subseteq Attempts
    /\ receipts \subseteq [n : Attempts, seq : 1..MaxSeq, status : EventStatuses]
    /\ started \in {"none", "created", "replayed", "rolled_back"}
    /\ workers \in [Workers -> [pc : {"idle", "calling", "answered"}, n : 0..MaxAttempt,
                                outcome : CallOutcomes \cup {"none"}]]
    /\ emitted \in [Attempts -> Seq(EventStatuses)]
    /\ begun \subseteq Attempts
    /\ inputsCurrent \in BOOLEAN
    /\ credential \in BOOLEAN

\* The Operation users watch never contradicts the run, although dispatch workers
\* and event ingestion write it independently.
OperationMirrorsRun ==
    \/ operation = "none" /\ run.status = "none"
    \/ operation = "pending" /\ run.status = "running" /\ dispatches = 0 /\ receipts = {}
    \/ operation = "processing" /\ run.status = "running"
    \/ operation = run.status /\ run.status # "running"

\* A run shows a result only if the component reported exactly that for the current
\* attempt, in the newest event applied to it, for the inputs it was started with.
ResultHasReceipt ==
    run.status \in {"partial", "succeeded"} =>
        [n |-> run.no, seq |-> attempts[run.no].seq, status |-> run.status] \in receipts

\* Events take effect in the order the component numbered them: a delayed event is
\* never applied on top of a later one, also after a dispatch was recorded again.
EventsTakeEffectInOrder ==
    [][\A e \in receipts' \ receipts : \A d \in receipts : d.n = e.n => d.seq < e.seq]_vars

\* A started review is never forgotten before its dispatch: while its Operation is
\* pending, the message is owed, its signal waits or a worker has it, unless Redis
\* or a dying worker lost the signal or the credential was revoked meanwhile.
PendingIsOnItsWay ==
    operation = "pending" =>
        \/ outbox = "owed" \/ queue.waiting > 0
        \/ \E w \in Workers : workers[w].pc # "idle"
        \/ queue.lost \/ ~credential

\* So its dispatch is recorded, or the failure of it, in the end.
StartIsDispatched ==
    (operation = "pending") ~> (operation # "pending" \/ queue.lost \/ ~credential)

-----------------------------------------------------------------------------
(* What the documents say of the program; the code does otherwise. *)

\* data-model.md:339 "Terminal state не регрессирует."
TerminalStateStays ==
    [][run.status \in RunTerminal => run'.status = run.status]_vars
=============================================================================
