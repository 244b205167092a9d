--------------------------- MODULE KindConcurrency --------------------------
(***************************************************************************)
(* The in-process concurrency limit of a Taskiq worker: one semaphore for  *)
(* each kind of task and a dictionary from task id to the kind whose slot  *)
(* the task claimed.  The relay publishes a signal under its message id as *)
(* task id, so executions of duplicate signals share an entry.             *)
(***************************************************************************)
EXTENDS Integers, FiniteSets

CONSTANTS
    Executions,     \* task executions the worker process is handed
    TaskId,         \* TaskId[e]: task_id of the message behind e
    Kind,           \* Kind[e]: its task kind
    Limit,          \* Limit[k]: the configured concurrency of kind k
    MaxRetries,     \* bound: times a failed execution is queued again
    NoKind          \* no entry in the dictionary

Kinds == DOMAIN Limit
TaskIds == {TaskId[e] : e \in Executions}

ASSUME KindConcurrencyAssumption ==
    /\ TaskId \in [Executions -> TaskIds]
    /\ Kind \in [Executions -> Kinds]
    /\ Limit \in [Kinds -> Nat \ {0}]
    /\ MaxRetries \in Nat
    /\ NoKind \notin Kinds

VARIABLES
    phase,          \* phase of each execution
    retries,        \* times it was queued again
    free,           \* value of each kind's semaphore
    claimed         \* _claimed: the kind entered for each task id

slotVars == <<phase, retries, free, claimed>>

Running(k) == {e \in Executions : phase[e] = "running" /\ Kind[e] = k}

SlotsInit ==
    /\ phase = [e \in Executions |-> "queued"]
    /\ retries = [e \in Executions |-> 0]
    /\ free = Limit
    /\ claimed = [t \in TaskIds |-> NoKind]

\* pre_execute reaches the semaphore and waits.
Receive(e) ==
    /\ phase[e] = "queued"
    /\ phase' = [phase EXCEPT ![e] = "waiting"]
    /\ UNCHANGED <<retries, free, claimed>>

\* The semaphore admits the task, which enters its claim.
Acquire(e) ==
    /\ phase[e] = "waiting"
    /\ free[Kind[e]] > 0
    /\ phase' = [phase EXCEPT ![e] = "running"]
    /\ free' = [free EXCEPT ![Kind[e]] = @ - 1]
    /\ claimed' = [claimed EXCEPT ![TaskId[e]] = Kind[e]]
    /\ UNCHANGED retries

\* Mutant: the entry is popped and its slot forgotten.
ForgetSlot(t) ==
    /\ claimed' = [claimed EXCEPT ![t] = NoKind]
    /\ UNCHANGED free

\* _release: the slot goes back only if the dictionary has an entry to pop.
ReleaseSlot(t) ==
    /\ free' = IF claimed[t] = NoKind THEN free
               ELSE [free EXCEPT ![claimed[t]] = @ + 1]
    /\ claimed' = [claimed EXCEPT ![t] = NoKind]

\* post_execute after a success.
PostExecute(e) ==
    /\ phase[e] = "running"
    /\ phase' = [phase EXCEPT ![e] = "done"]
    /\ ReleaseSlot(TaskId[e])
    /\ UNCHANGED retries

\* on_error after a failure.
OnError(e) ==
    /\ phase[e] = "running"
    /\ phase' = [phase EXCEPT ![e] = "failed"]
    /\ ReleaseSlot(TaskId[e])
    /\ UNCHANGED retries

\* Mutant: post_execute of a failed task returns the slot of its kind once more.
ConcludeReleasingAgain(e) ==
    /\ phase[e] = "failed"
    /\ \/ phase' = [phase EXCEPT ![e] = "done"] /\ UNCHANGED retries
       \/ /\ retries[e] < MaxRetries
          /\ phase' = [phase EXCEPT ![e] = "queued"]
          /\ retries' = [retries EXCEPT ![e] = @ + 1]
    /\ free' = [free EXCEPT ![Kind[e]] = @ + 1]
    /\ UNCHANGED claimed

\* The retry middleware, called after KindConcurrencyMiddleware, queues the message
\* of a RetryableTaskError again under the same task id, and post_execute follows:
\* it finds the entry on_error has popped, or that of a duplicate.
Conclude(e) ==
    /\ phase[e] = "failed"
    /\ \/ phase' = [phase EXCEPT ![e] = "done"] /\ UNCHANGED retries
       \/ /\ retries[e] < MaxRetries
          /\ phase' = [phase EXCEPT ![e] = "queued"]
          /\ retries' = [retries EXCEPT ![e] = @ + 1]
    /\ ReleaseSlot(TaskId[e])

SlotsNext ==
    \E e \in Executions : Receive(e) \/ Acquire(e) \/ PostExecute(e) \/ OnError(e) \/ Conclude(e)

\* asyncio.Semaphore serves its waiters in order, so a waiter that can be
\* admitted again and again is admitted.  Tasks end.
SlotsFairness ==
    \A e \in Executions :
        /\ WF_slotVars(Receive(e))
        /\ SF_slotVars(Acquire(e))
        /\ WF_slotVars(PostExecute(e) \/ OnError(e))
        /\ WF_slotVars(Conclude(e))

SafeSlotsSpec == SlotsInit /\ [][SlotsNext]_slotVars

SlotsSpec == SafeSlotsSpec /\ SlotsFairness

-----------------------------------------------------------------------------
\* Every variable stays in its domain; a semaphore is never negative.
SlotsTypeOK ==
    /\ phase \in [Executions -> {"queued", "waiting", "running", "failed", "done"}]
    /\ retries \in [Executions -> 0..MaxRetries]
    /\ free \in [Kinds -> Nat]
    /\ claimed \in [TaskIds -> Kinds \cup {NoKind}]

\* Each kind's slots are free or held by a running task of that kind: none is
\* lost, none is handed out twice, and other kinds do not spend them.
SlotsConserved ==
    \A k \in Kinds : free[k] + Cardinality(Running(k)) = Limit[k]

\* Every task handed to the worker runs in the end, however busy its kind is.
EveryTaskRuns ==
    \A e \in Executions : phase[e] = "waiting" ~> phase[e] = "running"
=============================================================================
