--------------------------- MODULE AIReviewProofs ---------------------------
(***************************************************************************)
(* Proofs about AIReview for any number of dispatch workers, events, pushed *)
(* copies and retries, any dispatch budget and any set of faults.          *)
(***************************************************************************)
EXTENDS AIReview, TLAPS

USE DEF FinalEvents, EventStatuses, RunTerminal, AttemptTerminal

\* The Operation made by the first start keeps its payload, so the run never gets
\* past its first attempt, and nothing happens before that.
OneAttempt ==
    /\ run.no \in {0, 1}
    /\ payload = run.no
    /\ run.no = 0 <=> run.status = "none"
    /\ run.no = 0 <=> operation = "none"
    /\ run.no = 0 <=> outbox = "none"
    /\ run.no = 0 => dispatches = 0 /\ receipts = {} /\ accepted = {}

\* Tasks and the component work on that attempt only, and the signals in the queue
\* are those that were pushed or retried.
Bound ==
    /\ \A w \in Workers : workers[w].pc # "idle" => workers[w].n = run.no /\ run.no # 0
    /\ \A w \in Workers : workers[w].pc = "answered" => workers[w].outcome \in CallOutcomes
    /\ \A n \in begun : n = run.no
    /\ \A n \in Attempts : Len(emitted[n]) <= MaxSeq
    /\ \A n \in Attempts : emitted[n] # <<>> => n \in begun
    /\ queue.waiting <= queue.pushed + queue.retried

\* An attempt does not end before its run, and its sequence is not behind any event
\* that was applied to it.
Sequenced ==
    /\ run.no # 0 /\ attempts[run.no].status \in AttemptTerminal => run.status \in RunTerminal
    /\ \A e \in receipts : e.n = run.no /\ e.seq <= attempts[e.n].seq

IInv ==
    /\ TypeOK
    /\ OneAttempt
    /\ Bound
    /\ Sequenced
    /\ OperationMirrorsRun
    /\ ResultHasReceipt
    /\ accepted # {} => operation # "pending"
    /\ PendingIsOnItsWay

-----------------------------------------------------------------------------
LEMMA InitIInv == Init => IInv
<1> SUFFICES ASSUME Init PROVE IInv
  OBVIOUS
<1>1. TypeOK
  BY AIReviewAssumption DEF Init, TypeOK, IdleWorker, Statuses, Attempts
<1>2. OneAttempt /\ Sequenced /\ OperationMirrorsRun /\ ResultHasReceipt /\ PendingIsOnItsWay
  BY DEF Init, OneAttempt, Sequenced, OperationMirrorsRun, ResultHasReceipt, PendingIsOnItsWay
<1>3. Bound
  BY AIReviewAssumption DEF Init, Bound, IdleWorker
<1> QED
  BY <1>1, <1>2, <1>3 DEF IInv, Init

LEMMA QueueFields ==
    ASSUME IInv
    PROVE  queue \in [waiting : Nat, pushed : Nat, retried : Nat, lost : BOOLEAN]
  BY AIReviewAssumption DEF IInv, TypeOK

\* A run can be started once: the second attempt is refused by schedule.
LEMMA StartAttemptStep == ASSUME IInv, StartAttempt PROVE IInv'
<1>1. CASE CanSchedule(run.no + 1)
  <2>1. run.no = 0 /\ run.status = "none" /\ operation = "none" /\ 1 \in Attempts
    BY <1>1, AIReviewAssumption DEF IInv, OneAttempt, StartAttempt, CanSchedule, Attempts
  <2>2. /\ run' = [status |-> "running", no |-> 1]
        /\ attempts' = [attempts EXCEPT ![1] = [status |-> "pending", seq |-> 0]]
        /\ operation' = "pending" /\ payload' = 1 /\ outbox' = "owed" /\ started' = "created"
        /\ UNCHANGED <<queue, dispatches, accepted, receipts, workers, component, environment>>
    BY <1>1, <2>1 DEF StartAttempt, IInv, OneAttempt
  <2>3. TypeOK'
    BY <2>1, <2>2, AIReviewAssumption
    DEF IInv, TypeOK, Attempts, Statuses, component, environment
  <2>4. (OneAttempt /\ OperationMirrorsRun /\ ResultHasReceipt /\ PendingIsOnItsWay)'
    BY <2>1, <2>2
    DEF IInv, OneAttempt, OperationMirrorsRun, ResultHasReceipt, PendingIsOnItsWay
  <2>5. Bound'
    <3>1. \A w \in Workers : workers[w].pc = "idle"
      BY <2>1 DEF IInv, Bound
    <3>2. begun = {}
      BY <2>1 DEF IInv, Bound, TypeOK, Attempts
    <3>3. UNCHANGED <<queue, workers, emitted, begun>>
      BY <2>2 DEF component
    <3>4. Bound
      BY DEF IInv
    <3> QED
      BY <3>1, <3>2, <3>3, <3>4 DEF Bound
  <2>6. Sequenced'
    BY <2>1, <2>2 DEF IInv, TypeOK, OneAttempt, Sequenced
  <2> QED
    BY <2>1, <2>2, <2>3, <2>4, <2>5, <2>6 DEF IInv, OneAttempt
<1>2. CASE ~CanSchedule(run.no + 1)
  BY <1>2
  DEF StartAttempt, IInv, TypeOK, OneAttempt, Bound, Sequenced, OperationMirrorsRun,
      ResultHasReceipt, PendingIsOnItsWay, component, environment
<1> QED
  BY <1>1, <1>2

\* The steps of the queue: the database stays as it is.
LEMMA QueueStep ==
    ASSUME IInv, StartReplay \/ PushSignal \/ LoseRedis
    PROVE  IInv'
<1> USE DEF database, component, environment
<1>1. CASE StartReplay
  BY <1>1
  DEF StartReplay, IInv, TypeOK, OneAttempt, Bound, Sequenced, OperationMirrorsRun,
      ResultHasReceipt, PendingIsOnItsWay
<1>2. CASE PushSignal
  <2>1. /\ queue'.waiting = queue.waiting + 1 /\ queue'.pushed = queue.pushed + 1
        /\ queue'.retried = queue.retried /\ queue'.lost = queue.lost
        /\ queue' \in [waiting : Nat, pushed : Nat, retried : Nat, lost : BOOLEAN]
    <3>1. queue \in [waiting : Nat, pushed : Nat, retried : Nat, lost : BOOLEAN]
      BY QueueFields
    <3>2. PICK q : q = [queue EXCEPT !.waiting = queue.waiting + 1]
      OBVIOUS
    <3>3. queue' = [q EXCEPT !.pushed = queue.pushed + 1]
      BY <1>2, <3>2, Zenon DEF PushSignal
    <3>4. q \in [waiting : Nat, pushed : Nat, retried : Nat, lost : BOOLEAN]
          /\ q.waiting = queue.waiting + 1 /\ q.pushed = queue.pushed
          /\ q.retried = queue.retried /\ q.lost = queue.lost
      BY <3>1, <3>2
    <3> QED
      BY <3>1, <3>3, <3>4
  <2>2. /\ queue.pushed < MaxPushes /\ outbox' = "settled" /\ outbox # "none"
        /\ UNCHANGED <<database, payload, started, workers, component, environment>>
    BY <1>2 DEF PushSignal
  <2>3. queue' \in [waiting : 0..(MaxPushes + MaxRetries), pushed : 0..MaxPushes,
                    retried : 0..MaxRetries, lost : BOOLEAN]
    BY <2>1, <2>2, AIReviewAssumption DEF IInv, TypeOK, Bound
  <2>4. TypeOK'
    BY <2>2, <2>3 DEF IInv, TypeOK
  <2>5. Bound'
    BY <2>1, <2>2 DEF IInv, TypeOK, Bound
  <2>6. PendingIsOnItsWay'
    BY <2>1, <2>2 DEF IInv, TypeOK, PendingIsOnItsWay
  <2> QED
    BY <2>2, <2>4, <2>5, <2>6
    DEF IInv, OneAttempt, Sequenced, OperationMirrorsRun, ResultHasReceipt
<1>3. CASE LoseRedis
  <2>1. /\ queue'.waiting = 0 /\ queue'.pushed = queue.pushed
        /\ queue'.retried = queue.retried /\ queue'.lost
        /\ queue' \in [waiting : 0..(MaxPushes + MaxRetries), pushed : 0..MaxPushes,
                        retried : 0..MaxRetries, lost : BOOLEAN]
    <3>1. queue \in [waiting : Nat, pushed : Nat, retried : Nat, lost : BOOLEAN]
      BY QueueFields
    <3>2. PICK q : q = [queue EXCEPT !.waiting = 0]
      OBVIOUS
    <3>4. queue' = [q EXCEPT !.lost = TRUE]
      BY <1>3, <3>2, Zenon DEF LoseRedis
    <3>3. queue.pushed \in 0..MaxPushes /\ queue.retried \in 0..MaxRetries
      BY DEF IInv, TypeOK
    <3>5. q \in [waiting : Nat, pushed : Nat, retried : Nat, lost : BOOLEAN]
          /\ q.waiting = 0 /\ q.pushed = queue.pushed
          /\ q.retried = queue.retried
      BY <3>1, <3>2
    <3>6. /\ queue'.waiting = 0 /\ queue'.pushed = queue.pushed
          /\ queue'.retried = queue.retried /\ queue'.lost
          /\ queue' \in [waiting : Nat, pushed : Nat, retried : Nat, lost : BOOLEAN]
      BY <3>4, <3>5
    <3> QED
      BY <3>3, <3>6, AIReviewAssumption
  <2>2. UNCHANGED <<database, payload, outbox, started, workers, component, environment>>
    BY <1>3 DEF LoseRedis
  <2>3. TypeOK'
    BY <2>1, <2>2 DEF IInv, TypeOK
  <2>4. Bound'
    BY <2>1, <2>2, AIReviewAssumption DEF IInv, TypeOK, Bound
  <2> QED
    BY <2>1, <2>2, <2>3, <2>4
    DEF IInv, OneAttempt, Sequenced, OperationMirrorsRun, ResultHasReceipt, PendingIsOnItsWay
<1> QED
  BY <1>1, <1>2, <1>3

\* A signal that nobody takes up is not the only one of a pending Operation.
LEMMA BeginDispatchStep == ASSUME IInv, NEW w \in Workers, BeginDispatch(w) PROVE IInv'
<1> USE DEF database, component, environment
<1>1. /\ queue.waiting > 0
      /\ queue'.waiting = queue.waiting - 1 /\ queue'.pushed = queue.pushed
      /\ queue'.retried = queue.retried /\ queue'.lost = queue.lost
      /\ UNCHANGED <<database, payload, outbox, started, component, environment>>
  BY DEF BeginDispatch, IInv, TypeOK
<1>2. \/ /\ DispatchRowsValid(payload)
         /\ workers' = [workers EXCEPT ![w] = [pc |-> "calling", n |-> payload,
                                               outcome |-> "none"]]
      \/ /\ ~DispatchRowsValid(payload) \/ payload \in accepted
         /\ workers' = workers
  BY DEF BeginDispatch
<1>3. DispatchRowsValid(payload) => run.no # 0
  BY DEF DispatchRowsValid, IInv, OneAttempt
<1>4. queue' \in [waiting : 0..(MaxPushes + MaxRetries), pushed : 0..MaxPushes,
                  retried : 0..MaxRetries, lost : BOOLEAN]
  <2>1. queue \in [waiting : 0..(MaxPushes + MaxRetries), pushed : 0..MaxPushes,
                   retried : 0..MaxRetries, lost : BOOLEAN]
    BY DEF IInv, TypeOK
  <2>2. queue' = [queue EXCEPT !.waiting = @ - 1]
    BY DEF BeginDispatch
  <2> QED
    BY <1>1, <2>1, <2>2, AIReviewAssumption
<1>8. /\ workers' \in [Workers -> [pc : {"idle", "calling", "answered"}, n : 0..MaxAttempt,
                                   outcome : CallOutcomes \cup {"none"}]]
      /\ workers'[w] = workers[w] \/ (workers'[w].pc = "calling" /\ workers'[w].n = payload
                                      /\ run.no # 0)
      /\ \A v \in Workers : v # w => workers'[v] = workers[v]
  <2>1. payload \in 0..MaxAttempt
    BY DEF IInv, TypeOK
  <2>2. workers \in [Workers -> [pc : {"idle", "calling", "answered"}, n : 0..MaxAttempt,
                                 outcome : CallOutcomes \cup {"none"}]]
    BY DEF IInv, TypeOK
  <2> QED
    BY <1>2, <1>3, <2>1, <2>2
<1>5. TypeOK'
  BY <1>1, <1>4, <1>8 DEF IInv, TypeOK
<1>6. Bound'
  <2>1. payload = run.no
    BY DEF IInv, OneAttempt
  <2>2. queue'.waiting <= queue'.pushed + queue'.retried
    BY <1>1 DEF IInv, TypeOK, Bound
  <2> QED
    BY <1>1, <1>8, <2>1, <2>2 DEF IInv, Bound
<1>7. PendingIsOnItsWay'
  <2>1. CASE workers' = workers
    <3>1. operation = "pending" => accepted = {}
      BY DEF IInv
    <3>2. CASE ~DispatchRowsValid(payload)
      <4>1. operation = "pending" => ~credential
        BY <3>2 DEF IInv, OneAttempt, DispatchRowsValid
      <4> QED
        BY <1>1, <4>1 DEF PendingIsOnItsWay
    <3>3. CASE payload \in accepted
      BY <1>1, <3>1, <3>3 DEF PendingIsOnItsWay
    <3>4. CASE DispatchRowsValid(payload) /\ payload \notin accepted
      <4>1. workers'[w].pc = "calling"
        BY <3>4 DEF BeginDispatch, IInv, TypeOK
      <4> QED
        BY <4>1 DEF PendingIsOnItsWay
    <3> QED
      BY <3>2, <3>3, <3>4
  <2>2. CASE workers' = [workers EXCEPT ![w] = [pc |-> "calling", n |-> payload,
                                                outcome |-> "none"]]
    <3>1. workers'[w].pc = "calling"
      BY <2>2 DEF IInv, TypeOK
    <3> QED
      BY <3>1 DEF PendingIsOnItsWay
  <2> QED
    BY <1>2, <2>1, <2>2
<1> QED
  BY <1>1, <1>5, <1>6, <1>7
  DEF IInv, OneAttempt, Sequenced, OperationMirrorsRun, ResultHasReceipt

LEMMA CallProviderStep ==
    ASSUME IInv, NEW w \in Workers, NEW o \in CallOutcomes, NEW b \in BOOLEAN,
           CallProvider(w, o, b)
    PROVE  IInv'
<1> USE DEF database, component, environment
<1>1. /\ workers[w].pc = "calling" /\ workers'[w].pc = "answered"
      /\ workers'[w].n = workers[w].n /\ workers'[w].outcome = o
      /\ \A v \in Workers : v # w => workers'[v] = workers[v]
      /\ begun' \subseteq begun \cup {workers[w].n}
      /\ begun \subseteq begun'
      /\ UNCHANGED <<database, payload, outbox, queue, started, emitted, environment>>
  BY DEF CallProvider, IInv, TypeOK
<1>2. workers[w].n = run.no /\ run.no # 0 /\ run.no \in Attempts
  BY <1>1, AIReviewAssumption DEF IInv, OneAttempt, Bound, Attempts
<1>3. workers' \in [Workers -> [pc : {"idle", "calling", "answered"}, n : 0..MaxAttempt,
                                outcome : CallOutcomes \cup {"none"}]]
  BY DEF CallProvider, IInv, TypeOK
<1>4. TypeOK'
  BY <1>1, <1>2, <1>3 DEF IInv, TypeOK
<1>5. Bound'
  BY <1>1, <1>2 DEF IInv, Bound
<1>6. PendingIsOnItsWay'
  BY <1>1 DEF IInv, PendingIsOnItsWay
<1> QED
  BY <1>1, <1>4, <1>5, <1>6
  DEF IInv, OneAttempt, Sequenced, OperationMirrorsRun, ResultHasReceipt

\* Whatever is recorded, the three statuses are written together.
LEMMA RecordDispatchStep == ASSUME IInv, NEW w \in Workers, RecordDispatch(w) PROVE IInv'
<1> USE DEF component, environment
<1> DEFINE n == workers[w].n
<1>1. /\ workers[w].pc = "answered" /\ n = run.no /\ n = 1
      /\ workers[w].outcome \in CallOutcomes /\ n \in Attempts
  BY AIReviewAssumption DEF RecordDispatch, IInv, OneAttempt, Bound, Attempts
<1>2. /\ workers' = [workers EXCEPT ![w] = IdleWorker]
      /\ UNCHANGED <<payload, outbox, receipts, started, component, environment>>
  BY DEF RecordDispatch
<1>3. /\ workers' \in [Workers -> [pc : {"idle", "calling", "answered"}, n : 0..MaxAttempt,
                                   outcome : CallOutcomes \cup {"none"}]]
      /\ workers'[w].pc = "idle"
      /\ \A v \in Workers : v # w => workers'[v] = workers[v]
  BY <1>2, AIReviewAssumption DEF IInv, TypeOK, IdleWorker
<1>4. CASE DispatchRowsValid(n)
  <2>1. PICK st \in {"running", "retryable_failed", "action_required"} :
          /\ run' = [run EXCEPT !.status = st]
          /\ attempts' = [attempts EXCEPT ![n].status = st]
          /\ operation' = OperationState(st)
          /\ dispatches' = dispatches + 1
          /\ accepted' \subseteq accepted \cup {n}
    BY <1>1, <1>4 DEF RecordDispatch, CallOutcomes
  <2>2. \/ queue' = queue
        \/ /\ queue.retried + 1 <= MaxRetries
           /\ queue'.waiting = queue.waiting + 1 /\ queue'.pushed = queue.pushed
           /\ queue'.retried = queue.retried + 1 /\ queue'.lost = queue.lost
           /\ queue' \in [waiting : Nat, pushed : Nat, retried : Nat, lost : BOOLEAN]
    <3>1. queue \in [waiting : Nat, pushed : Nat, retried : Nat, lost : BOOLEAN]
      BY QueueFields
    <3>2. \/ queue' = queue
          \/ /\ queue.retried < MaxRetries
             /\ queue' = [queue EXCEPT !.waiting = @ + 1, !.retried = @ + 1]
      BY <1>4 DEF RecordDispatch
    <3>3. PICK q : q = [queue EXCEPT !.waiting = queue.waiting + 1]
      OBVIOUS
    <3>4. \/ queue' = queue
          \/ queue.retried < MaxRetries /\ queue' = [q EXCEPT !.retried = queue.retried + 1]
      BY <3>2, <3>3, Zenon
    <3>5. queue.retried \in 0..MaxRetries
      BY DEF IInv, TypeOK
    <3>6. q \in [waiting : Nat, pushed : Nat, retried : Nat, lost : BOOLEAN]
          /\ q.waiting = queue.waiting + 1 /\ q.pushed = queue.pushed
          /\ q.retried = queue.retried /\ q.lost = queue.lost
      BY <3>1, <3>3
    <3> QED
      BY <3>1, <3>4, <3>5, <3>6, AIReviewAssumption
  <2>3. run'.no = run.no /\ run'.status = st /\ run' \in [status : Statuses, no : 0..MaxAttempt]
    BY <2>1 DEF IInv, TypeOK, Statuses
  <2>4. /\ attempts' \in [Attempts -> [status : Statuses, seq : 0..MaxSeq]]
        /\ attempts'[n].status = st
        /\ \A k \in Attempts : attempts'[k].seq = attempts[k].seq
    BY <1>1, <2>1 DEF IInv, TypeOK, Statuses
  <2>5. operation' = (IF st = "running" THEN "processing" ELSE st)
    BY <2>1 DEF OperationState
  <2>6. TypeOK'
    <3>1. queue' \in [waiting : 0..(MaxPushes + MaxRetries), pushed : 0..MaxPushes,
                      retried : 0..MaxRetries, lost : BOOLEAN]
      BY <2>2, AIReviewAssumption DEF IInv, TypeOK, Bound
    <3> QED
      BY <1>1, <1>2, <1>3, <2>1, <2>3, <2>4, <2>5, <3>1 DEF IInv, TypeOK
  <2>7. OneAttempt'
    <3>1. run.no = 1 /\ run'.no = 1 /\ run'.status # "none" /\ operation' # "none"
      BY <1>1, <2>3, <2>5
    <3>2. payload = run.no /\ outbox # "none"
      BY <3>1 DEF IInv, OneAttempt
    <3> QED
      BY <1>2, <3>1, <3>2 DEF OneAttempt
  <2>8. Bound'
    <3>1. queue'.waiting <= queue'.pushed + queue'.retried
      BY <2>2 DEF IInv, TypeOK, Bound
    <3> QED
      BY <1>2, <1>3, <2>3, <3>1 DEF IInv, Bound
  <2>9. Sequenced'
    BY <1>1, <1>2, <2>3, <2>4 DEF IInv, TypeOK, Sequenced
  <2>10. (OperationMirrorsRun /\ ResultHasReceipt)'
    BY <2>3, <2>5 DEF OperationMirrorsRun, ResultHasReceipt
  <2>11. operation' # "pending"
    BY <2>5
  <2> QED
    BY <2>6, <2>7, <2>8, <2>9, <2>10, <2>11 DEF IInv, PendingIsOnItsWay
<1>5. CASE ~DispatchRowsValid(n)
  <2>1. UNCHANGED <<run, attempts, operation, dispatches, accepted, queue>>
    BY <1>5 DEF RecordDispatch
  <2>2. ~credential
    BY <1>1, <1>5 DEF DispatchRowsValid, IInv, OneAttempt
  <2>3. Bound'
    BY <1>1, <1>2, <1>3, <2>1 DEF IInv, Bound
  <2> QED
    BY <1>2, <1>3, <2>1, <2>2, <2>3
    DEF IInv, TypeOK, OneAttempt, Sequenced, OperationMirrorsRun, ResultHasReceipt,
        PendingIsOnItsWay
<1> QED
  BY <1>4, <1>5

LEMMA WorkerCrashStep == ASSUME IInv, NEW w \in Workers, WorkerCrash(w) PROVE IInv'
<1> USE DEF database, component, environment
<1>1. /\ workers' \in [Workers -> [pc : {"idle", "calling", "answered"}, n : 0..MaxAttempt,
                                   outcome : CallOutcomes \cup {"none"}]]
      /\ workers'[w].pc = "idle"
      /\ \A v \in Workers : v # w => workers'[v] = workers[v]
  BY AIReviewAssumption DEF WorkerCrash, IInv, TypeOK, IdleWorker
<1>2. queue'.lost /\ queue'.waiting = queue.waiting /\ queue'.pushed = queue.pushed
      /\ queue'.retried = queue.retried
      /\ UNCHANGED <<database, payload, outbox, started, component, environment>>
  BY DEF WorkerCrash, IInv, TypeOK
<1>3. TypeOK'
  BY <1>1, <1>2 DEF WorkerCrash, IInv, TypeOK
<1>4. Bound'
  BY <1>1, <1>2 DEF IInv, Bound
<1> QED
  BY <1>2, <1>3, <1>4
  DEF IInv, OneAttempt, Sequenced, OperationMirrorsRun, ResultHasReceipt, PendingIsOnItsWay

LEMMA EmitStep ==
    ASSUME IInv, NEW n \in Attempts, NEW st \in EventStatuses, Emit(n, st)
    PROVE  IInv'
<1> USE DEF database, component, environment
<1>1. /\ n \in begun /\ Len(emitted[n]) < MaxSeq
      /\ emitted' = [emitted EXCEPT ![n] = Append(@, st)]
      /\ UNCHANGED <<database, payload, outbox, queue, started, workers, begun, environment>>
  BY DEF Emit
<1>2. emitted' \in [Attempts -> Seq(EventStatuses)]
  BY <1>1 DEF IInv, TypeOK
<1>3. Len(emitted'[n]) = Len(emitted[n]) + 1
  BY <1>1 DEF IInv, TypeOK
<1>4. Bound'
  BY <1>1, <1>3, AIReviewAssumption DEF IInv, TypeOK, Bound
<1> QED
  BY <1>1, <1>2, <1>4
  DEF IInv, TypeOK, OneAttempt, Sequenced, OperationMirrorsRun, ResultHasReceipt,
      PendingIsOnItsWay

\* An event that is applied is newer than every event applied before, and the
\* attempt it belongs to has not ended.
LEMMA IngestOrder ==
    ASSUME IInv, NEW n \in Attempts, NEW s \in DOMAIN emitted[n], Ingest(n, s)
    PROVE  /\ n = run.no /\ s \in 1..MaxSeq /\ emitted[n][s] \in EventStatuses
           /\ attempts[n].status \notin AttemptTerminal
           /\ \A e \in receipts : e.n = n /\ e.seq < s
<1>1. emitted[n] # <<>> /\ n \in begun /\ n = run.no
  BY DEF IInv, Bound, TypeOK
<1>2. s \in 1..Len(emitted[n]) /\ emitted[n][s] \in EventStatuses /\ Len(emitted[n]) <= MaxSeq
  BY DEF IInv, TypeOK, Bound
<1>3. s \in 1..MaxSeq
  BY <1>2, AIReviewAssumption DEF IInv, TypeOK
<1>4. run.status \notin RunTerminal
  BY <1>1 DEF Ingest, RunTransitions, Progress
<1>5. attempts[n].status \notin AttemptTerminal
  BY <1>1, <1>4 DEF IInv, Sequenced, OneAttempt, Attempts
<1>6. \A e \in receipts : e.n = n /\ e.seq < s
  BY <1>1, <1>3 DEF Ingest, Advances, IInv, TypeOK, Sequenced
<1> QED
  BY <1>1, <1>2, <1>3, <1>5, <1>6

LEMMA IngestStep ==
    ASSUME IInv, NEW n \in Attempts, NEW s \in DOMAIN emitted[n], Ingest(n, s)
    PROVE  IInv'
<1> USE DEF component, environment
<1> DEFINE st == emitted[n][s]
           e == [n |-> n, seq |-> s, status |-> st]
<1>1. /\ n = run.no /\ s \in 1..MaxSeq /\ st \in EventStatuses
      /\ \A d \in receipts : d.n = n /\ d.seq < s
  BY IngestOrder
<1>2. PICK target \in {st, "stale"} :
        /\ run' = [run EXCEPT !.status = target]
        /\ target # st => target = "stale"
        /\ receipts' = receipts \cup {e}
        /\ attempts' = [attempts EXCEPT ![n] = [status |-> st, seq |-> s]]
        /\ operation' = OperationState(run'.status)
        /\ UNCHANGED <<payload, outbox, queue, dispatches, accepted, started, workers,
                       component, environment>>
  BY <1>1, IngestOrder DEF Ingest, AttemptAfter
<1>3. run'.no = n /\ run'.status = target /\ run' \in [status : Statuses, no : 0..MaxAttempt]
  BY <1>1, <1>2 DEF IInv, TypeOK, Statuses
<1>4. /\ attempts' \in [Attempts -> [status : Statuses, seq : 0..MaxSeq]]
      /\ attempts'[n].status = st /\ attempts'[n].seq = s
  BY <1>1, <1>2, AIReviewAssumption DEF IInv, TypeOK, Statuses
<1>5. operation' = (IF target = "running" THEN "processing" ELSE target)
  BY <1>2, <1>3 DEF OperationState
<1>6. e \in [n : Attempts, seq : 1..MaxSeq, status : EventStatuses]
  BY <1>1
<1>7. TypeOK'
  BY <1>1, <1>2, <1>3, <1>4, <1>5, <1>6 DEF IInv, TypeOK, Statuses
<1>8. run.no # 0 /\ operation' # "none" /\ operation' # "pending"
  BY <1>1, <1>5 DEF Attempts
<1>9. OneAttempt'
  BY <1>1, <1>2, <1>3, <1>8 DEF IInv, OneAttempt
<1>10. Bound'
  BY <1>1, <1>2, <1>3 DEF IInv, Bound
<1>11. Sequenced'
  <2>1. \A d \in receipts' : d.n = n /\ d.seq <= s
    BY <1>1, <1>2, AIReviewAssumption DEF IInv, TypeOK
  <2>2. target \in RunTerminal \/ st \notin AttemptTerminal
    BY <1>2
  <2> QED
    BY <1>3, <1>4, <2>1, <2>2 DEF Sequenced
<1>12. OperationMirrorsRun'
  BY <1>1, <1>3, <1>5 DEF OperationMirrorsRun
<1>13. ResultHasReceipt'
  BY <1>2, <1>3, <1>4 DEF ResultHasReceipt
<1> QED
  BY <1>2, <1>7, <1>8, <1>9, <1>10, <1>11, <1>12, <1>13 DEF IInv, PendingIsOnItsWay

LEMMA EnvironmentStep == ASSUME IInv, Supersede \/ RevokeCredential PROVE IInv'
<1> USE DEF database, component, environment
<1>1. /\ UNCHANGED <<database, payload, outbox, queue, started, workers, component>>
      /\ inputsCurrent' \in BOOLEAN /\ credential' \in BOOLEAN
      /\ ~credential => ~credential'
  <2>1. inputsCurrent \in BOOLEAN /\ credential \in BOOLEAN
    BY DEF IInv, TypeOK
  <2>2. CASE Supersede
    BY <2>1, <2>2 DEF Supersede
  <2>3. CASE RevokeCredential
    BY <2>1, <2>3 DEF RevokeCredential
  <2> QED
    BY <2>2, <2>3
<1>2. TypeOK'
  BY <1>1 DEF IInv, TypeOK
<1>3. Bound'
  BY <1>1 DEF IInv, Bound
<1>4. PendingIsOnItsWay'
  BY <1>1 DEF IInv, PendingIsOnItsWay
<1> QED
  BY <1>1, <1>2, <1>3, <1>4
  DEF IInv, OneAttempt, Sequenced, OperationMirrorsRun, ResultHasReceipt

LEMMA StutterStep == ASSUME IInv, UNCHANGED vars PROVE IInv'
  BY DEF vars, IInv, TypeOK, OneAttempt, Bound, Sequenced, OperationMirrorsRun,
         ResultHasReceipt, PendingIsOnItsWay, database, component, environment

LEMMA NextIInv == IInv /\ [Next]_vars => IInv'
<1> SUFFICES ASSUME IInv, [Next]_vars PROVE IInv'
  OBVIOUS
<1>1. CASE StartAttempt
  BY <1>1, StartAttemptStep
<1>2. CASE StartReplay \/ PushSignal \/ LoseRedis
  BY <1>2, QueueStep
<1>3. CASE \E w \in Workers : BeginDispatch(w)
  BY <1>3, BeginDispatchStep
<1>4. CASE \E w \in Workers, o \in CallOutcomes, b \in BOOLEAN : CallProvider(w, o, b)
  BY <1>4, CallProviderStep
<1>5. CASE \E w \in Workers : RecordDispatch(w)
  BY <1>5, RecordDispatchStep
<1>6. CASE \E w \in Workers : WorkerCrash(w)
  BY <1>6, WorkerCrashStep
<1>7. CASE \E n \in Attempts, st \in EventStatuses : Emit(n, st)
  BY <1>7, EmitStep
<1>8. CASE \E n \in Attempts : \E s \in DOMAIN emitted[n] : Ingest(n, s)
  BY <1>8, IngestStep
<1>9. CASE Supersede \/ RevokeCredential
  BY <1>9, EnvironmentStep
<1>10. CASE UNCHANGED vars
  BY <1>10, StutterStep
<1> QED
  BY <1>1, <1>2, <1>3, <1>4, <1>5, <1>6, <1>7, <1>8, <1>9, <1>10 DEF Next

\* The inductive invariant holds in every reachable state.
THEOREM Invariance == Spec => []IInv
<1>1. Init => IInv
  BY InitIInv
<1>2. IInv /\ [Next]_vars => IInv'
  BY NextIInv
<1> QED
  BY <1>1, <1>2, PTL DEF Spec, SafeSpec

\* Every variable of the start, dispatch and ingestion of a run stays in its set.
THEOREM TypeCorrect == Spec => []TypeOK
<1>1. IInv => TypeOK
  BY DEF IInv
<1> QED
  BY <1>1, Invariance, PTL

\* The Operation shown to users and the run agree, whatever dispatch workers and
\* event ingestion write in which order.
THEOREM MirrorsRun == Spec => []OperationMirrorsRun
<1>1. IInv => OperationMirrorsRun
  BY DEF IInv
<1> QED
  BY <1>1, Invariance, PTL

\* A result is shown only if the component reported it last, for the run's inputs.
THEOREM ResultReceived == Spec => []ResultHasReceipt
<1>1. IInv => ResultHasReceipt
  BY DEF IInv
<1> QED
  BY <1>1, Invariance, PTL

\* A pending Operation is on its way unless its signal was lost.
THEOREM PendingNotForgotten == Spec => []PendingIsOnItsWay
<1>1. IInv => PendingIsOnItsWay
  BY DEF IInv
<1> QED
  BY <1>1, Invariance, PTL

\* No delayed event is applied on top of a later one.
THEOREM EventsInOrder == Spec => EventsTakeEffectInOrder
<1> DEFINE InOrder == \A e \in receipts' \ receipts : \A d \in receipts : d.n = e.n => d.seq < e.seq
<1>1. IInv /\ [Next]_vars => [InOrder]_vars
  <2> SUFFICES ASSUME IInv, Next, NEW e \in receipts', e \notin receipts,
                      NEW d \in receipts, d.n = e.n
               PROVE  d.seq < e.seq
    OBVIOUS
  <2>1. CASE \E n \in Attempts : \E s \in DOMAIN emitted[n] : Ingest(n, s)
    <3>1. PICK n \in Attempts : \E s \in DOMAIN emitted[n] : Ingest(n, s)
      BY <2>1
    <3>2. PICK s \in DOMAIN emitted[n] : Ingest(n, s)
      BY <3>1
    <3>3. e.seq = s
      BY <3>2 DEF Ingest
    <3> QED
      BY <3>2, <3>3, IngestOrder
  <2>2. CASE ~\E n \in Attempts : \E s \in DOMAIN emitted[n] : Ingest(n, s)
    <3>1. receipts' = receipts
      BY <2>2
      DEF Next, StartAttempt, StartReplay, PushSignal, LoseRedis, BeginDispatch, CallProvider,
          RecordDispatch, WorkerCrash, Emit, Supersede, RevokeCredential, database
    <3> QED
      BY <3>1
  <2> QED
    BY <2>1, <2>2
<1> QED
  BY <1>1, Invariance, PTL DEF Spec, SafeSpec, EventsTakeEffectInOrder
=============================================================================
