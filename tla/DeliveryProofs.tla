--------------------------- MODULE DeliveryProofs ---------------------------
(***************************************************************************)
(* Proofs about Delivery for any set of publications and of workers, any   *)
(* attempt budget in 1..10, any bounds and any set of faults.              *)
(***************************************************************************)
EXTENDS Delivery, TLAPS

USE DEF DELIVER, RECONCILE, environment

\* A task that may still change its delivery's row: it has claimed it, or it
\* would pass the unique constraint on attempt numbers.
Eligible(w) == Calling(w) \/ (workers[w].pc = "reading" /\ NumberFree(w))

\* What the row of a delivery satisfies at every commit.
RowOK(d) ==
    /\ \A n \in AttemptNumbers :
         attempts[d][n] = "processing" <=> (n = count[d] /\ state[d] = "processing")
    /\ state[d] \in {"unknown_outcome", "reconciling"} => count[d] > 0
    /\ state[d] = "action_required" => count[d] > 0
    /\ state[d] = "succeeded" => applied[d] # {}
    /\ \/ operation[d] = state[d]
       \/ operation[d] = "unknown_outcome" /\ state[d] = "reconciling"

\* What a task knows of the row: what an eligible reader read still holds, and
\* the row of a task that claimed it shows that claim.
TaskOK(w) ==
    LET t == workers[w]
        d == workers[w].delivery
    IN
    /\ t.pc # "idle" => d \in Deliveries
    /\ t.pc = "reading" => t.number <= numbered[d] + 1
    /\ t.pc = "reading" /\ NumberFree(w) =>
         state[d] \in IF t.event = DELIVER THEN Claimable ELSE {"unknown_outcome", "reconciling"}
    /\ Calling(w) =>
         /\ t.attempt = count[d]
         /\ t.attempt \in AttemptNumbers
         /\ state[d] = IF t.event = DELIVER THEN "processing" ELSE "reconciling"
    /\ t.pc = "answered" /\ t.answer = "succeeded" => applied[d] # {}

\* Once a task claimed a delivery, every other task on it is obsolete.
Exclusive ==
    \A v, w \in Workers :
        Calling(v) /\ Eligible(w) /\ workers[v].delivery = workers[w].delivery => v = w

IInv ==
    /\ TypeOK
    /\ \A d \in Deliveries : RowOK(d)
    /\ \A w \in Workers : TaskOK(w)
    /\ Exclusive

\* The part of the state that rows and tasks are related by.
core == <<state, count, attempts, operation, numbered, workers, applied>>

-----------------------------------------------------------------------------
LEMMA InitIInv == Init => IInv
<1> SUFFICES ASSUME Init PROVE IInv
  OBVIOUS
<1>1. Idle \in Task /\ Idle.pc = "idle"
  BY DEF Idle, Task, Events, Answers, Outcomes
<1>2. TypeOK
  BY <1>1, DeliveryAssumption DEF Init, TypeOK, States, Events
<1>3. \A w \in Workers : workers[w].pc = "idle"
  BY <1>1 DEF Init
<1>4. \A w \in Workers : TaskOK(w) /\ ~Calling(w)
  BY <1>3 DEF TaskOK, Calling
<1>5. \A d \in Deliveries : RowOK(d)
  BY DEF Init, RowOK
<1> QED
  BY <1>2, <1>4, <1>5 DEF IInv, Exclusive

\* A step that leaves the core alone keeps what is said of it.
LEMMA CoreKept ==
    ASSUME IInv, UNCHANGED core, TypeOK'
    PROVE  IInv'
BY DEF IInv, core, RowOK, TaskOK, Exclusive, Eligible, Calling, NumberFree

\* A task becomes idle and nothing else of the core changes.
LEMMA RestKept ==
    ASSUME IInv, NEW w \in Workers, Rest(w), TypeOK',
           UNCHANGED <<state, count, attempts, operation, numbered, applied>>
    PROVE  IInv'
<1>1. /\ workers'[w].pc = "idle"
      /\ \A v \in Workers : v # w => workers'[v] = workers[v]
  BY DEF Rest, IInv, TypeOK, Idle
<1>2. \A d \in Deliveries : RowOK(d)'
  BY DEF IInv, RowOK
<1>3. ASSUME NEW v \in Workers PROVE TaskOK(v)'
  BY <1>1 DEF IInv, TaskOK, Calling, NumberFree
<1>4. Exclusive'
  BY <1>1 DEF IInv, Exclusive, Eligible, Calling, NumberFree
<1> QED
  BY <1>2, <1>3, <1>4 DEF IInv

-----------------------------------------------------------------------------
\* Counting a message in keeps the queue well typed.
LEMMA SignalType ==
    ASSUME signals \in [Deliveries \X Events -> Nat], NEW d \in Deliveries,
           NEW event \in Events \cup {"none"}, Signal(d, event)
    PROVE  signals' \in [Deliveries \X Events -> Nat]
BY DEF Signal

\* What the two follow-up tables yield.
LEMMA FollowupType ==
    /\ \A st \in States : Followup(st) \in Events \cup {"none"}
    /\ \A answer \in Answers : ReconciledFollowup(answer) \in Events \cup {"none"}
    /\ \A d \in Deliveries : ManualEvent(d) \in Events
<1>1. ASSUME NEW st \in States PROVE Followup(st) \in Events \cup {"none"}
  BY DEF Followup, Events, States
<1>2. ASSUME NEW answer \in Answers PROVE ReconciledFollowup(answer) \in Events \cup {"none"}
  BY DEF ReconciledFollowup, Events, Answers
<1>3. ASSUME NEW d \in Deliveries PROVE ManualEvent(d) \in Events
  BY DEF ManualEvent, Events
<1> QED
  BY <1>1, <1>2, <1>3

\* A recorded answer is an outcome, "succeeded" only if the provider said so.
LEMMA OutcomeType ==
    ASSUME NEW d \in Deliveries, NEW answer \in Answers
    PROVE  /\ Outcome(d, answer) \in Outcomes
           /\ Outcome(d, answer) = "succeeded" => answer = "succeeded"
           /\ ReconciledState(answer) \in Outcomes
           /\ ReconciledState(answer) = "succeeded" => answer = "succeeded"
BY DEF Outcome, ReconciledState, Outcomes, Answers, Terminal

-----------------------------------------------------------------------------
LEMMA ScheduleStep ==
    ASSUME IInv, NEW d \in Deliveries, Schedule(d)
    PROVE  IInv'
<1>1. /\ state[d] = "absent"
      /\ state' = [state EXCEPT ![d] = "pending"]
      /\ operation' = [operation EXCEPT ![d] = "pending"]
      /\ UNCHANGED <<count, attempts, observed, numbered, duplicates, asked, retried, workers,
                     applied, environment>>
  BY DEF Schedule, providerVars
<1>2. signals' \in [Deliveries \X Events -> Nat]
  BY SignalType DEF Schedule, IInv, TypeOK, Events
<1>3. TypeOK'
  BY <1>1, <1>2 DEF IInv, TypeOK, States, Claimable
<1>4. ASSUME NEW e \in Deliveries PROVE RowOK(e)'
  BY <1>1 DEF IInv, TypeOK, RowOK
<1>5. ASSUME NEW w \in Workers PROVE TaskOK(w)'
  <2>1. CASE workers[w].delivery = d
    BY <2>1, <1>1 DEF IInv, TypeOK, TaskOK, Calling, NumberFree, Claimable
  <2>2. CASE workers[w].delivery # d
    BY <2>2, <1>1 DEF IInv, TypeOK, TaskOK, Calling, NumberFree
  <2> QED
    BY <2>1, <2>2
<1>6. Exclusive'
  BY <1>1 DEF IInv, Exclusive, Eligible, Calling, NumberFree
<1> QED
  BY <1>3, <1>4, <1>5, <1>6 DEF IInv

LEMMA DuplicateStep ==
    ASSUME IInv, NEW d \in Deliveries, NEW e \in Events, Duplicate(d, e)
    PROVE  IInv'
<1>1. signals' \in [Deliveries \X Events -> Nat]
  BY SignalType DEF Duplicate, IInv, TypeOK
<1>2. TypeOK'
  BY <1>1 DEF Duplicate, rowVars, providerVars, IInv, TypeOK
<1>3. UNCHANGED core
  BY DEF Duplicate, core, rowVars, providerVars
<1> QED
  BY <1>2, <1>3, CoreKept

LEMMA ReadStep ==
    ASSUME IInv, NEW w \in Workers, NEW d \in Deliveries, NEW e \in Events, Read(w, d, e)
    PROVE  IInv'
<1>1. /\ workers[w].pc = "idle"
      /\ signals' = [signals EXCEPT ![<<d, e>>] = @ - 1]
      /\ UNCHANGED <<state, count, attempts, observed, operation, numbered, duplicates, asked,
                     retried, applied, environment>>
  BY DEF Read, rowVars, providerVars
<1>2. signals' \in [Deliveries \X Events -> Nat]
  <2>1. signals[<<d, e>>] \in Nat /\ signals[<<d, e>>] > 0
    BY DEF Read, IInv, TypeOK
  <2> QED
    BY <2>1, <1>1 DEF IInv, TypeOK
<1>3. CASE UNCHANGED workers
  BY <1>1, <1>2, <1>3, CoreKept DEF IInv, TypeOK, core
<1>4. CASE state[d] \in Expected(e) /\ credential
  <2> DEFINE task == [pc |-> "reading", event |-> e, delivery |-> d, number |-> numbered[d] + 1,
                      attempt |-> 0, answer |-> "retryable_failed"]
  <2>1. workers' = [workers EXCEPT ![w] = task]
    BY <1>4 DEF Read, Idle
  <2>2. task \in Task
    BY DEF Task, Answers, Outcomes, IInv, TypeOK
  <2>3. /\ task.pc = "reading" /\ task.event = e /\ task.delivery = d
        /\ task.number = numbered[d] + 1
    OBVIOUS
  <2> HIDE DEF task
  <2>4. /\ workers'[w] = task
        /\ \A v \in Workers : v # w => workers'[v] = workers[v]
    BY <2>1 DEF IInv, TypeOK
  <2>5. TypeOK'
    BY <1>1, <1>2, <2>1, <2>2 DEF IInv, TypeOK
  <2>6. ASSUME NEW b \in Deliveries PROVE RowOK(b)'
    BY <1>1 DEF IInv, RowOK
  <2>7. ASSUME NEW v \in Workers PROVE TaskOK(v)'
    <3>1. CASE v = w
      BY <3>1, <1>1, <1>4, <2>3, <2>4 DEF Expected, TaskOK, Calling, NumberFree, IInv, TypeOK
    <3>2. CASE v # w
      BY <3>2, <1>1, <2>4 DEF IInv, TaskOK, Calling, NumberFree
    <3> QED
      BY <3>1, <3>2
  <2>8. ASSUME NEW v \in Workers, Calling(v)', workers'[v].delivery = d PROVE FALSE
    <3>1. v # w /\ Calling(v) /\ workers[v].delivery = d
      BY <2>3, <2>4, <2>8 DEF Calling
    <3>2. state[d] \in {"processing", "reconciling"}
      BY <3>1 DEF IInv, TaskOK
    <3> QED
      BY <3>2, <1>4 DEF Expected, Claimable
  <2>9. Exclusive'
    <3> SUFFICES ASSUME NEW v \in Workers, NEW x \in Workers, Calling(v)', Eligible(x)',
                        workers'[v].delivery = workers'[x].delivery
                 PROVE  v = x
      BY DEF Exclusive
    <3>1. v # w
      BY <2>3, <2>4 DEF Calling
    <3>2. x # w
      BY <2>3, <2>4, <2>8
    <3> QED
      BY <3>1, <3>2, <1>1, <2>4 DEF IInv, Exclusive, Eligible, Calling, NumberFree
  <2> QED
    BY <2>5, <2>6, <2>7, <2>9 DEF IInv
<1> QED
  BY <1>3, <1>4 DEF Read

-----------------------------------------------------------------------------
\* An eligible reader claims attempt n of its delivery, which is then in state st.
Claims(w, d, n, st) ==
    /\ workers[w].pc = "reading" /\ NumberFree(w) /\ workers[w].delivery = d
    /\ st = IF workers[w].event = DELIVER THEN "processing" ELSE "reconciling"
    /\ Begin(w, n)
    /\ state' = [state EXCEPT ![d] = st]
    /\ operation' = [operation EXCEPT ![d] = st]
    /\ numbered' = [numbered EXCEPT ![d] = workers[w].number]
    /\ count'[d] = n
    /\ \A k \in AttemptNumbers :
         attempts'[d][k] = "processing" <=> (k = n /\ st = "processing")
    /\ \A b \in Deliveries : b # d => count'[b] = count[b] /\ attempts'[b] = attempts[b]
    /\ UNCHANGED applied

\* After a claim all other tasks on the delivery are obsolete.
LEMMA BeginKept ==
    ASSUME IInv, TypeOK', NEW w \in Workers, NEW d \in Deliveries, NEW n \in AttemptNumbers,
           NEW st, Claims(w, d, n, st)
    PROVE  IInv'
<1> USE DEF Claims
<1>1. numbered[d] \in Nat /\ workers[w].number = numbered[d] + 1
  <2>1. numbered[d] \in Nat /\ workers[w].number \in Nat
    BY DEF IInv, TypeOK, Task
  <2> QED
    BY <2>1 DEF IInv, TaskOK, NumberFree
<1>2. /\ workers'[w].pc = "calling" /\ workers'[w].event = workers[w].event
      /\ workers'[w].delivery = d /\ workers'[w].attempt = n
      /\ \A v \in Workers : v # w => workers'[v] = workers[v]
  BY DEF Begin, IInv, TypeOK
<1>3. state'[d] = st /\ operation'[d] = st /\ numbered'[d] = numbered[d] + 1
  BY <1>1 DEF IInv, TypeOK
<1>4. \A b \in Deliveries : b # d => /\ state'[b] = state[b]
                                     /\ operation'[b] = operation[b]
                                     /\ numbered'[b] = numbered[b]
  BY DEF IInv, TypeOK
<1>5. \A v \in Workers : v # w /\ workers[v].delivery = d => ~Calling(v)
  BY DEF IInv, Exclusive, Eligible
<1>6. ASSUME NEW v \in Workers, v # w, workers[v].delivery = d PROVE ~Eligible(v)'
  <2>1. CASE workers[v].pc # "reading"
    BY <1>2, <1>5, <1>6, <2>1 DEF Eligible, Calling
  <2>2. CASE workers[v].pc = "reading"
    <3>1. workers[v].number \in Nat /\ workers[v].number <= numbered[d] + 1
      BY <1>6, <2>2 DEF IInv, TypeOK, TaskOK, Task
    <3> QED
      BY <1>1, <1>2, <1>3, <1>6, <2>2, <3>1 DEF Eligible, Calling, NumberFree
  <2> QED
    BY <2>1, <2>2
<1>7. ASSUME NEW b \in Deliveries PROVE RowOK(b)'
  <2>1. CASE b = d
    BY <2>1, <1>3, DeliveryAssumption DEF RowOK, AttemptNumbers
  <2>2. CASE b # d
    BY <2>2, <1>4 DEF IInv, RowOK
  <2> QED
    BY <2>1, <2>2
<1>8. ASSUME NEW v \in Workers PROVE TaskOK(v)'
  <2>1. CASE v = w
    BY <2>1, <1>2, <1>3 DEF TaskOK, Calling
  <2>2. CASE v # w /\ workers[v].delivery = d
    <3>1. workers[v].pc = "reading" => workers[v].number \in Nat
                                       /\ workers[v].number <= numbered[d] + 1
      BY <2>2 DEF IInv, TypeOK, TaskOK, Task
    <3>2. ~Eligible(v)' /\ workers'[v] = workers[v]
      BY <2>2, <1>2, <1>6
    <3> QED
      BY <2>2, <1>1, <1>3, <3>1, <3>2 DEF TaskOK, Eligible, Calling
  <2>3. CASE v # w /\ workers[v].delivery # d
    BY <2>3, <1>2, <1>4 DEF IInv, TaskOK, Calling, NumberFree
  <2> QED
    BY <2>1, <2>2, <2>3
<1>9. Exclusive'
  <2> SUFFICES ASSUME NEW v \in Workers, NEW x \in Workers, Calling(v)', Eligible(x)',
                      workers'[v].delivery = workers'[x].delivery
               PROVE  v = x
    BY DEF Exclusive
  <2>1. CASE workers'[v].delivery = d
    BY <2>1, <1>2, <1>6 DEF Eligible
  <2>2. CASE workers'[v].delivery # d
    <3>1. v # w /\ x # w /\ workers'[v] = workers[v] /\ workers'[x] = workers[x]
      BY <2>2, <1>2
    <3>2. Calling(v) /\ Eligible(x)
      BY <2>2, <3>1, <1>4 DEF Eligible, Calling, NumberFree, IInv, TaskOK
    <3> QED
      BY <3>1, <3>2 DEF IInv, Exclusive
  <2> QED
    BY <2>1, <2>2
<1> QED
  BY <1>7, <1>8, <1>9 DEF IInv

\* The task that claimed a delivery records what came of it.
LEMMA SettleKept ==
    ASSUME IInv, TypeOK',
           NEW w \in Workers, Calling(w), Rest(w),
           NEW d \in Deliveries, d = workers[w].delivery,
           NEW st \in Outcomes, st = "succeeded" => applied[d] # {},
           state' = [state EXCEPT ![d] = st],
           operation' = [operation EXCEPT ![d] = st],
           \A k \in AttemptNumbers : attempts'[d][k] # "processing",
           \A b \in Deliveries : b # d => attempts'[b] = attempts[b],
           UNCHANGED <<count, numbered, applied>>
    PROVE  IInv'
<1>1. /\ workers'[w].pc = "idle"
      /\ \A v \in Workers : v # w => workers'[v] = workers[v]
  BY DEF Rest, Idle, IInv, TypeOK
<1>2. state'[d] = st /\ operation'[d] = st
  BY DEF IInv, TypeOK
<1>3. \A b \in Deliveries : b # d => state'[b] = state[b] /\ operation'[b] = operation[b]
  BY DEF IInv, TypeOK
<1>4. \A v \in Workers : v # w /\ workers[v].delivery = d => ~Eligible(v)
  BY DEF IInv, Exclusive
<1>5. count[d] > 0 /\ st # "processing" /\ st # "reconciling"
  BY DeliveryAssumption DEF IInv, TaskOK, AttemptNumbers, Outcomes, Terminal
<1>6. ASSUME NEW b \in Deliveries PROVE RowOK(b)'
  BY <1>2, <1>3, <1>5 DEF IInv, RowOK
<1>7. ASSUME NEW v \in Workers PROVE TaskOK(v)'
  <2>1. CASE v = w
    BY <2>1, <1>1 DEF TaskOK, Calling
  <2>2. CASE v # w /\ workers[v].delivery = d
    BY <2>2, <1>1, <1>4 DEF IInv, TaskOK, Eligible, Calling, NumberFree
  <2>3. CASE v # w /\ workers[v].delivery # d
    BY <2>3, <1>1, <1>3 DEF IInv, TaskOK, Calling, NumberFree
  <2> QED
    BY <2>1, <2>2, <2>3
<1>8. Exclusive'
  BY <1>1 DEF IInv, Exclusive, Eligible, Calling, NumberFree
<1> QED
  BY <1>6, <1>7, <1>8 DEF IInv

\* The provider answers the task that claimed the delivery.
LEMMA AnsweredKept ==
    ASSUME IInv, TypeOK',
           NEW w \in Workers, workers[w].pc = "calling",
           NEW answer, Answered(w, answer),
           answer = "succeeded" => applied'[workers[w].delivery] # {},
           \A b \in Deliveries : applied[b] \subseteq applied'[b],
           UNCHANGED <<state, count, attempts, operation, numbered>>
    PROVE  IInv'
<1>1. /\ workers'[w].pc = "answered" /\ workers'[w].event = workers[w].event
      /\ workers'[w].delivery = workers[w].delivery
      /\ workers'[w].attempt = workers[w].attempt /\ workers'[w].answer = answer
      /\ \A v \in Workers : v # w => workers'[v] = workers[v]
  BY DEF Answered, IInv, TypeOK
<1>2. ASSUME NEW b \in Deliveries PROVE RowOK(b)'
  BY DEF IInv, RowOK
<1>3. ASSUME NEW v \in Workers PROVE TaskOK(v)'
  BY <1>1 DEF IInv, TaskOK, Calling, NumberFree
<1>4. Exclusive'
  BY <1>1 DEF IInv, Exclusive, Eligible, Calling, NumberFree
<1> QED
  BY <1>2, <1>3, <1>4 DEF IInv

LEMMA ClaimStep ==
    ASSUME IInv, NEW w \in Workers, Claim(w)
    PROVE  IInv'
<1> DEFINE d == workers[w].delivery
<1>1. workers[w].pc = "reading" /\ workers[w].event = DELIVER /\ d \in Deliveries
  BY DEF Claim, IInv, TaskOK
<1>2. CASE ~(count[d] < MaxAttempts /\ NumberFree(w))
  <2>1. /\ Rest(w)
        /\ UNCHANGED <<state, count, attempts, observed, operation, numbered, signals,
                       duplicates, asked, retried, applied, environment>>
    BY <1>2 DEF Claim, providerVars
  <2>2. TypeOK'
    BY <2>1 DEF Rest, Idle, IInv, TypeOK, Task, Events, Answers, Outcomes
  <2> QED
    BY <2>1, <2>2, RestKept
<1>3. CASE count[d] < MaxAttempts /\ NumberFree(w)
  <2> DEFINE t == workers[w]
             n == count[d] + 1
             row == [attempts[d] EXCEPT ![n] = "processing"]
             task == [pc |-> "calling", event |-> DELIVER, delivery |-> d,
                      number |-> t.number, attempt |-> n, answer |-> t.answer]
  <2>1. /\ t \in Task /\ count[d] \in 0..MaxAttempts /\ n \in AttemptNumbers
        /\ numbered[d] \in Nat /\ t.number \in Nat
    <3>1. t \in Task /\ count[d] \in 0..MaxAttempts /\ numbered[d] \in Nat
      BY <1>1 DEF IInv, TypeOK
    <3>2. t.number \in Nat
      BY <3>1 DEF Task
    <3>3. n \in AttemptNumbers
      BY <3>1, <1>3, DeliveryAssumption DEF AttemptNumbers
    <3> QED
      BY <3>1, <3>2, <3>3
  <2>2. t.number = numbered[d] + 1 /\ state[d] \in Claimable
    BY <1>1, <1>3, <2>1 DEF IInv, TaskOK, NumberFree
  <2>3. /\ state' = [state EXCEPT ![d] = "processing"]
        /\ count' = [count EXCEPT ![d] = n]
        /\ attempts' = [attempts EXCEPT ![d] = row]
        /\ operation' = [operation EXCEPT ![d] = "processing"]
        /\ numbered' = [numbered EXCEPT ![d] = t.number]
        /\ asked' = asked \ {d}
        /\ UNCHANGED <<observed, signals, duplicates, retried, applied, environment>>
    BY <1>3 DEF Claim, providerVars
  <2>4. workers' = [workers EXCEPT ![w] = task]
    BY <1>1, <1>3 DEF Claim, Begin
  <2>5. /\ task \in Task
        /\ row \in [AttemptNumbers -> {"none", "processing"} \cup Outcomes]
    BY <1>1, <2>1 DEF Task, Events, AttemptNumbers, IInv, TypeOK
  <2>6. \A k \in AttemptNumbers : row[k] = IF k = n THEN "processing" ELSE attempts[d][k]
    <3>1. attempts[d] \in [AttemptNumbers -> {"none", "processing"} \cup Outcomes]
      BY <1>1 DEF IInv, TypeOK
    <3> QED
      BY <3>1
  <2> HIDE DEF task, row, n
  <2>7. TypeOK'
    <3>1. n \in 0..MaxAttempts /\ "processing" \in States
      BY <2>1, DeliveryAssumption DEF AttemptNumbers, States
    <3> QED
      BY <1>1, <2>1, <2>3, <2>4, <2>5, <3>1 DEF IInv, TypeOK
  <2>8. Begin(w, n)
    BY <1>3 DEF Claim, n
  <2>9. \A k \in AttemptNumbers : attempts[d][k] # "processing"
    BY <1>1, <2>2 DEF IInv, RowOK, Claimable
  <2>10. count'[d] = n /\ attempts'[d] = row
    BY <1>1, <2>3 DEF IInv, TypeOK
  <2>11. \A b \in Deliveries : b # d => count'[b] = count[b] /\ attempts'[b] = attempts[b]
    BY <2>3 DEF IInv, TypeOK
  <2>12. \A k \in AttemptNumbers : attempts'[d][k] = "processing" <=> k = n
    BY <2>6, <2>9, <2>10
  <2>13. Claims(w, d, n, "processing")
    BY <1>1, <1>3, <2>3, <2>8, <2>10, <2>11, <2>12 DEF Claims
  <2> HIDE DEF d
  <2> QED
    BY <1>1, <2>1, <2>7, <2>13, BeginKept
<1> QED
  BY <1>2, <1>3

\* What is left after a reply: a task with an answer, or an idle one.
LEMMA RepliedType ==
    ASSUME IInv, NEW w \in Workers, NEW reply \in Replies, Replied(w, reply)
    PROVE  /\ workers' \in [Workers -> Task]
           /\ abandoned' \subseteq Deliveries \cup {0}
<1>1. CASE reply = "foreign_result"
  <2>1. Rest(w) /\ abandoned' = abandoned \cup {workers[w].delivery}
    BY <1>1 DEF Replied
  <2>2. workers[w].delivery \in Deliveries \cup {0}
    BY DEF IInv, TypeOK, Task
  <2> QED
    BY <2>1, <2>2 DEF Rest, Idle, IInv, TypeOK, Task, Events, Answers, Outcomes
<1>2. CASE reply # "foreign_result"
  <2>1. Answered(w, reply) /\ UNCHANGED abandoned /\ reply \in Answers
    BY <1>2 DEF Replied, Replies
  <2> QED
    BY <2>1 DEF Answered, IInv, TypeOK, Task
<1> QED
  BY <1>1, <1>2

\* A task that ends without recording its call leaves what is said of the rows,
\* whatever its call did at the provider.
LEMMA GoneKept ==
    ASSUME IInv, TypeOK', NEW w \in Workers, Rest(w),
           \A b \in Deliveries : applied[b] \subseteq applied'[b],
           UNCHANGED <<state, count, attempts, operation, numbered>>
    PROVE  IInv'
<1>1. /\ workers'[w].pc = "idle"
      /\ \A v \in Workers : v # w => workers'[v] = workers[v]
  BY DEF Rest, IInv, TypeOK, Idle
<1>2. \A d \in Deliveries : RowOK(d)'
  BY DEF IInv, RowOK
<1>3. ASSUME NEW v \in Workers PROVE TaskOK(v)'
  BY <1>1 DEF IInv, TaskOK, Calling, NumberFree
<1>4. Exclusive'
  BY <1>1 DEF IInv, Exclusive, Eligible, Calling, NumberFree
<1> QED
  BY <1>2, <1>3, <1>4 DEF IInv

\* The provider replies to the task that claimed the delivery.
LEMMA RepliedKept ==
    ASSUME IInv, TypeOK',
           NEW w \in Workers, workers[w].pc = "calling",
           NEW reply \in Replies, Replied(w, reply),
           reply = "succeeded" => applied'[workers[w].delivery] # {},
           \A b \in Deliveries : applied[b] \subseteq applied'[b],
           UNCHANGED <<state, count, attempts, operation, numbered>>
    PROVE  IInv'
<1>1. CASE reply = "foreign_result"
  BY <1>1, GoneKept DEF Replied
<1>2. CASE reply # "foreign_result"
  BY <1>2, AnsweredKept DEF Replied
<1> QED
  BY <1>1, <1>2

LEMMA DeliverStep ==
    ASSUME IInv, NEW w \in Workers, NEW reply \in Replies, NEW effect \in BOOLEAN,
           Deliver(w, reply, effect)
    PROVE  IInv'
<1> DEFINE d == workers[w].delivery
           n == workers[w].attempt
<1>1. /\ workers[w].pc = "calling" /\ workers[w].event = DELIVER
      /\ Replied(w, reply)
      /\ applied' = IF effect THEN [applied EXCEPT ![d] = @ \cup {n}] ELSE applied
      /\ UNCHANGED <<state, count, attempts, observed, operation, numbered, signals,
                     duplicates, asked, retried, credential>>
      /\ reply = "succeeded" => effect
  BY DEF Deliver, rowVars
<1>2. d \in Deliveries /\ n \in AttemptNumbers
  BY <1>1 DEF IInv, TaskOK, Calling
<1>3. workers' \in [Workers -> Task] /\ abandoned' \subseteq Deliveries \cup {0}
  BY <1>1, RepliedType
<1>4. applied' \in [Deliveries -> SUBSET AttemptNumbers]
  BY <1>1, <1>2 DEF IInv, TypeOK
<1>5. TypeOK'
  BY <1>1, <1>2, <1>3, <1>4 DEF IInv, TypeOK
<1>6. reply = "succeeded" => applied'[d] # {}
  BY <1>1, <1>2 DEF IInv, TypeOK
<1>7. \A b \in Deliveries : applied[b] \subseteq applied'[b]
  BY <1>1, <1>2 DEF IInv, TypeOK
<1> QED
  BY <1>1, <1>5, <1>6, <1>7, RepliedKept

LEMMA FinishStep ==
    ASSUME IInv, NEW w \in Workers, Finish(w)
    PROVE  IInv'
<1> DEFINE d == workers[w].delivery
           st == Outcome(d, workers[w].answer)
<1>1. /\ workers[w].pc = "answered" /\ workers[w].event = DELIVER
      /\ Calling(w) /\ Rest(w)
      /\ UNCHANGED <<count, observed, numbered, duplicates, retried, applied, environment>>
  BY DEF Finish, Calling, providerVars
<1>2. d \in Deliveries /\ count[d] \in AttemptNumbers /\ workers[w].answer \in Answers
  BY <1>1 DEF IInv, TypeOK, TaskOK, Task
<1>3. workers' \in [Workers -> Task]
  BY <1>1 DEF Rest, Idle, IInv, TypeOK, Task, Events, Answers, Outcomes
<1>4. CASE ~ClaimCurrent(w, "processing", "processing")
  <2>1. UNCHANGED <<state, attempts, operation, asked, signals>>
    BY <1>4 DEF Finish
  <2>2. TypeOK'
    BY <1>1, <1>3, <2>1 DEF IInv, TypeOK
  <2> QED
    BY <1>1, <2>1, <2>2, RestKept
<1>5. CASE ClaimCurrent(w, "processing", "processing")
  <2> DEFINE row == [attempts[d] EXCEPT ![count[d]] = st]
  <2>1. /\ state' = [state EXCEPT ![d] = st]
        /\ operation' = [operation EXCEPT ![d] = st]
        /\ attempts' = [attempts EXCEPT ![d] = row]
        /\ asked' = asked \ {d}
        /\ Signal(d, Followup(st))
    BY <1>5 DEF Finish
  <2>2. /\ st \in Outcomes /\ st \in States
        /\ st = "succeeded" => applied[d] # {}
    BY <1>1, <1>2, OutcomeType
       DEF Outcomes, Terminal, States, Claimable, IInv, TaskOK
  <2> HIDE DEF st
  <2>3. signals' \in [Deliveries \X Events -> Nat]
    BY <1>2, <2>1, <2>2, FollowupType, SignalType DEF IInv, TypeOK
  <2>4. /\ row \in [AttemptNumbers -> {"none", "processing"} \cup Outcomes]
        /\ \A k \in AttemptNumbers : row[k] = IF k = count[d] THEN st ELSE attempts[d][k]
    <3>1. attempts[d] \in [AttemptNumbers -> {"none", "processing"} \cup Outcomes]
      BY <1>2 DEF IInv, TypeOK
    <3> QED
      BY <1>2, <2>2, <3>1
  <2> HIDE DEF row
  <2>5. TypeOK'
    BY <1>1, <1>2, <1>3, <2>1, <2>2, <2>3, <2>4 DEF IInv, TypeOK
  <2>6. \A k \in AttemptNumbers : attempts'[d][k] # "processing"
    <3>1. attempts'[d] = row
      BY <1>2, <2>1 DEF IInv, TypeOK
    <3>2. \A k \in AttemptNumbers : k # count[d] => attempts[d][k] # "processing"
      BY <1>2 DEF IInv, RowOK
    <3> QED
      BY <2>2, <2>4, <3>1, <3>2 DEF Outcomes, Terminal
  <2>7. \A b \in Deliveries : b # d => attempts'[b] = attempts[b]
    BY <2>1 DEF IInv, TypeOK
  <2> HIDE DEF d
  <2> QED
    BY <1>1, <1>2, <2>1, <2>2, <2>5, <2>6, <2>7, SettleKept DEF d
<1> QED
  BY <1>4, <1>5

-----------------------------------------------------------------------------
LEMMA BeginReconciliationStep ==
    ASSUME IInv, NEW w \in Workers, BeginReconciliation(w)
    PROVE  IInv'
<1> DEFINE d == workers[w].delivery
<1>1. /\ workers[w].pc = "reading" /\ workers[w].event = RECONCILE
      /\ d \in Deliveries
      /\ UNCHANGED <<count, attempts, observed, signals, duplicates, retried, applied,
                     environment>>
  BY DEF BeginReconciliation, providerVars, IInv, TaskOK
<1>2. CASE ~NumberFree(w)
  <2>1. Rest(w) /\ UNCHANGED <<state, operation, numbered, asked>>
    BY <1>2 DEF BeginReconciliation
  <2>2. TypeOK'
    BY <1>1, <2>1 DEF Rest, Idle, IInv, TypeOK, Task, Events, Answers, Outcomes
  <2> QED
    BY <1>1, <2>1, <2>2, RestKept
<1>3. CASE NumberFree(w)
  <2>1. /\ state' = [state EXCEPT ![d] = "reconciling"]
        /\ operation' = [operation EXCEPT ![d] = "reconciling"]
        /\ numbered' = [numbered EXCEPT ![d] = workers[w].number]
        /\ asked' = asked \ {d}
        /\ Begin(w, count[d])
    BY <1>3 DEF BeginReconciliation
  <2>2. state[d] \in {"unknown_outcome", "reconciling"}
    BY <1>1, <1>3 DEF IInv, TaskOK
  <2>3. count[d] \in 0..MaxAttempts /\ count[d] > 0
    BY <1>1, <2>2 DEF IInv, TypeOK, RowOK
  <2>4. count[d] \in AttemptNumbers
    BY <2>3, DeliveryAssumption DEF AttemptNumbers
  <2>5. workers' \in [Workers -> Task]
    <3>1. count[d] \in Nat
      BY <2>4, DeliveryAssumption DEF AttemptNumbers
    <3> QED
      BY <2>1, <3>1 DEF Begin, IInv, TypeOK, Task
  <2>6. workers[w].number \in Nat
    BY DEF IInv, TypeOK, Task
  <2>7. TypeOK'
    BY <1>1, <2>1, <2>5, <2>6 DEF IInv, TypeOK, States
  <2>8. \A k \in AttemptNumbers : attempts'[d][k] # "processing"
    BY <1>1, <2>2 DEF IInv, RowOK
  <2>9. \A b \in Deliveries : b # d => count'[b] = count[b] /\ attempts'[b] = attempts[b]
    BY <1>1
  <2>10. Claims(w, d, count[d], "reconciling")
    BY <1>1, <1>3, <2>1, <2>8, <2>9 DEF Claims
  <2> HIDE DEF d
  <2> QED
    BY <1>1, <2>4, <2>7, <2>10, BeginKept
<1> QED
  BY <1>2, <1>3

LEMMA ReconcileStep ==
    ASSUME IInv, NEW w \in Workers, NEW reply \in Replies, Reconcile(w, reply)
    PROVE  IInv'
<1>1. /\ workers[w].pc = "calling"
      /\ Replied(w, reply)
      /\ reply = "succeeded" => applied[workers[w].delivery] # {}
      /\ UNCHANGED <<state, count, attempts, observed, operation, numbered, signals,
                     duplicates, asked, retried, applied, credential>>
  BY DEF Reconcile, rowVars, providerVars
<1>2. workers' \in [Workers -> Task] /\ abandoned' \subseteq Deliveries \cup {0}
  BY <1>1, RepliedType
<1>3. TypeOK'
  BY <1>1, <1>2 DEF IInv, TypeOK
<1> QED
  BY <1>1, <1>3, RepliedKept

LEMMA FinishReconciliationStep ==
    ASSUME IInv, NEW w \in Workers, FinishReconciliation(w)
    PROVE  IInv'
<1> DEFINE d == workers[w].delivery
           answer == workers[w].answer
           st == ReconciledState(answer)
<1>1. /\ workers[w].pc = "answered" /\ workers[w].event = RECONCILE
      /\ Calling(w) /\ Rest(w)
      /\ UNCHANGED <<count, attempts, numbered, duplicates, retried, applied, environment>>
  BY DEF FinishReconciliation, Calling, providerVars
<1>2. d \in Deliveries /\ count[d] \in AttemptNumbers /\ answer \in Answers
  BY <1>1 DEF IInv, TypeOK, TaskOK, Task
<1>3. workers' \in [Workers -> Task]
  BY <1>1 DEF Rest, Idle, IInv, TypeOK, Task, Events, Answers, Outcomes
<1>4. CASE ~ClaimCurrent(w, "reconciling", "unknown_outcome")
  <2>1. UNCHANGED <<observed, state, operation, asked, signals>>
    BY <1>4 DEF FinishReconciliation
  <2>2. TypeOK'
    BY <1>1, <1>3, <2>1 DEF IInv, TypeOK
  <2> QED
    BY <1>1, <2>1, <2>2, RestKept
<1>5. CASE ClaimCurrent(w, "reconciling", "unknown_outcome")
  <2>1. /\ state' = [state EXCEPT ![d] = st]
        /\ operation' = [operation EXCEPT ![d] = st]
        /\ observed' = [observed EXCEPT ![d] = @ \cup {<<count[d], answer>>}]
        /\ asked' = asked \ {d}
        /\ Signal(d, ReconciledFollowup(answer))
    BY <1>5 DEF FinishReconciliation
  <2>2. /\ st \in Outcomes /\ st \in States
        /\ st = "succeeded" => applied[d] # {}
    BY <1>1, <1>2, OutcomeType
       DEF Outcomes, Terminal, States, Claimable, IInv, TaskOK
  <2>3. signals' \in [Deliveries \X Events -> Nat]
    BY <1>2, <2>1, FollowupType, SignalType DEF IInv, TypeOK
  <2> HIDE DEF st
  <2>4. observed' \in [Deliveries -> SUBSET (AttemptNumbers \X Answers)]
    BY <1>2, <2>1 DEF IInv, TypeOK
  <2>5. TypeOK'
    BY <1>1, <1>3, <2>1, <2>2, <2>3, <2>4 DEF IInv, TypeOK
  <2>6. \A k \in AttemptNumbers : attempts'[d][k] # "processing"
    BY <1>1, <1>2 DEF IInv, TaskOK, RowOK
  <2>7. \A b \in Deliveries : b # d => attempts'[b] = attempts[b]
    BY <1>1
  <2> HIDE DEF d
  <2> QED
    BY <1>1, <1>2, <2>1, <2>2, <2>5, <2>6, <2>7, SettleKept DEF d
<1> QED
  BY <1>4, <1>5

-----------------------------------------------------------------------------
\* A message scheduled by hand keeps the queue well typed.
LEMMA ManualSignalType ==
    ASSUME IInv, NEW d \in Deliveries, Signal(d, IF d \in asked THEN "none" ELSE ManualEvent(d))
    PROVE  signals' \in [Deliveries \X Events -> Nat]
BY FollowupType, SignalType DEF IInv, TypeOK

LEMMA RetryStep ==
    ASSUME IInv, NEW d \in Deliveries, Retry(d)
    PROVE  IInv'
<1>1. /\ retried' = [result |-> "accepted", times |-> retried.times + 1]
      /\ asked' = asked \cup {d}
      /\ UNCHANGED <<state, count, attempts, observed, operation, numbered, duplicates, workers,
                     applied, environment>>
  BY DEF Retry, ScheduleManually, rowVars, providerVars
<1>2. signals' \in [Deliveries \X Events -> Nat]
  BY ManualSignalType DEF Retry, ScheduleManually
<1>3. TypeOK'
  BY <1>1, <1>2 DEF IInv, TypeOK
<1> QED
  BY <1>1, <1>3, CoreKept DEF core

LEMMA RetryUnknownStep ==
    ASSUME IInv, NEW d \in Deliveries, RetryUnknown(d)
    PROVE  IInv'
<1>1. /\ state[d] = "unknown_outcome"
      /\ state' = [state EXCEPT ![d] = "reconciling"]
      /\ retried' = [result |-> "accepted", times |-> retried.times + 1]
      /\ asked' = asked \ {d}
      /\ UNCHANGED <<count, attempts, observed, operation, numbered, duplicates, workers,
                     applied, environment>>
  BY DEF RetryUnknown, providerVars
<1>2. signals' \in [Deliveries \X Events -> Nat]
  BY ManualSignalType DEF RetryUnknown
<1>3. TypeOK'
  <2>1. "reconciling" \in States /\ retried' \in [result : {"none", "accepted", "conflict"}, times : Nat]
    BY <1>1 DEF IInv, TypeOK, States
  <2> QED
    BY <1>1, <1>2, <2>1 DEF IInv, TypeOK
<1>4. ASSUME NEW b \in Deliveries PROVE RowOK(b)'
  BY <1>1 DEF IInv, TypeOK, RowOK
<1>5. ASSUME NEW w \in Workers PROVE TaskOK(w)'
  <2>1. CASE workers[w].delivery = d
    BY <2>1, <1>1 DEF IInv, TypeOK, TaskOK, Calling, NumberFree, Claimable
  <2>2. CASE workers[w].delivery # d
    BY <2>2, <1>1 DEF IInv, TypeOK, TaskOK, Calling, NumberFree
  <2> QED
    BY <2>1, <2>2
<1>6. Exclusive'
  BY <1>1 DEF IInv, Exclusive, Eligible, Calling, NumberFree
<1> QED
  BY <1>3, <1>4, <1>5, <1>6 DEF IInv

\* A given-up delivery has an attempt, and that attempt is never processing: the
\* command always ends in a conflict.
LEMMA RetryGivenUpConflicts ==
    ASSUME IInv, NEW d \in Deliveries, RetryGivenUp(d)
    PROVE  /\ retried' = [result |-> "conflict", times |-> retried.times + 1]
           /\ UNCHANGED <<signals, asked, state, attempts>>
<1>1. state[d] = "action_required" /\ count[d] \in 0..MaxAttempts /\ count[d] > 0
  BY DEF RetryGivenUp, IInv, TypeOK, RowOK
<1>2. count[d] \in AttemptNumbers
  BY <1>1, DeliveryAssumption DEF AttemptNumbers
<1>3. attempts[d][count[d]] # "processing"
  BY <1>1, <1>2 DEF IInv, RowOK
<1> QED
  BY <1>1, <1>3 DEF RetryGivenUp

LEMMA RetryGivenUpStep ==
    ASSUME IInv, NEW d \in Deliveries, RetryGivenUp(d)
    PROVE  IInv'
<1>1. /\ retried' = [result |-> "conflict", times |-> retried.times + 1]
      /\ UNCHANGED <<signals, asked, state, attempts>>
  BY RetryGivenUpConflicts
<1>2. UNCHANGED <<count, observed, operation, numbered, duplicates, workers, applied,
                  environment>>
  BY DEF RetryGivenUp, providerVars
<1>3. TypeOK'
  BY <1>1, <1>2 DEF environment, IInv, TypeOK
<1> QED
  BY <1>1, <1>2, <1>3, CoreKept DEF core

LEMMA CrashStep ==
    ASSUME IInv, NEW w \in Workers, Crash(w)
    PROVE  IInv'
<1>1. /\ Rest(w)
      /\ abandoned' = abandoned \cup {workers[w].delivery}
      /\ UNCHANGED <<rowVars, signals, duplicates, asked, retried, providerVars, credential>>
  BY DEF Crash
<1>2. workers[w].delivery \in Deliveries \cup {0}
  BY DEF IInv, TypeOK, Task
<1>3. TypeOK'
  BY <1>1, <1>2 DEF rowVars, providerVars, Rest, Idle, IInv, TypeOK, Task, Events, Answers, Outcomes
<1> QED
  BY <1>1, <1>3, RestKept DEF rowVars, providerVars

LEMMA RevokeCredentialStep ==
    ASSUME IInv, RevokeCredential
    PROVE  IInv'
<1>1. TypeOK'
  BY DEF RevokeCredential, rowVars, providerVars, IInv, TypeOK
<1> QED
  BY <1>1, CoreKept DEF RevokeCredential, core, rowVars, providerVars

LEMMA NextIInv ==
    ASSUME IInv, [Next]_vars
    PROVE  IInv'
<1>1. ASSUME NEW d \in Deliveries, Schedule(d) PROVE IInv'
  BY <1>1, ScheduleStep
<1>2. ASSUME NEW d \in Deliveries, Retry(d) PROVE IInv'
  BY <1>2, RetryStep
<1>3. ASSUME NEW d \in Deliveries, RetryUnknown(d) PROVE IInv'
  BY <1>3, RetryUnknownStep
<1>4. ASSUME NEW d \in Deliveries, RetryGivenUp(d) PROVE IInv'
  BY <1>4, RetryGivenUpStep
<1>5. ASSUME NEW d \in Deliveries, NEW e \in Events, Duplicate(d, e) PROVE IInv'
  BY <1>5, DuplicateStep
<1>6. ASSUME NEW w \in Workers, WorkerStep(w) PROVE IInv'
  BY <1>6, ReadStep, ClaimStep, DeliverStep, FinishStep, BeginReconciliationStep, ReconcileStep,
     FinishReconciliationStep DEF WorkerStep
<1>7. ASSUME NEW w \in Workers, Crash(w) PROVE IInv'
  BY <1>7, CrashStep
<1>8. ASSUME RevokeCredential PROVE IInv'
  BY <1>8, RevokeCredentialStep
<1>9. CASE UNCHANGED vars
  <2>1. TypeOK'
    BY <1>9 DEF vars, rowVars, providerVars, environment, IInv, TypeOK
  <2> QED
    BY <1>9, <2>1, CoreKept DEF vars, rowVars, providerVars, environment, core
<1> QED
  BY <1>1, <1>2, <1>3, <1>4, <1>5, <1>6, <1>7, <1>8, <1>9 DEF Next

-----------------------------------------------------------------------------
\* The inductive invariant holds of every behaviour, fairness or not.
THEOREM Invariance == SafeSpec => []IInv
<1>1. Init => IInv
  BY InitIInv
<1>2. IInv /\ [Next]_vars => IInv'
  BY NextIInv
<1> QED
  BY <1>1, <1>2, PTL DEF SafeSpec

\* Every variable of the deliveries stays in its set.
THEOREM TypeCorrect == Spec => []TypeOK
<1>1. IInv => TypeOK
  BY DEF IInv
<1> QED
  BY <1>1, Invariance, PTL DEF Spec

\* Whatever duplicates, retries by hand and reconciliations race, no two tasks
\* call the provider for one delivery at once, and only the current attempt of
\* a processing delivery is shown as processing.
THEOREM CallsAreExclusive == Spec => []OneCallAtATime
<1>1. IInv => OneCallAtATime
  BY DEF IInv, Exclusive, Eligible, RowOK, OneCallAtATime
<1> QED
  BY <1>1, Invariance, PTL DEF Spec

\* A delivery is recorded as succeeded only after a call of its own took effect
\* at the provider.
THEOREM SuccessIsReal == Spec => []SuccessTookEffect
<1>1. IInv => SuccessTookEffect
  BY DEF IInv, RowOK, SuccessTookEffect
<1> QED
  BY <1>1, Invariance, PTL DEF Spec

\* The Operation shown to the users follows the delivery row.
THEOREM OperationIsInStep == Spec => []OperationFollowsDelivery
<1>1. IInv => OperationFollowsDelivery
  BY DEF IInv, RowOK, OperationFollowsDelivery
<1> QED
  BY <1>1, Invariance, PTL DEF Spec

\* While a task may still record something, the delivery is neither settled nor
\* waiting for a claim.
LEMMA CallingIsOpen ==
    ASSUME IInv, NEW w \in Workers, Calling(w)
    PROVE  /\ workers[w].delivery \in Deliveries
           /\ state[workers[w].delivery] \in {"processing", "reconciling"}
BY DEF IInv, TaskOK, Calling

\* A task that may claim a delivery found it claimable.
LEMMA FreeIsClaimable ==
    ASSUME IInv, NEW w \in Workers, workers[w].pc = "reading", workers[w].event = DELIVER,
           NumberFree(w)
    PROVE  /\ workers[w].delivery \in Deliveries
           /\ state[workers[w].delivery] \in Claimable
BY DEF IInv, TaskOK

LEMMA SettledStep ==
    ASSUME IInv, [Next]_vars, NEW d \in Deliveries, state[d] \in Terminal
    PROVE  state'[d] = state[d] /\ applied'[d] = applied[d]
<1> USE DEF rowVars, providerVars, Terminal
<1>1. ASSUME NEW b \in Deliveries, Schedule(b) \/ Retry(b) \/ RetryUnknown(b)
      PROVE  state'[d] = state[d] /\ applied'[d] = applied[d]
  BY <1>1 DEF Schedule, Retry, RetryUnknown, IInv, TypeOK
<1>2. ASSUME NEW b \in Deliveries, RetryGivenUp(b)
      PROVE  state'[d] = state[d] /\ applied'[d] = applied[d]
  <2>1. UNCHANGED state
    BY <1>2, RetryGivenUpConflicts
  <2> QED
    BY <1>2, <2>1 DEF RetryGivenUp
<1>3. ASSUME NEW b \in Deliveries, NEW e \in Events, Duplicate(b, e)
      PROVE  state'[d] = state[d] /\ applied'[d] = applied[d]
  BY <1>3 DEF Duplicate
<1>4. ASSUME NEW w \in Workers, WorkerStep(w)
      PROVE  state'[d] = state[d] /\ applied'[d] = applied[d]
  <2>1. ASSUME NEW b \in Deliveries, NEW e \in Events, Read(w, b, e)
        PROVE  state'[d] = state[d] /\ applied'[d] = applied[d]
    BY <2>1 DEF Read
  <2>2. ASSUME Claim(w)
        PROVE  state'[d] = state[d] /\ applied'[d] = applied[d]
    BY <2>2, FreeIsClaimable DEF Claim, Claimable, IInv, TypeOK
  <2>3. ASSUME NEW reply \in Replies, NEW effect \in BOOLEAN, Deliver(w, reply, effect)
        PROVE  state'[d] = state[d] /\ applied'[d] = applied[d]
    BY <2>3, CallingIsOpen DEF Deliver, Calling, IInv, TypeOK
  <2>4. ASSUME Finish(w) \/ FinishReconciliation(w)
        PROVE  state'[d] = state[d] /\ applied'[d] = applied[d]
    BY <2>4, CallingIsOpen DEF Finish, FinishReconciliation, Calling, IInv, TypeOK
  <2>5. ASSUME BeginReconciliation(w)
        PROVE  state'[d] = state[d] /\ applied'[d] = applied[d]
    BY <2>5 DEF BeginReconciliation, IInv, TypeOK, TaskOK
  <2>6. ASSUME NEW reply \in Replies, Reconcile(w, reply)
        PROVE  state'[d] = state[d] /\ applied'[d] = applied[d]
    BY <2>6 DEF Reconcile
  <2> QED
    BY <1>4, <2>1, <2>2, <2>3, <2>4, <2>5, <2>6 DEF WorkerStep
<1>5. ASSUME NEW w \in Workers, Crash(w)
      PROVE  state'[d] = state[d] /\ applied'[d] = applied[d]
  BY <1>5 DEF Crash
<1>6. CASE RevokeCredential \/ UNCHANGED vars
  BY <1>6 DEF RevokeCredential, vars
<1> QED
  BY <1>1, <1>2, <1>3, <1>4, <1>5, <1>6 DEF Next

\* A delivery that succeeded or was given up is never worked on again, however
\* late its duplicate signals arrive and whatever is retried by hand.
THEOREM SettledForGood == Spec => SettledStays
<1>1. IInv /\ [Next]_vars =>
        [\A d \in Deliveries : state[d] \in Terminal =>
            state'[d] = state[d] /\ applied'[d] = applied[d]]_vars
  BY SettledStep
<1> QED
  BY <1>1, Invariance, PTL DEF Spec, SafeSpec, SettledStays

-----------------------------------------------------------------------------
(* Which attempts are followed by another one.                             *)

\* An attempt that may be followed by another one: it failed, or its outcome was
\* unknown and a lookup said that the provider has not got it or that it failed.
Repeatable(d, n) ==
    \/ attempts[d][n] = "retryable_failed"
    \/ /\ attempts[d][n] = "unknown_outcome"
       /\ \E answer \in {"not_found", "retryable_failed"} : <<n, answer>> \in observed[d]

\* Every attempt that was, or may now be, followed by another one is repeatable;
\* only ended attempts have been looked up, and what was not found had no effect.
RowHonest(d) ==
    /\ state[d] \in {"absent", "pending"} => count[d] = 0
    /\ \A n \in AttemptNumbers :
         n < count[d] \/ (n = count[d] /\ state[d] = "retryable_failed") => Repeatable(d, n)
    /\ \A n \in AttemptNumbers, answer \in Answers :
         <<n, answer>> \in observed[d] => n <= count[d] /\ attempts[d][n] # "processing"
    /\ \A n \in AttemptNumbers : <<n, "not_found">> \in observed[d] => n \notin applied[d]

\* A task whose lookup found nothing may still rely on that.
TaskHonest(w) ==
    workers[w].pc = "answered" /\ workers[w].event = RECONCILE /\ workers[w].answer = "not_found"
        => applied[workers[w].delivery] = {}

Honest ==
    /\ \A d \in Deliveries : RowHonest(d)
    /\ \A w \in Workers : TaskHonest(w)

LEMMA InitHonest == Init => Honest
<1> SUFFICES ASSUME Init PROVE Honest
  OBVIOUS
<1>1. \A w \in Workers : workers[w].pc = "idle"
  BY DEF Init, Idle
<1>2. \A n \in AttemptNumbers : ~(n < 0) /\ n # 0
  BY DeliveryAssumption DEF AttemptNumbers
<1> QED
  BY <1>1, <1>2 DEF Init, Honest, RowHonest, TaskHonest

\* A step that leaves the rows alone, and gives no task a lookup that found nothing.
LEMMA HonestKept ==
    ASSUME Honest, UNCHANGED <<state, count, attempts, observed, applied>>,
           \A v \in Workers : workers'[v] = workers[v]
                              \/ workers'[v].pc # "answered" \/ workers'[v].event # RECONCILE
    PROVE  Honest'
BY DEF Honest, RowHonest, TaskHonest, Repeatable

LEMMA ClaimHonest ==
    ASSUME IInv, Honest, NEW w \in Workers, Claim(w)
    PROVE  Honest'
<1> SUFFICES ASSUME NEW d, d = workers[w].delivery PROVE Honest'
  OBVIOUS
<1>1. CASE ~(count[d] < MaxAttempts /\ NumberFree(w))
  <2>1. \A v \in Workers : workers'[v] = workers[v] \/ workers'[v].pc = "idle"
    BY <1>1 DEF Claim, Rest, Idle, IInv, TypeOK
  <2> QED
    BY <1>1, <2>1, HonestKept DEF Claim, providerVars
<1>2. CASE count[d] < MaxAttempts /\ NumberFree(w)
  <2>1. d \in Deliveries /\ state[d] \in Claimable
    BY <1>2, FreeIsClaimable DEF Claim
  <2>2. /\ workers'[w].pc = "calling"
        /\ \A v \in Workers : v # w => workers'[v] = workers[v]
    BY <1>2 DEF Claim, Begin, IInv, TypeOK
  <2> count[d] \in 0..MaxAttempts
    BY <2>1 DEF IInv, TypeOK
  <2>3. count[d] \in Nat /\ count[d] + 1 \in AttemptNumbers
    BY <1>2, DeliveryAssumption DEF AttemptNumbers
  <2>4. /\ state'[d] = "processing" /\ count'[d] = count[d] + 1
        /\ \A n \in AttemptNumbers : n # count[d] + 1 => attempts'[d][n] = attempts[d][n]
        /\ \A b \in Deliveries : b # d => /\ state'[b] = state[b]
                                          /\ count'[b] = count[b]
                                          /\ attempts'[b] = attempts[b]
        /\ UNCHANGED <<observed, applied>>
    BY <1>2, <2>1, <2>3 DEF Claim, providerVars, IInv, TypeOK
  <2>5. ASSUME NEW n \in AttemptNumbers, n < count'[d] PROVE Repeatable(d, n)'
    <3>1. n \in Nat /\ n > 0 /\ (n < count[d] \/ n = count[d])
      BY <2>3, <2>4, <2>5, DeliveryAssumption DEF AttemptNumbers
    <3>2. n = count[d] => state[d] = "retryable_failed"
      BY <2>1, <3>1 DEF Honest, RowHonest, Claimable
    <3>3. Repeatable(d, n)
      BY <2>1, <3>1, <3>2 DEF Honest, RowHonest
    <3>4. n # count[d] + 1
      BY <2>3, <3>1
    <3> QED
      BY <2>4, <3>3, <3>4 DEF Repeatable
  <2>6. ASSUME NEW n \in AttemptNumbers, NEW answer \in Answers, <<n, answer>> \in observed[d]
        PROVE  n <= count'[d] /\ attempts'[d][n] # "processing"
    <3>1. n <= count[d] /\ attempts[d][n] # "processing"
      BY <2>1, <2>6 DEF Honest, RowHonest
    <3>2. n \in Nat
      BY DeliveryAssumption DEF AttemptNumbers
    <3>3. n <= count[d] + 1 /\ n # count[d] + 1
      BY <2>3, <3>1, <3>2
    <3> QED
      BY <2>4, <3>1, <3>3
  <2>7. ASSUME NEW b \in Deliveries PROVE RowHonest(b)'
    <3>1. CASE b = d
      BY <2>1, <2>4, <2>5, <2>6, <3>1 DEF Honest, RowHonest
    <3>2. CASE b # d
      BY <2>4, <3>2 DEF Honest, RowHonest, Repeatable
    <3> QED
      BY <3>1, <3>2
  <2>8. ASSUME NEW v \in Workers PROVE TaskHonest(v)'
    BY <2>2, <2>4 DEF Honest, TaskHonest
  <2> QED
    BY <2>7, <2>8 DEF Honest
<1> QED
  BY <1>1, <1>2

LEMMA DeliverHonest ==
    ASSUME IInv, Honest, NEW w \in Workers, NEW reply \in Replies, NEW effect \in BOOLEAN,
           Deliver(w, reply, effect)
    PROVE  Honest'
<1> DEFINE d == workers[w].delivery
           k == workers[w].attempt
<1>1. /\ d \in Deliveries /\ state[d] = "processing" /\ k = count[d] /\ k \in AttemptNumbers
      /\ Calling(w)
  BY DEF Deliver, Calling, IInv, TaskOK
<1>2. \A v \in Workers : v # w => workers'[v] = workers[v]
  BY DEF Deliver, Replied, Answered, Rest, IInv, TypeOK
<1>3. workers'[w].pc = "idle" \/ workers'[w].event = DELIVER
  BY DEF Deliver, Replied, Answered, Rest, Idle, IInv, TypeOK
<1>4. /\ \A b \in Deliveries : b # d => applied'[b] = applied[b]
      /\ applied'[d] \subseteq applied[d] \cup {k}
      /\ UNCHANGED <<state, count, attempts, observed>>
  BY <1>1 DEF Deliver, rowVars, IInv, TypeOK
<1>5. attempts[d][k] = "processing"
  BY <1>1 DEF IInv, RowOK
<1>6. <<k, "not_found">> \notin observed[d]
  BY <1>1, <1>5 DEF Honest, RowHonest, Answers
<1>7. ASSUME NEW b \in Deliveries PROVE RowHonest(b)'
  <2>1. CASE b = d
    BY <1>4, <1>6, <2>1 DEF Honest, RowHonest, Repeatable
  <2>2. CASE b # d
    BY <1>4, <2>2 DEF Honest, RowHonest, Repeatable
  <2> QED
    BY <2>1, <2>2
<1>8. ASSUME NEW v \in Workers PROVE TaskHonest(v)'
  <2>1. CASE v = w
    BY <1>3, <2>1 DEF TaskHonest
  <2>2. CASE v # w
    <3>1. Calling(v) => workers[v].delivery \in Deliveries /\ workers[v].delivery # d
      BY <1>1, <2>2, CallingIsOpen DEF IInv, Exclusive, Eligible
    <3> QED
      BY <1>2, <1>4, <2>2, <3>1 DEF Honest, TaskHonest, Calling
  <2> QED
    BY <2>1, <2>2
<1> QED
  BY <1>7, <1>8 DEF Honest

LEMMA FinishHonest ==
    ASSUME IInv, Honest, NEW w \in Workers, Finish(w)
    PROVE  Honest'
<1> SUFFICES ASSUME NEW d, d = workers[w].delivery PROVE Honest'
  OBVIOUS
<1> DEFINE st == Outcome(d, workers[w].answer)
<1>1. \A v \in Workers : workers'[v] = workers[v] \/ workers'[v].pc = "idle"
  BY DEF Finish, Rest, Idle, IInv, TypeOK
<1>2. UNCHANGED <<count, observed, applied>>
  BY DEF Finish, providerVars
<1>3. CASE ~ClaimCurrent(w, "processing", "processing")
  BY <1>1, <1>2, <1>3, HonestKept DEF Finish
<1>4. CASE ClaimCurrent(w, "processing", "processing")
  <2>1. /\ d \in Deliveries /\ count[d] \in AttemptNumbers /\ state[d] = "processing"
        /\ workers[w].answer \in Answers
    BY DEF Finish, IInv, TypeOK, TaskOK, Calling, Task
  <2>2. st \in Outcomes
    BY <2>1, OutcomeType
  <2> HIDE DEF st
  <2>3. /\ state'[d] = st /\ attempts'[d][count[d]] = st
        /\ \A n \in AttemptNumbers : n # count[d] => attempts'[d][n] = attempts[d][n]
        /\ \A b \in Deliveries : b # d => state'[b] = state[b] /\ attempts'[b] = attempts[b]
    BY <1>4, <2>1 DEF Finish, st, IInv, TypeOK
  <2>4. st \notin {"absent", "pending", "processing"}
    BY <2>2 DEF Outcomes, Terminal
  <2>5. \A n \in AttemptNumbers : n < count[d] => n # count[d]
    BY DeliveryAssumption DEF AttemptNumbers
  <2>6. ASSUME NEW n \in AttemptNumbers,
               n < count[d] \/ (n = count[d] /\ st = "retryable_failed")
        PROVE  Repeatable(d, n)'
    <3>1. CASE n < count[d]
      BY <1>2, <2>1, <2>3, <2>5, <3>1 DEF Honest, RowHonest, Repeatable
    <3>2. CASE n = count[d] /\ st = "retryable_failed"
      BY <2>3, <3>2 DEF Repeatable
    <3> QED
      BY <2>6, <3>1, <3>2
  <2>7. ASSUME NEW n \in AttemptNumbers, NEW answer \in Answers, <<n, answer>> \in observed[d]
        PROVE  n <= count[d] /\ attempts'[d][n] # "processing"
    BY <2>1, <2>3, <2>4, <2>7 DEF Honest, RowHonest
  <2>8. ASSUME NEW b \in Deliveries PROVE RowHonest(b)'
    <3>1. CASE b = d
      BY <1>2, <2>1, <2>3, <2>4, <2>6, <2>7, <3>1 DEF Honest, RowHonest
    <3>2. CASE b # d
      BY <1>2, <2>3, <3>2 DEF Honest, RowHonest, Repeatable
    <3> QED
      BY <3>1, <3>2
  <2>9. \A v \in Workers : TaskHonest(v)'
    BY <1>1, <1>2 DEF Honest, TaskHonest
  <2> QED
    BY <2>8, <2>9 DEF Honest
<1> QED
  BY <1>3, <1>4

LEMMA FinishReconciliationHonest ==
    ASSUME IInv, Honest, NEW w \in Workers, FinishReconciliation(w)
    PROVE  Honest'
<1> SUFFICES ASSUME NEW d, d = workers[w].delivery PROVE Honest'
  OBVIOUS
<1> DEFINE answer == workers[w].answer
           st == ReconciledState(answer)
<1>1. \A v \in Workers : workers'[v] = workers[v] \/ workers'[v].pc = "idle"
  BY DEF FinishReconciliation, Rest, Idle, IInv, TypeOK
<1>2. UNCHANGED <<count, attempts, applied>>
  BY DEF FinishReconciliation, providerVars
<1>3. CASE ~ClaimCurrent(w, "reconciling", "unknown_outcome")
  BY <1>1, <1>2, <1>3, HonestKept DEF FinishReconciliation
<1>4. CASE ClaimCurrent(w, "reconciling", "unknown_outcome")
  <2>1. /\ d \in Deliveries /\ count[d] \in AttemptNumbers /\ answer \in Answers
        /\ workers[w].attempt = count[d] /\ attempts[d][count[d]] = "unknown_outcome"
    BY <1>4 DEF FinishReconciliation, ClaimCurrent, IInv, TypeOK, TaskOK, Calling, Task
  <2>2. /\ st \in Outcomes
        /\ st = "retryable_failed" => answer \in {"not_found", "retryable_failed"}
    BY <2>1, OutcomeType DEF ReconciledState
  <2>3. answer = "not_found" => applied[d] = {}
    BY DEF FinishReconciliation, Honest, TaskHonest
  <2> HIDE DEF st, answer
  <2>4. /\ state'[d] = st
        /\ observed'[d] = observed[d] \cup {<<count[d], answer>>}
        /\ \A b \in Deliveries : b # d => state'[b] = state[b] /\ observed'[b] = observed[b]
    BY <1>4, <2>1 DEF FinishReconciliation, st, answer, IInv, TypeOK
  <2>5. st \notin {"absent", "pending"}
    BY <2>2 DEF Outcomes, Terminal
  <2>6. ASSUME NEW n \in AttemptNumbers,
               n < count[d] \/ (n = count[d] /\ st = "retryable_failed")
        PROVE  Repeatable(d, n)'
    <3>1. CASE n < count[d]
      BY <1>2, <2>1, <2>4, <3>1 DEF Honest, RowHonest, Repeatable
    <3>2. CASE n = count[d] /\ st = "retryable_failed"
      BY <1>2, <2>1, <2>2, <2>4, <3>2 DEF Repeatable
    <3> QED
      BY <2>6, <3>1, <3>2
  <2>7. ASSUME NEW n \in AttemptNumbers, NEW a \in Answers, <<n, a>> \in observed'[d]
        PROVE  n <= count[d] /\ attempts[d][n] # "processing"
    <3>1. CASE <<n, a>> \in observed[d]
      BY <2>1, <3>1 DEF Honest, RowHonest
    <3>2. CASE n = count[d]
      BY <2>1, <3>2, DeliveryAssumption DEF AttemptNumbers
    <3> QED
      BY <2>4, <2>7, <3>1, <3>2
  <2>8. ASSUME NEW n \in AttemptNumbers, <<n, "not_found">> \in observed'[d]
        PROVE  n \notin applied[d]
    <3>1. CASE <<n, "not_found">> \in observed[d]
      BY <2>1, <3>1 DEF Honest, RowHonest
    <3>2. CASE answer = "not_found"
      BY <2>3, <3>2
    <3> QED
      BY <2>4, <2>8, <3>1, <3>2
  <2>9. ASSUME NEW b \in Deliveries PROVE RowHonest(b)'
    <3>1. CASE b = d
      BY <1>2, <2>4, <2>5, <2>6, <2>7, <2>8, <3>1 DEF RowHonest
    <3>2. CASE b # d
      BY <1>2, <2>4, <3>2 DEF Honest, RowHonest, Repeatable
    <3> QED
      BY <3>1, <3>2
  <2>10. \A v \in Workers : TaskHonest(v)'
    BY <1>1, <1>2 DEF Honest, TaskHonest
  <2> QED
    BY <2>9, <2>10 DEF Honest
<1> QED
  BY <1>3, <1>4

\* A step that only moves deliveries to "reconciling" or settles none.
LEMMA MovedHonest ==
    ASSUME Honest, UNCHANGED <<count, attempts, observed, applied>>,
           \A b \in Deliveries : state'[b] = state[b] \/ state'[b] = "reconciling"
                                 \/ (state[b] = "absent" /\ state'[b] = "pending"),
           \A v \in Workers : workers'[v] = workers[v] \/ workers'[v].pc # "answered"
    PROVE  Honest'
BY DEF Honest, RowHonest, TaskHonest, Repeatable

LEMMA WorkerHonest ==
    ASSUME IInv, Honest, NEW w \in Workers, WorkerStep(w)
    PROVE  Honest'
<1> USE DEF rowVars, providerVars
<1>1. ASSUME NEW d \in Deliveries, NEW e \in Events, Read(w, d, e) PROVE Honest'
  <2> DEFINE task == [Idle EXCEPT !.pc = "reading", !.event = e, !.delivery = d,
                                  !.number = numbered[d] + 1]
  <2>1. task.pc = "reading"
    BY DEF Idle
  <2>2. workers' = [workers EXCEPT ![w] = task] \/ UNCHANGED workers
    BY <1>1, Zenon DEF Read
  <2> HIDE DEF task
  <2>3. \A v \in Workers : workers'[v] = workers[v] \/ workers'[v].pc = "reading"
    BY <2>1, <2>2 DEF IInv, TypeOK
  <2> QED
    BY <1>1, <2>3, HonestKept DEF Read
<1>2. ASSUME BeginReconciliation(w) PROVE Honest'
  <2>1. workers[w].delivery \in Deliveries
    BY <1>2 DEF BeginReconciliation, IInv, TaskOK
  <2>2. \A v \in Workers : workers'[v] = workers[v] \/ workers'[v].pc # "answered"
    BY <1>2 DEF BeginReconciliation, Begin, Rest, Idle, IInv, TypeOK
  <2>3. \A b \in Deliveries : state'[b] = state[b] \/ state'[b] = "reconciling"
    BY <1>2, <2>1 DEF BeginReconciliation, IInv, TypeOK
  <2> QED
    BY <1>2, <2>2, <2>3, MovedHonest DEF BeginReconciliation
<1>3. ASSUME NEW reply \in Replies, Reconcile(w, reply) PROVE Honest'
  <2>1. \A v \in Workers : v # w => workers'[v] = workers[v]
    BY <1>3 DEF Reconcile, Replied, Answered, Rest, IInv, TypeOK
  <2>2. workers'[w].pc = "idle" \/ /\ workers'[w].answer = reply
                                   /\ workers'[w].delivery = workers[w].delivery
    BY <1>3 DEF Reconcile, Replied, Answered, Rest, Idle, IInv, TypeOK
  <2>3. reply = "not_found" => applied[workers[w].delivery] = {}
    BY <1>3 DEF Reconcile
  <2> QED
    BY <1>3, <2>1, <2>2, <2>3 DEF Reconcile, Honest, RowHonest, TaskHonest, Repeatable
<1> QED
  BY <1>1, <1>2, <1>3, ClaimHonest, DeliverHonest, FinishHonest, FinishReconciliationHonest
     DEF WorkerStep

LEMMA NextHonest ==
    ASSUME IInv, Honest, [Next]_vars
    PROVE  Honest'
<1> USE DEF rowVars, providerVars
<1>1. ASSUME NEW d \in Deliveries, Schedule(d) PROVE Honest'
  BY <1>1, MovedHonest DEF Schedule, IInv, TypeOK
<1>2. ASSUME NEW d \in Deliveries, Retry(d) PROVE Honest'
  BY <1>2, MovedHonest DEF Retry, ScheduleManually
<1>3. ASSUME NEW d \in Deliveries, RetryUnknown(d) PROVE Honest'
  BY <1>3, MovedHonest DEF RetryUnknown, IInv, TypeOK
<1>4. ASSUME NEW d \in Deliveries, RetryGivenUp(d) PROVE Honest'
  <2>1. UNCHANGED <<state, attempts>>
    BY <1>4, RetryGivenUpConflicts
  <2> QED
    BY <1>4, <2>1, MovedHonest DEF RetryGivenUp
<1>5. ASSUME NEW d \in Deliveries, NEW e \in Events, Duplicate(d, e) PROVE Honest'
  BY <1>5, MovedHonest DEF Duplicate
<1>6. ASSUME NEW w \in Workers, WorkerStep(w) PROVE Honest'
  BY <1>6, WorkerHonest
<1>7. ASSUME NEW w \in Workers, Crash(w) PROVE Honest'
  <2>1. \A v \in Workers : workers'[v] = workers[v] \/ workers'[v].pc = "idle"
    BY <1>7 DEF Crash, Rest, Idle, IInv, TypeOK
  <2> QED
    BY <1>7, <2>1, HonestKept DEF Crash
<1>8. CASE RevokeCredential \/ UNCHANGED vars
  BY <1>8, MovedHonest DEF RevokeCredential, vars
<1> QED
  BY <1>1, <1>2, <1>3, <1>4, <1>5, <1>6, <1>7, <1>8 DEF Next

\* What is said of repeated attempts is an invariant, with every fault admitted.
LEMMA Honesty == SafeSpec => []Honest
<1>1. Init => Honest
  BY InitHonest
<1>2. IInv /\ Honest /\ [Next]_vars => Honest'
  BY NextHonest
<1> QED
  BY <1>1, <1>2, Invariance, PTL DEF SafeSpec

\* An attempt whose outcome is unknown is followed by another only after a lookup
\* said that the provider has not got it or that it failed, under every fault.
THEOREM ReconciledFirst == Spec => []UnknownIsReconciledFirst
<1>1. Honest => UnknownIsReconciledFirst
  BY DEF Honest, RowHonest, Repeatable, UnknownIsReconciledFirst
<1> QED
  BY <1>1, Honesty, PTL DEF Spec

\* No attempt follows one that took effect, unless the latter was recorded as a
\* failure, by its own call or by a lookup, under every fault.
THEOREM EffectsAreNotRepeated == Spec => []OnlyFailuresAreRepeated
<1>1. Honest => OnlyFailuresAreRepeated
  BY DEF Honest, RowHonest, Repeatable, OnlyFailuresAreRepeated
<1> QED
  BY <1>1, Honesty, PTL DEF Spec
=============================================================================
