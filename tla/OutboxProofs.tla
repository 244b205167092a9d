---------------------------- MODULE OutboxProofs ----------------------------
(***************************************************************************)
(* Proofs about the path of a signal.  Outbox: for any number of messages  *)
(* and relays, any retry budget in 1..10, any batch size and any lease and *)
(* retry delay.  KindConcurrency: for any number of executions and kinds,  *)
(* any limits and any sharing of task ids between duplicates of a signal.  *)
(***************************************************************************)
EXTENDS Outbox, KindConcurrency, FiniteSetTheorems, TLAPS

USE DEF Final, NoToken, NoOwner, Idle

\* What the table alone satisfies, relative to the tokens issued and the copies
\* pushed.
RowOK(m) ==
    /\ rows[m].attempts <= MaxAttempts[m]
    /\ rows[m].state = "absent" => rows[m].attempts = 0
    /\ rows[m].state # "leased" => rows[m].token = NoToken
    /\ rows[m].state = "leased" => rows[m].token \in 1..serial
    /\ rows[m].state = "pending" => rows[m].attempts < MaxAttempts[m]
    /\ rows[m].state = "action_required" => rows[m].attempts = MaxAttempts[m]
    /\ rows[m].state = "completed" => sent[m] > 0

\* A lease in a relay's memory was really handed out by a claim of its row.
LeaseOK(l) ==
    /\ l.token \in 1..serial
    /\ rows[l.msg].state # "absent"
    /\ l.attempts \in 1..rows[l.msg].attempts

\* The inductive invariant: the row facts the invariants are about need to know
\* that leases in hand are genuine (a stale one fails the compare-and-set) and
\* that a relay about to complete has pushed its signal.
IInv ==
    /\ TypeOK
    /\ \A m \in Messages : RowOK(m)
    /\ \A r \in Relays : \A l \in InHand(r) : LeaseOK(l)
    /\ \A r \in Relays : doing[r].phase = "complete" => sent[doing[r].lease.msg] > 0
    /\ OneLeasePerAttempt

-----------------------------------------------------------------------------
\* The doubling stays a natural number over the budgets the code admits.
LEMMA RetryDelayType ==
    ASSUME NEW n \in 1..10
    PROVE  RetryDelay(n) \in 0..RetryMax
<1>1. 2^0 \in Nat /\ 2^1 \in Nat /\ 2^2 \in Nat /\ 2^3 \in Nat /\ 2^4 \in Nat
  BY Z3
<1>2. 2^5 \in Nat /\ 2^6 \in Nat /\ 2^7 \in Nat /\ 2^8 \in Nat /\ 2^9 \in Nat
  BY Z3
<1>3. 2^(n - 1) \in Nat
  <2>1. \A k \in {0, 1, 2, 3, 4} : 2^k \in Nat
    BY <1>1, Zenon
  <2>2. \A k \in {5, 6, 7, 8, 9} : 2^k \in Nat
    BY <1>2, Zenon
  <2>3. n - 1 \in {0, 1, 2, 3, 4} \/ n - 1 \in {5, 6, 7, 8, 9}
    OBVIOUS
  <2> QED
    BY <2>1, <2>2, <2>3, Zenon
<1>4. \A x \in Nat : RetryInitial * x \in Nat
  BY OutboxAssumption
<1>5. RetryInitial * 2^(n - 1) \in Nat
  BY <1>3, <1>4
<1> QED
  BY <1>5, OutboxAssumption DEF RetryDelay

\* A complete or fail transaction that passes the check finds a leased row with
\* at least one attempt.
LEMMA CurrentRow ==
    ASSUME IInv, NEW r \in Relays, doing[r].phase \in {"complete", "fail"}
    PROVE  LET l == doing[r].lease IN
           /\ l \in Leases
           /\ l \in InHand(r)
           /\ LeaseOK(l)
           /\ RowOK(l.msg)
           /\ rows[l.msg] \in Rows
<1>1. doing[r] # Idle /\ doing[r] \in [phase : {"complete", "fail"}, lease : Leases]
  BY DEF IInv, TypeOK
<1> QED
  BY <1>1 DEF IInv, TypeOK, InHand, Leases

LEMMA InitIInv == Init => IInv
<1> SUFFICES ASSUME Init PROVE IInv
  OBVIOUS
<1>1. TypeOK
  BY DEF Init, TypeOK, Absent, Unleased, Rows
<1>2. \A r \in Relays : InHand(r) = {}
  BY DEF Init, InHand
<1> QED
  BY <1>1, <1>2, OutboxAssumption DEF Init, IInv, RowOK, Absent, Unleased, OneLeasePerAttempt

-----------------------------------------------------------------------------
LEMMA CreateStep ==
    ASSUME IInv, NEW m \in Messages, NEW d \in 0..RetryMax, Create(m, d)
    PROVE  IInv'
<1> DEFINE row == Unleased("pending", d, 0)
<1>0. /\ row \in Rows /\ row.attempts = 0 /\ row.token = 0 /\ row.state = "pending"
      /\ rows' = [rows EXCEPT ![m] = row]
      /\ UNCHANGED <<serial, batch, doing, sent>>
  BY OutboxAssumption DEF Unleased, Rows, Create
<1> HIDE DEF row
<1>1. TypeOK'
  BY <1>0 DEF IInv, TypeOK
<1>2. \A r \in Relays : InHand(r)' = InHand(r)
  BY DEF Create, InHand
<1>3. ASSUME NEW n \in Messages PROVE RowOK(n)'
  <2>1. CASE n = m
    <3>1. rows'[n] = row /\ MaxAttempts[n] \in 1..10
      BY <2>1, <1>0, OutboxAssumption DEF IInv, TypeOK
    <3> QED
      BY <3>1, <1>0 DEF RowOK
  <2>2. CASE n # m
    BY <2>2, <1>0 DEF IInv, TypeOK, RowOK
  <2> QED
    BY <2>1, <2>2
<1>4. \A r \in Relays : \A l \in InHand(r)' : LeaseOK(l)'
  <2> SUFFICES ASSUME NEW r \in Relays, NEW l \in InHand(r) PROVE LeaseOK(l)'
    BY <1>2
  <2>1. LeaseOK(l) /\ l.msg # m
    BY DEF IInv, LeaseOK, Create
  <2>2. l.msg \in Messages
    BY DEF IInv, TypeOK, InHand, Leases
  <2> QED
    BY <2>1, <2>2 DEF LeaseOK, Create, IInv, TypeOK
<1> QED
  BY <1>1, <1>2, <1>3, <1>4 DEF IInv, Create, OneLeasePerAttempt

LEMMA ClaimStep ==
    ASSUME IInv, NEW r \in Relays, Claim(r)
    PROVE  IInv'
<1> PICK S \in SUBSET Eligible :
        /\ rows' = [m \in Messages |->
                      IF m \in S THEN Leased(rows[m], r)
                      ELSE IF m \in ExpiredExhausted
                           THEN Unleased("action_required", rows[m].wait, rows[m].attempts)
                           ELSE rows[m]]
        /\ batch' = [batch EXCEPT ![r] =
                       {[msg |-> m, token |-> serial + 1,
                         attempts |-> rows[m].attempts + 1] : m \in S}]
        /\ serial' = IF S = {} THEN serial ELSE serial + 1
  BY DEF Claim
<1>0. /\ S \subseteq Messages
      /\ UNCHANGED <<doing, sent>>
      /\ doing[r] = Idle /\ batch[r] = {}
  BY DEF Eligible, Claim
<1>1. serial \in Nat /\ serial' \in Nat /\ serial <= serial' /\ (S # {} => serial' = serial + 1)
  BY DEF IInv, TypeOK
<1>2. \A m \in Messages : rows[m] \in Rows /\ RowOK(m)
  BY DEF IInv, TypeOK
<1>3. ASSUME NEW m \in S
      PROVE  /\ rows'[m].state = "leased"
             /\ rows'[m].token = serial + 1
             /\ rows'[m].attempts = rows[m].attempts + 1
             /\ rows'[m].attempts <= MaxAttempts[m]
             /\ rows'[m] \in Rows
             /\ serial' = serial + 1
  <2>1. rows'[m] = Leased(rows[m], r) /\ rows[m] \in Rows /\ serial' = serial + 1
    BY <1>0, <1>1, <1>2
  <2>2. rows[m].attempts < MaxAttempts[m] /\ MaxAttempts[m] \in 1..10
    BY <1>0, OutboxAssumption DEF Eligible
  <2>3. Leased(rows[m], r) = [state |-> "leased", wait |-> rows[m].wait,
                              token |-> serial + 1, owner |-> r, ttl |-> LeaseTicks,
                              attempts |-> rows[m].attempts + 1]
    BY DEF Leased
  <2> QED
    BY <2>1, <2>2, <2>3, <1>1, OutboxAssumption DEF Rows
<1>4. \A m \in Messages \ S :
        /\ rows'[m] \in Rows
        /\ rows'[m].attempts = rows[m].attempts
        /\ rows'[m].state = "absent" <=> rows[m].state = "absent"
        /\ \/ rows'[m] = rows[m]
           \/ /\ rows'[m].state = "action_required"
              /\ rows'[m].token = NoToken
              /\ rows[m].attempts >= MaxAttempts[m]
  BY <1>2 DEF Unleased, Rows, ExpiredExhausted
<1>5. TypeOK'
  <2>1. rows' \in [Messages -> Rows]
    BY <1>3, <1>4
  <2>2. \A m \in S : [msg |-> m, token |-> serial + 1,
                      attempts |-> rows[m].attempts + 1] \in Leases
    BY <1>0, <1>1, <1>2 DEF Leases, Rows
  <2>3. batch' \in [Relays -> SUBSET Leases]
    BY <2>2 DEF IInv, TypeOK
  <2> QED
    BY <2>1, <2>3, <1>0, <1>1 DEF IInv, TypeOK
<1>6. ASSUME NEW m \in Messages PROVE RowOK(m)'
  <2>1. CASE m \in S
    <3>1. /\ rows'[m].state = "leased" /\ rows'[m].token = serial + 1
          /\ rows'[m].attempts <= MaxAttempts[m] /\ serial' = serial + 1
      BY <2>1, <1>3
    <3> QED
      BY <3>1, <1>1 DEF RowOK
  <2>2. CASE m \notin S
    BY <2>2, <1>0, <1>1, <1>2, <1>4, OutboxAssumption DEF RowOK, Rows
  <2> QED
    BY <2>1, <2>2
<1>7. /\ InHand(r)' = {[msg |-> m, token |-> serial + 1,
                        attempts |-> rows[m].attempts + 1] : m \in S}
      /\ \A q \in Relays \ {r} : InHand(q)' = InHand(q)
  BY <1>0 DEF InHand, IInv, TypeOK
<1>8. \A q \in Relays : \A l \in InHand(q) :
        l \in Leases /\ LeaseOK(l) /\ l.attempts < rows[l.msg].attempts + 1
  BY <1>2 DEF IInv, TypeOK, InHand, LeaseOK, Leases, Rows
<1>9. ASSUME NEW q \in Relays, NEW l \in InHand(q)' PROVE LeaseOK(l)'
  <2>1. CASE q = r
    <3>1. PICK m \in S : l = [msg |-> m, token |-> serial + 1,
                              attempts |-> rows[m].attempts + 1]
      BY <2>1, <1>7
    <3>2. rows'[m].state = "leased" /\ rows'[m].attempts = rows[m].attempts + 1
          /\ serial' = serial + 1 /\ rows[m].attempts \in Nat
      BY <1>0, <1>2, <1>3 DEF Rows
    <3> QED
      BY <3>1, <3>2, <1>1 DEF LeaseOK
  <2>2. CASE q # r
    <3>1. l \in Leases /\ LeaseOK(l) /\ l.msg \in Messages
      BY <2>2, <1>7, <1>8 DEF Leases
    <3>2. rows'[l.msg].state # "absent" /\ rows'[l.msg].attempts >= rows[l.msg].attempts
      <4>1. CASE l.msg \in S
        <5>1. /\ rows'[l.msg].state = "leased"
              /\ rows'[l.msg].attempts = rows[l.msg].attempts + 1
          BY <4>1, <1>3
        <5>2. rows[l.msg].attempts \in Nat
          BY <3>1, <1>2 DEF Rows
        <5> QED
          BY <5>1, <5>2
      <4>2. CASE l.msg \notin S
        BY <4>2, <3>1, <1>2, <1>4 DEF LeaseOK, Rows
      <4> QED
        BY <4>1, <4>2
    <3>3. rows'[l.msg] \in Rows
      BY <3>1, <1>3, <1>4
    <3> QED
      BY <3>1, <3>2, <3>3, <1>1, <1>2 DEF LeaseOK, Leases, Rows
  <2> QED
    BY <2>1, <2>2
<1>10. OneLeasePerAttempt'
  <2> SUFFICES ASSUME NEW r1 \in Relays, NEW r2 \in Relays,
                      NEW l1 \in InHand(r1)', NEW l2 \in InHand(r2)',
                      l1.msg = l2.msg, l1.attempts = l2.attempts
               PROVE  r1 = r2 /\ l1 = l2
    BY DEF OneLeasePerAttempt
  <2>1. CASE r1 = r /\ r2 = r
    BY <2>1, <1>7
  <2>2. CASE r1 = r /\ r2 # r
    <3>1. l1.attempts = rows[l1.msg].attempts + 1
      BY <2>2, <1>7
    <3>2. l2.attempts < rows[l2.msg].attempts + 1 /\ l2.attempts \in Nat
      BY <2>2, <1>7, <1>8 DEF Leases
    <3> QED
      BY <3>1, <3>2
  <2>3. CASE r1 # r /\ r2 = r
    <3>1. l2.attempts = rows[l2.msg].attempts + 1
      BY <2>3, <1>7
    <3>2. l1.attempts < rows[l1.msg].attempts + 1 /\ l1.attempts \in Nat
      BY <2>3, <1>7, <1>8 DEF Leases
    <3> QED
      BY <3>1, <3>2
  <2>4. CASE r1 # r /\ r2 # r
    BY <2>4, <1>7 DEF IInv, OneLeasePerAttempt
  <2> QED
    BY <2>1, <2>2, <2>3, <2>4
<1> QED
  BY <1>0, <1>5, <1>6, <1>9, <1>10 DEF IInv

\* Publishing, successfully or not, moves a lease from the batch to `doing`
\* and only adds copies.
LEMMA PublishStep ==
    ASSUME IInv, NEW r \in Relays, Publish(r) \/ PublishFails(r)
    PROVE  IInv'
<1> PICK l \in batch[r], pushed \in {0, 1}, ph \in {"complete", "fail"} :
        /\ ph = "complete" => pushed = 1
        /\ sent' = [sent EXCEPT ![l.msg] = @ + pushed]
        /\ batch' = [batch EXCEPT ![r] = @ \ {l}]
        /\ doing' = [doing EXCEPT ![r] = [phase |-> ph, lease |-> l]]
  <2>1. CASE Publish(r)
    BY <2>1 DEF Publish
  <2>2. CASE PublishFails(r)
    BY <2>2 DEF PublishFails
  <2> QED
    BY <2>1, <2>2
<1>0. UNCHANGED <<rows, serial>> /\ doing[r] = Idle
  BY DEF Publish, PublishFails
<1>1. l \in Leases /\ l \in InHand(r) /\ l.msg \in Messages
  BY DEF IInv, TypeOK, InHand, Leases
<1>2. TypeOK'
  BY <1>0, <1>1 DEF IInv, TypeOK
<1>3. \A q \in Relays : InHand(q)' \subseteq InHand(q)
  BY <1>0, <1>1 DEF InHand, IInv, TypeOK
<1>4. \A m \in Messages : sent'[m] >= sent[m] /\ sent[m] \in Nat /\ sent'[m] \in Nat
  BY <1>1 DEF IInv, TypeOK
<1>5. \A m \in Messages : RowOK(m)'
  BY <1>0, <1>4 DEF IInv, RowOK
<1>6. \A q \in Relays : \A k \in InHand(q)' : LeaseOK(k)'
  BY <1>0, <1>3 DEF IInv, LeaseOK
<1>7. ASSUME NEW q \in Relays, doing'[q].phase = "complete"
      PROVE  sent'[doing'[q].lease.msg] > 0
  <2>1. CASE q = r
    BY <2>1, <1>1, <1>7 DEF IInv, TypeOK
  <2>2. CASE q # r
    <3>1. doing'[q] = doing[q] /\ sent[doing[q].lease.msg] > 0
      BY <2>2, <1>7 DEF IInv, TypeOK
    <3>2. doing[q].lease.msg \in Messages
      BY <3>1, <1>7, CurrentRow DEF Leases
    <3> QED
      BY <3>1, <3>2, <1>4
  <2> QED
    BY <2>1, <2>2
<1>8. OneLeasePerAttempt'
  BY <1>3 DEF IInv, OneLeasePerAttempt
<1> QED
  BY <1>2, <1>5, <1>6, <1>7, <1>8 DEF IInv

\* Ending the work on a lease, or losing it, only shrinks what is in memory.
LEMMA ReleaseHands ==
    ASSUME IInv, NEW r \in Relays,
           doing' = [doing EXCEPT ![r] = Idle],
           batch' = [batch EXCEPT ![r] = {}] \/ batch' = batch
    PROVE  /\ batch' \in [Relays -> SUBSET Leases]
           /\ doing' \in [Relays -> {Idle} \cup [phase : {"complete", "fail"}, lease : Leases]]
           /\ \A q \in Relays : InHand(q)' \subseteq InHand(q)
           /\ \A q \in Relays : doing'[q].phase = "complete" => doing'[q] = doing[q]
           /\ OneLeasePerAttempt'
<1>1. \A q \in Relays : InHand(q)' \subseteq InHand(q)
  BY DEF IInv, TypeOK, InHand
<1> QED
  BY <1>1 DEF IInv, TypeOK, OneLeasePerAttempt

\* Both finishing transactions put an unleased row in place of a current lease,
\* or leave a stale one alone.
LEMMA FinishStep ==
    ASSUME IInv, NEW r \in Relays, Complete(r) \/ Fail(r)
    PROVE  IInv'
<1> DEFINE l == doing[r].lease
<1>0. /\ UNCHANGED <<serial, batch, sent>>
      /\ doing[r].phase \in {"complete", "fail"}
      /\ doing' = [doing EXCEPT ![r] = Idle]
  BY DEF Complete, Fail
<1>1. /\ l \in Leases /\ l \in InHand(r) /\ LeaseOK(l)
      /\ RowOK(l.msg) /\ rows[l.msg] \in Rows /\ l.msg \in Messages
  BY <1>0, CurrentRow DEF Leases
<1>2. \/ rows' = rows
      \/ \E st \in {"pending", "action_required", "completed"}, w \in Nat :
            /\ rows' = [rows EXCEPT ![l.msg] = Unleased(st, w, rows[l.msg].attempts)]
            /\ st = "completed" => sent[l.msg] > 0
            /\ st = "pending" => rows[l.msg].attempts < MaxAttempts[l.msg]
            /\ st = "action_required" => rows[l.msg].attempts = MaxAttempts[l.msg]
  <2>1. CASE ~ StillMine(r, l)
    BY <2>1 DEF Complete, Fail
  <2>2. CASE StillMine(r, l) /\ Complete(r)
    <3>1. rows' = [rows EXCEPT ![l.msg] = Unleased("completed", @.wait, @.attempts)]
      BY <2>2 DEF Complete
    <3>2. sent[l.msg] > 0 /\ rows[l.msg].wait \in Nat
      BY <2>2, <1>1 DEF Complete, IInv, Rows
    <3>3. rows' = [rows EXCEPT ![l.msg] =
                     Unleased("completed", rows[l.msg].wait, rows[l.msg].attempts)]
      BY <3>1, <1>1 DEF IInv, TypeOK
    <3> QED
      BY <3>2, <3>3
  <2>3. CASE StillMine(r, l) /\ Fail(r)
    <3>1. rows[l.msg].attempts \in 1..10 /\ MaxAttempts[l.msg] \in 1..10
      BY <1>1, OutboxAssumption DEF LeaseOK, RowOK, Rows, Leases
    <3>2. RetryDelay(rows[l.msg].attempts) \in Nat
      BY <3>1, RetryDelayType, OutboxAssumption
    <3>3. CASE rows[l.msg].attempts >= MaxAttempts[l.msg]
      <4>1. rows' = [rows EXCEPT ![l.msg] =
                       Unleased("action_required", 0, rows[l.msg].attempts)]
        BY <2>3, <3>3 DEF Fail
      <4>2. rows[l.msg].attempts = MaxAttempts[l.msg]
        BY <1>1, <3>1, <3>3 DEF RowOK
      <4> QED
        BY <4>1, <4>2
    <3>4. CASE ~ rows[l.msg].attempts >= MaxAttempts[l.msg]
      <4>1. rows' = [rows EXCEPT ![l.msg] =
                       Unleased("pending", RetryDelay(rows[l.msg].attempts),
                                rows[l.msg].attempts)]
        BY <2>3, <3>4 DEF Fail
      <4>2. rows[l.msg].attempts < MaxAttempts[l.msg]
        BY <3>1, <3>4
      <4> QED
        BY <4>1, <4>2, <3>2
    <3> QED
      BY <3>3, <3>4
  <2> QED
    BY <2>1, <2>2, <2>3
<1>3. \A m \in Messages :
        /\ rows'[m] \in Rows
        /\ rows'[m].attempts = rows[m].attempts
        /\ rows'[m].state = "absent" <=> rows[m].state = "absent"
        /\ RowOK(m)'
  <2> SUFFICES ASSUME NEW m \in Messages
               PROVE  /\ rows'[m] \in Rows
                      /\ rows'[m].attempts = rows[m].attempts
                      /\ rows'[m].state = "absent" <=> rows[m].state = "absent"
                      /\ RowOK(m)'
    OBVIOUS
  <2>0. rows[m] \in Rows /\ RowOK(m)
    BY DEF IInv, TypeOK
  <2>1. CASE rows'[m] = rows[m]
    BY <2>0, <2>1, <1>0 DEF RowOK
  <2>2. CASE rows'[m] # rows[m]
    <3>1. m = l.msg
      BY <2>2, <1>2 DEF IInv, TypeOK
    <3>2. PICK st \in {"pending", "action_required", "completed"}, w \in Nat :
            /\ rows'[m] = Unleased(st, w, rows[m].attempts)
            /\ st = "completed" => sent[m] > 0
            /\ st = "pending" => rows[m].attempts < MaxAttempts[m]
            /\ st = "action_required" => rows[m].attempts = MaxAttempts[m]
      BY <2>2, <3>1, <1>1, <1>2 DEF IInv, TypeOK
    <3>3. rows[m].state # "absent" /\ rows[m].attempts \in Nat
      BY <2>0, <3>1, <1>1 DEF LeaseOK, Rows
    <3> QED
      BY <2>0, <3>2, <3>3, <1>0 DEF RowOK, Unleased, Rows
  <2> QED
    BY <2>1, <2>2
<1>4. TypeOK'
  <2>1. rows' \in [Messages -> Rows]
    BY <1>2, <1>3 DEF IInv, TypeOK
  <2> QED
    BY <2>1, <1>0, ReleaseHands DEF IInv, TypeOK
<1>5. \A q \in Relays : \A k \in InHand(q)' : LeaseOK(k)'
  <2> SUFFICES ASSUME NEW q \in Relays, NEW k \in InHand(q)' PROVE LeaseOK(k)'
    OBVIOUS
  <2>1. k \in InHand(q) /\ LeaseOK(k)
    BY <1>0, ReleaseHands DEF IInv
  <2>2. k.msg \in Messages
    BY <2>1 DEF IInv, TypeOK, InHand, Leases
  <2> QED
    BY <2>1, <2>2, <1>0, <1>3 DEF LeaseOK
<1> QED
  BY <1>0, <1>3, <1>4, <1>5, ReleaseHands DEF IInv

LEMMA CrashStep ==
    ASSUME IInv, NEW r \in Relays, Crash(r)
    PROVE  IInv'
<1>1. /\ UNCHANGED <<rows, serial, sent>>
      /\ doing' = [doing EXCEPT ![r] = Idle]
      /\ batch' = [batch EXCEPT ![r] = {}]
  BY DEF Crash
<1>2. TypeOK'
  BY <1>1, ReleaseHands DEF IInv, TypeOK
<1> QED
  BY <1>1, <1>2, ReleaseHands DEF IInv, RowOK, LeaseOK

LEMMA TickStep ==
    ASSUME IInv, Tick
    PROVE  IInv'
<1>1. \A m \in Messages :
        /\ rows'[m] \in Rows
        /\ rows'[m].state = rows[m].state
        /\ rows'[m].attempts = rows[m].attempts
        /\ rows'[m].token = rows[m].token
  <2> SUFFICES ASSUME NEW m \in Messages
               PROVE  /\ rows'[m] \in Rows
                      /\ rows'[m].state = rows[m].state
                      /\ rows'[m].attempts = rows[m].attempts
                      /\ rows'[m].token = rows[m].token
    OBVIOUS
  <2>1. rows[m] \in Rows
    BY DEF IInv, TypeOK
  <2>2. rows'[m] = [[rows[m] EXCEPT !.wait = Countdown(rows[m].wait)]
                     EXCEPT !.ttl = Countdown(rows[m].ttl)]
    BY <2>1 DEF Tick, Rows
  <2>3. Countdown(rows[m].wait) \in Nat /\ Countdown(rows[m].ttl) \in Nat
    BY <2>1 DEF Countdown, Rows
  <2> QED
    BY <2>1, <2>2, <2>3 DEF Rows
<1>2. UNCHANGED <<serial, batch, doing, sent>> /\ rows' \in [Messages -> Rows]
  BY <1>1 DEF Tick
<1>3. \A q \in Relays : InHand(q)' = InHand(q)
  BY <1>2 DEF InHand
<1>4. ASSUME NEW q \in Relays, NEW k \in InHand(q) PROVE LeaseOK(k)' /\ k.msg \in Messages
  <2>1. k.msg \in Messages /\ LeaseOK(k)
    BY DEF IInv, TypeOK, InHand, Leases
  <2> QED
    BY <2>1, <1>1, <1>2 DEF LeaseOK
<1>5. TypeOK' /\ \A m \in Messages : RowOK(m)'
  BY <1>1, <1>2 DEF IInv, TypeOK, RowOK
<1> QED
  BY <1>2, <1>3, <1>4, <1>5 DEF IInv, OneLeasePerAttempt

\* The invariant is inductive.
LEMMA StepIInv == IInv /\ [Next]_vars => IInv'
<1> SUFFICES ASSUME IInv, [Next]_vars PROVE IInv'
  OBVIOUS
<1>1. ASSUME NEW m \in Messages, NEW d \in 0..RetryMax, Create(m, d) PROVE IInv'
  BY <1>1, CreateStep
<1>2. ASSUME NEW r \in Relays, Claim(r) PROVE IInv'
  BY <1>2, ClaimStep
<1>3. ASSUME NEW r \in Relays, Publish(r) \/ PublishFails(r) PROVE IInv'
  BY <1>3, PublishStep
<1>4. ASSUME NEW r \in Relays, Complete(r) \/ Fail(r) PROVE IInv'
  BY <1>4, FinishStep
<1>5. ASSUME NEW r \in Relays, Crash(r) PROVE IInv'
  BY <1>5, CrashStep
<1>6. CASE Tick
  BY <1>6, TickStep
<1>7. CASE UNCHANGED vars
  BY <1>7 DEF vars, IInv, TypeOK, RowOK, LeaseOK, InHand, OneLeasePerAttempt
<1> QED
  BY <1>1, <1>2, <1>3, <1>4, <1>5, <1>6, <1>7 DEF Next

THEOREM Invariance == Spec => []IInv
  BY InitIInv, StepIInv, PTL DEF Spec, SafeSpec

-----------------------------------------------------------------------------
\* The columns, tokens and leases of every reachable state have their types.
THEOREM TypeCorrect == Spec => []TypeOK
<1>1. IInv => TypeOK
  BY DEF IInv
<1> QED
  BY <1>1, Invariance, PTL

\* At-least-once delivery to the queue: no row is marked completed unless its
\* signal was pushed.
THEOREM CompletedWasSent == Spec => []SettledMeansSent
<1>1. IInv => SettledMeansSent
  BY DEF IInv, RowOK, SettledMeansSent
<1> QED
  BY <1>1, Invariance, PTL

\* Every unfinished row stays within reach of one of the two claim queries.
THEOREM RowsStayReachable == Spec => []NeverStranded
<1>1. IInv => NeverStranded
  BY DEF IInv, RowOK, NeverStranded
<1> QED
  BY <1>1, Invariance, PTL

\* No attempt number of a row is leased to two relays.
THEOREM AttemptsAreExclusive == Spec => []OneLeasePerAttempt
<1>1. IInv => OneLeasePerAttempt
  BY DEF IInv
<1> QED
  BY <1>1, Invariance, PTL

-----------------------------------------------------------------------------
\* What a complete or fail transaction does to the table.
LEMMA FinishingWrites ==
    ASSUME IInv, NEW r \in Relays, Complete(r) \/ Fail(r)
    PROVE  \/ rows' = rows
           \/ \E m \in Messages : \E row :
                /\ rows[m].state = "leased"
                /\ rows' = [rows EXCEPT ![m] = row]
                /\ row.state \in {"pending", "action_required", "completed"}
                /\ row.state = "completed" => sent[m] > 0
<1> DEFINE l == doing[r].lease
<1>0. doing[r].phase \in {"complete", "fail"}
  BY DEF Complete, Fail
<1>1. l.msg \in Messages /\ rows[l.msg] \in Rows
  BY <1>0, CurrentRow DEF Leases
<1>2. CASE ~ StillMine(r, l)
  BY <1>2 DEF Complete, Fail
<1>3. CASE StillMine(r, l) /\ Complete(r)
  <2>1. rows' = [rows EXCEPT ![l.msg] =
                   Unleased("completed", rows[l.msg].wait, rows[l.msg].attempts)]
    BY <1>1, <1>3 DEF Complete, IInv, TypeOK
  <2>2. sent[l.msg] > 0
    BY <1>3 DEF Complete, IInv
  <2> QED
    <3>1. Unleased("completed", rows[l.msg].wait, rows[l.msg].attempts).state = "completed"
      BY DEF Unleased
    <3> QED
      BY <2>1, <2>2, <3>1, <1>1, <1>3 DEF StillMine
<1>4. CASE StillMine(r, l) /\ Fail(r)
  <2>1. \E st \in {"pending", "action_required"} : \E w :
          rows' = [rows EXCEPT ![l.msg] = Unleased(st, w, rows[l.msg].attempts)]
    BY <1>4 DEF Fail
  <2> QED
    BY <2>1, <1>1, <1>4 DEF StillMine, Unleased
<1> QED
  BY <1>2, <1>3, <1>4 DEF Complete, Fail

\* How each step can change the state of one row.
LEMMA StateChanges ==
    ASSUME IInv, [Next]_vars, NEW m \in Messages
    PROVE  \/ rows'[m].state = rows[m].state /\ rows'[m].attempts = rows[m].attempts
           \/ rows[m].state \notin Final
<1> SUFFICES ASSUME rows[m].state \in Final
             PROVE  rows'[m].state = rows[m].state /\ rows'[m].attempts = rows[m].attempts
  OBVIOUS
<1>0. rows[m] \in Rows
  BY DEF IInv, TypeOK
<1>1. ASSUME NEW n \in Messages, NEW d \in 0..RetryMax, Create(n, d)
      PROVE  rows'[m] = rows[m]
  BY <1>1 DEF Create, IInv, TypeOK
<1>2. ASSUME NEW r \in Relays, Claim(r)
      PROVE  rows'[m] = rows[m]
  BY <1>2 DEF Claim, Eligible, ExpiredExhausted
<1>3. ASSUME NEW r \in Relays, Publish(r) \/ PublishFails(r) \/ Crash(r)
      PROVE  rows'[m] = rows[m]
  BY <1>3 DEF Publish, PublishFails, Crash
<1>4. ASSUME NEW r \in Relays, Complete(r) \/ Fail(r)
      PROVE  rows'[m] = rows[m]
  BY <1>4, FinishingWrites DEF IInv, TypeOK
<1>5. CASE Tick
  BY <1>0, <1>5 DEF Tick, Rows
<1>6. CASE UNCHANGED vars
  BY <1>6 DEF vars
<1> QED
  BY <1>1, <1>2, <1>3, <1>4, <1>5, <1>6 DEF Next

\* A late relay never reopens, reclassifies or charges a finished row.
THEOREM FinishedStaysFinished == Spec => FinishedIsFinal
<1>1. IInv /\ [Next]_vars =>
        [\A m \in Messages :
            rows[m].state \in Final =>
                rows'[m].state = rows[m].state /\ rows'[m].attempts = rows[m].attempts]_vars
  BY StateChanges
<1> QED
  BY <1>1, Invariance, PTL DEF Spec, SafeSpec, FinishedIsFinal

-----------------------------------------------------------------------------
\* The mapped promise of each row state.
LEMMA PromisedStates ==
    /\ Promised("absent") = "none"
    /\ Promised("pending") = "owed" /\ Promised("leased") = "owed"
    /\ Promised("completed") = "settled"
    /\ Promised("action_required") = "parked"
BY DEF Promised

\* Table and relays implement the safety part of the durable promise: every step
\* owes, sends, settles or parks, or changes nothing the promise speaks of.
THEOREM ImplementsPromise == Spec => Promise!SafeSpec
<1> DEFINE p == [m \in Messages |-> Promised(rows[m].state)]
<1>1. Init => Promise!Init
  BY PromisedStates DEF Init, Promise!Init, Absent, Unleased
<1>2. IInv /\ [Next]_vars => [Promise!Next]_<<p, sent>>
  <2> SUFFICES ASSUME IInv, [Next]_vars PROVE [Promise!Next]_<<p, sent>>
    OBVIOUS
  <2>0. \A m \in Messages : rows[m] \in Rows
    BY DEF IInv, TypeOK
  <2>1. ASSUME NEW m \in Messages, NEW d \in 0..RetryMax, Create(m, d)
        PROVE  Promise!Owe(m)
    <3>1. /\ rows[m].state = "absent" /\ UNCHANGED sent
          /\ \A n \in Messages : rows'[n].state = IF n = m THEN "pending" ELSE rows[n].state
      BY <2>1 DEF Create, Unleased, IInv, TypeOK
    <3> QED
      BY <3>1, PromisedStates DEF Promise!Owe
  <2>2. ASSUME NEW r \in Relays, Claim(r)
        PROVE  \E S \in SUBSET Messages : Promise!Park(S)
    <3> DEFINE S == {m \in Messages : rows'[m].state = "action_required"
                                       /\ rows[m].state = "leased"}
    <3>1. UNCHANGED sent
          /\ \A m \in Messages \ S :
                \/ rows'[m] = rows[m]
                \/ rows'[m].state = "leased" /\ rows[m].state \in {"pending", "leased"}
      BY <2>2 DEF Claim, Eligible, ExpiredExhausted, Leased, Unleased
    <3>2. p' = [m \in Messages |-> IF m \in S THEN "parked" ELSE p[m]]
      BY <3>1, PromisedStates
    <3>3. \A m \in S : p[m] = "owed"
      BY PromisedStates
    <3> QED
      BY <3>1, <3>2, <3>3 DEF Promise!Park
  <2>3. ASSUME NEW r \in Relays, Publish(r) \/ PublishFails(r)
        PROVE  (\E m \in Messages : Promise!Send(m)) \/ UNCHANGED <<p, sent>>
    <3> PICK l \in batch[r], pushed \in {0, 1} : sent' = [sent EXCEPT ![l.msg] = @ + pushed]
      BY <2>3 DEF Publish, PublishFails
    <3>1. rows' = rows /\ doing[r] = Idle
      BY <2>3 DEF Publish, PublishFails
    <3>2. l.msg \in Messages /\ rows[l.msg].state # "absent" /\ sent[l.msg] \in Nat
      BY <3>1 DEF IInv, TypeOK, InHand, Leases, LeaseOK
    <3>3. p[l.msg] # "none"
      BY <2>0, <3>2, PromisedStates DEF Rows
    <3>4. CASE pushed = 1
      BY <3>1, <3>2, <3>3, <3>4 DEF Promise!Send
    <3>5. CASE pushed = 0
      BY <3>1, <3>2, <3>5 DEF IInv, TypeOK
    <3> QED
      BY <3>4, <3>5
  <2>4. ASSUME NEW r \in Relays, Complete(r) \/ Fail(r)
        PROVE  \/ \E m \in Messages : Promise!Settle(m)
               \/ \E S \in SUBSET Messages : Promise!Park(S)
               \/ UNCHANGED <<p, sent>>
    <3>0. UNCHANGED sent
      BY <2>4 DEF Complete, Fail
    <3>1. CASE rows' = rows
      BY <3>0, <3>1
    <3>2. CASE rows' # rows
      <4> PICK m \in Messages : \E row :
            /\ rows[m].state = "leased"
            /\ rows' = [rows EXCEPT ![m] = row]
            /\ row.state \in {"pending", "action_required", "completed"}
            /\ row.state = "completed" => sent[m] > 0
        BY <2>4, <3>2, FinishingWrites
      <4> PICK row :
            /\ rows[m].state = "leased"
            /\ rows' = [rows EXCEPT ![m] = row]
            /\ row.state \in {"pending", "action_required", "completed"}
            /\ row.state = "completed" => sent[m] > 0
        OBVIOUS
      <4>1. /\ p[m] = "owed"
            /\ \A n \in Messages : p'[n] = IF n = m THEN Promised(row.state) ELSE p[n]
        BY PromisedStates DEF IInv, TypeOK
      <4>2. CASE row.state = "pending"
        BY <3>0, <4>1, <4>2, PromisedStates
      <4>3. CASE row.state = "action_required"
        <5>1. Promise!Park({m})
          BY <3>0, <4>1, <4>3, PromisedStates DEF Promise!Park
        <5> QED
          BY <5>1
      <4>4. CASE row.state = "completed"
        <5>1. p[m] = "owed" /\ sent[m] > 0
          BY <4>1, <4>4
        <5>2. p' = [p EXCEPT ![m] = "settled"]
          BY <4>1, <4>4, PromisedStates
        <5>3. Promise!Settle(m)
          BY <3>0, <5>1, <5>2 DEF Promise!Settle
        <5> QED
          BY <5>3
      <4> QED
        BY <4>2, <4>3, <4>4
    <3> QED
      BY <3>1, <3>2
  <2>5. ASSUME NEW r \in Relays, Crash(r) PROVE UNCHANGED <<p, sent>>
    BY <2>5 DEF Crash
  <2>6. CASE Tick
    BY <2>0, <2>6 DEF Tick, Rows
  <2>7. CASE UNCHANGED vars
    BY <2>7 DEF vars
  <2> QED
    BY <2>1, <2>2, <2>3, <2>4, <2>5, <2>6, <2>7 DEF Next, Promise!Next
<1> QED
  BY <1>1, <1>2, Invariance, PTL DEF Spec, SafeSpec, Promise!SafeSpec

-----------------------------------------------------------------------------
\* The attempts of m that are leased and not published yet.
Unpublished(m) == {n \in Nat : \E r \in Relays : \E l \in batch[r] : l.msg = m /\ l.attempts = n}

\* The counting invariant behind DuplicatesBounded: every copy that was pushed
\* and every lease that may still push one has an attempt of its own.
CopiesPaid == \A m \in Messages : sent[m] + Cardinality(Unpublished(m)) <= rows[m].attempts

\* The leased attempts of a row are among those it has counted.
LEMMA UnpublishedFinite ==
    ASSUME IInv, NEW m \in Messages
    PROVE  /\ IsFiniteSet(Unpublished(m))
           /\ Cardinality(Unpublished(m)) \in Nat
<1>1. rows[m].attempts \in Nat
  BY DEF IInv, TypeOK, Rows
<1>2. Unpublished(m) \subseteq 1..rows[m].attempts
  BY <1>1 DEF Unpublished, IInv, TypeOK, InHand, LeaseOK
<1>3. IsFiniteSet(1..rows[m].attempts)
  BY <1>1, FS_Interval
<1>4. IsFiniteSet(Unpublished(m))
  BY <1>2, <1>3, FS_Subset
<1> QED
  BY <1>4, FS_CardinalityType

\* A row pays for what is pushed and leased in a step when its leased attempts
\* stay the same or fewer and its copies and counted attempts do not change.
LEMMA RowUndisturbed ==
    ASSUME IInv, CopiesPaid, NEW m \in Messages,
           Unpublished(m)' \subseteq Unpublished(m),
           sent'[m] = sent[m], rows'[m].attempts = rows[m].attempts
    PROVE  sent'[m] + Cardinality(Unpublished(m)') <= rows'[m].attempts
<1> DEFINE U == Unpublished(m)
           V == Unpublished(m)'
<1>1. IsFiniteSet(U) /\ Cardinality(U) \in Nat
  BY UnpublishedFinite
<1>2. V \in SUBSET U
  OBVIOUS
<1>3. sent[m] + Cardinality(U) <= rows[m].attempts
  BY DEF CopiesPaid
<1>4. sent[m] \in Nat /\ rows[m].attempts \in Nat
  BY DEF IInv, TypeOK, Rows
<1> HIDE DEF U, V
<1>5. IsFiniteSet(V) /\ Cardinality(V) <= Cardinality(U)
  BY <1>1, <1>2, FS_Subset
<1>6. Cardinality(V) \in Nat
  BY <1>5, FS_CardinalityType
<1>7. sent[m] + Cardinality(V) <= rows[m].attempts
  BY <1>1, <1>3, <1>4, <1>5, <1>6
<1> QED
  BY <1>7 DEF V

\* Claiming counts the attempt it leases.
LEMMA ClaimPays ==
    ASSUME IInv, CopiesPaid, NEW r \in Relays, Claim(r)
    PROVE  CopiesPaid'
<1> PICK S \in SUBSET Eligible :
        /\ rows' = [m \in Messages |->
                      IF m \in S THEN Leased(rows[m], r)
                      ELSE IF m \in ExpiredExhausted
                           THEN Unleased("action_required", rows[m].wait, rows[m].attempts)
                           ELSE rows[m]]
        /\ batch' = [batch EXCEPT ![r] =
                       {[msg |-> m, token |-> serial + 1,
                         attempts |-> rows[m].attempts + 1] : m \in S}]
  BY DEF Claim
<1>1. UNCHANGED sent /\ batch[r] = {}
  BY DEF Claim
<1>2. \A o \in Relays : \A l \in batch'[o] :
        \/ l \in batch[o]
        \/ \E n \in S : l.msg = n /\ l.attempts = rows[n].attempts + 1
  BY DEF IInv, TypeOK
<1> SUFFICES ASSUME NEW m \in Messages
             PROVE  sent'[m] + Cardinality(Unpublished(m)') <= rows'[m].attempts
  BY DEF CopiesPaid
<1> DEFINE U == Unpublished(m)
           V == Unpublished(m)'
           k == rows[m].attempts
<1>3. CASE m \in S
  <2>1. rows'[m].attempts = k + 1
    BY <1>3 DEF Leased
  <2>2. V \in SUBSET (U \cup {k + 1})
    BY <1>2 DEF Unpublished
  <2>3. IsFiniteSet(U) /\ Cardinality(U) \in Nat
    BY UnpublishedFinite
  <2>4. sent[m] + Cardinality(U) <= k /\ sent[m] \in Nat /\ k \in Nat
    BY DEF CopiesPaid, IInv, TypeOK, Rows
  <2> HIDE DEF U, V, k
  <2>5. /\ IsFiniteSet(U \cup {k + 1})
        /\ Cardinality(U \cup {k + 1}) \in Nat
        /\ Cardinality(U \cup {k + 1}) <= Cardinality(U) + 1
    <3>1. /\ IsFiniteSet(U \cup {k + 1})
          /\ Cardinality(U \cup {k + 1}) =
                IF k + 1 \in U THEN Cardinality(U) ELSE Cardinality(U) + 1
      BY <2>3, FS_AddElement, Zenon
    <3> QED
      BY <2>3, <3>1
  <2>6. IsFiniteSet(V) /\ Cardinality(V) <= Cardinality(U \cup {k + 1})
    BY <2>2, <2>5, FS_Subset
  <2>7. Cardinality(V) \in Nat
    BY <2>6, FS_CardinalityType
  <2>8. sent[m] + Cardinality(V) <= k + 1
    BY <2>3, <2>4, <2>5, <2>6, <2>7
  <2> QED
    BY <1>1, <2>1, <2>8 DEF V
<1>4. CASE m \notin S
  <2>1. rows'[m].attempts = rows[m].attempts
    BY <1>4 DEF Unleased
  <2>2. Unpublished(m)' \subseteq Unpublished(m)
    BY <1>2, <1>4 DEF Unpublished
  <2> QED
    BY <1>1, <2>1, <2>2, RowUndisturbed
<1> QED
  BY <1>3, <1>4

\* A relay that publishes, or fails to, gives up the attempt it may have used:
\* no other lease in memory has its number.
LEMMA PublishPays ==
    ASSUME IInv, CopiesPaid, NEW r \in Relays, Publish(r) \/ PublishFails(r)
    PROVE  CopiesPaid'
<1> PICK l \in batch[r], pushed \in {0, 1} :
        /\ sent' = [sent EXCEPT ![l.msg] = @ + pushed]
        /\ batch' = [batch EXCEPT ![r] = @ \ {l}]
  BY DEF Publish, PublishFails
<1>1. UNCHANGED rows
  BY DEF Publish, PublishFails
<1>2. l \in Leases /\ batch \in [Relays -> SUBSET Leases]
  BY DEF IInv, TypeOK
<1>3. \A o \in Relays : \A x \in batch'[o] : x \in batch[o] /\ (o = r => x # l)
  BY <1>2
<1> SUFFICES ASSUME NEW m \in Messages
             PROVE  sent'[m] + Cardinality(Unpublished(m)') <= rows'[m].attempts
  BY DEF CopiesPaid
<1> DEFINE U == Unpublished(m)
           V == Unpublished(m)'
           k == l.attempts
<1>4. CASE m = l.msg
  <2>1. k \in U
    BY <1>2, <1>4 DEF Unpublished, Leases
  <2>2. V \in SUBSET (U \ {k})
    <3>1. SUFFICES ASSUME NEW o \in Relays, NEW x \in batch'[o], x.msg = m, x.attempts = k
                   PROVE  FALSE
      BY <1>3 DEF Unpublished
    <3>2. x \in InHand(o) /\ l \in InHand(r)
      BY <3>1, <1>3 DEF InHand
    <3>3. o = r /\ x = l
      BY <3>1, <3>2, <1>4 DEF IInv, OneLeasePerAttempt
    <3> QED
      BY <3>1, <3>3, <1>3
  <2>3. IsFiniteSet(U) /\ Cardinality(U) \in Nat
    BY UnpublishedFinite
  <2>4. sent[m] + Cardinality(U) <= rows[m].attempts
    BY DEF CopiesPaid
  <2>5. sent[m] \in Nat /\ rows[m].attempts \in Nat /\ sent'[m] = sent[m] + pushed
    BY <1>4 DEF IInv, TypeOK, Rows
  <2> HIDE DEF U, V, k
  <2>6. IsFiniteSet(U \ {k}) /\ Cardinality(U \ {k}) = Cardinality(U) - 1
    BY <2>1, <2>3, FS_RemoveElement
  <2>7. IsFiniteSet(V) /\ Cardinality(V) <= Cardinality(U \ {k})
    BY <2>2, <2>6, FS_Subset
  <2>8. Cardinality(V) \in Nat
    BY <2>7, FS_CardinalityType
  <2>9. sent'[m] + Cardinality(V) <= rows[m].attempts
    BY <2>3, <2>4, <2>5, <2>6, <2>7, <2>8
  <2> QED
    BY <1>1, <2>9 DEF V
<1>5. CASE m # l.msg
  <2>1. sent'[m] = sent[m]
    BY <1>5 DEF IInv, TypeOK
  <2>2. Unpublished(m)' \subseteq Unpublished(m)
    BY <1>3 DEF Unpublished
  <2> QED
    BY <1>1, <2>1, <2>2, RowUndisturbed
<1> QED
  BY <1>4, <1>5

\* The other steps neither push nor lease, and no column of attempts changes.
LEMMA OthersPay ==
    ASSUME IInv, CopiesPaid, UNCHANGED sent,
           \A o \in Relays : batch'[o] \subseteq batch[o],
           \A m \in Messages : rows'[m].attempts = rows[m].attempts
    PROVE  CopiesPaid'
<1> SUFFICES ASSUME NEW m \in Messages
             PROVE  sent'[m] + Cardinality(Unpublished(m)') <= rows'[m].attempts
  BY DEF CopiesPaid
<1>1. Unpublished(m)' \subseteq Unpublished(m)
  BY DEF Unpublished
<1> QED
  BY <1>1, RowUndisturbed

LEMMA InitPaid == Init => CopiesPaid
<1> SUFFICES ASSUME Init, NEW m \in Messages
             PROVE  sent[m] + Cardinality(Unpublished(m)) <= rows[m].attempts
  BY DEF CopiesPaid
<1>1. Unpublished(m) = {}
  BY DEF Init, Unpublished
<1>2. Cardinality(Unpublished(m)) = 0
  BY <1>1, FS_EmptySet
<1> QED
  BY <1>2 DEF Init, Absent, Unleased

LEMMA StepPaid == IInv /\ CopiesPaid /\ [Next]_vars => CopiesPaid'
<1> SUFFICES ASSUME IInv, CopiesPaid, [Next]_vars
             PROVE  CopiesPaid'
  OBVIOUS
<1>1. ASSUME NEW m \in Messages, NEW d \in 0..RetryMax, Create(m, d)
      PROVE  CopiesPaid'
  <2>1. rows[m].attempts = 0
    BY <1>1 DEF Create, IInv, RowOK
  <2>2. \A n \in Messages : rows'[n].attempts = rows[n].attempts
    BY <1>1, <2>1 DEF Create, IInv, TypeOK, Unleased
  <2> QED
    BY <1>1, <2>2, OthersPay DEF Create
<1>2. ASSUME NEW r \in Relays, Claim(r) PROVE CopiesPaid'
  BY <1>2, ClaimPays
<1>3. ASSUME NEW r \in Relays, Publish(r) \/ PublishFails(r) PROVE CopiesPaid'
  BY <1>3, PublishPays
<1>4. ASSUME NEW r \in Relays, Complete(r) PROVE CopiesPaid'
  <2>1. \A n \in Messages : rows'[n].attempts = rows[n].attempts
    BY <1>4 DEF Complete, IInv, TypeOK, Unleased
  <2> QED
    BY <1>4, <2>1, OthersPay DEF Complete
<1>5. ASSUME NEW r \in Relays, Fail(r) PROVE CopiesPaid'
  <2>1. \A n \in Messages : rows'[n].attempts = rows[n].attempts
    BY <1>5 DEF Fail, IInv, TypeOK, Unleased
  <2> QED
    BY <1>5, <2>1, OthersPay DEF Fail
<1>6. ASSUME NEW r \in Relays, Crash(r) PROVE CopiesPaid'
  <2>1. \A o \in Relays : batch'[o] \subseteq batch[o]
    BY <1>6 DEF Crash, IInv, TypeOK
  <2> QED
    BY <1>6, <2>1, OthersPay DEF Crash
<1>7. CASE Tick
  <2>1. \A n \in Messages : rows'[n].attempts = rows[n].attempts
    BY <1>7 DEF Tick, IInv, TypeOK, Rows
  <2> QED
    BY <1>7, <2>1, OthersPay DEF Tick
<1>8. CASE UNCHANGED vars
  BY <1>8, OthersPay DEF vars
<1> QED
  BY <1>1, <1>2, <1>3, <1>4, <1>5, <1>6, <1>7, <1>8 DEF Next

\* Duplicates of a signal are bounded by the attempts of its row and by its
\* budget, whatever relays crashed, lost their lease or published late.
THEOREM DuplicatesAreBounded == Spec => []DuplicatesBounded
<1>1. IInv /\ CopiesPaid => DuplicatesBounded
  <2> SUFFICES ASSUME IInv, CopiesPaid, NEW m \in Messages
               PROVE  sent[m] <= rows[m].attempts /\ sent[m] <= MaxAttempts[m]
    BY DEF DuplicatesBounded
  <2>1. Cardinality(Unpublished(m)) \in Nat
    BY UnpublishedFinite
  <2>2. sent[m] + Cardinality(Unpublished(m)) <= rows[m].attempts
    BY DEF CopiesPaid
  <2>3. sent[m] \in Nat /\ rows[m].attempts \in Nat /\ rows[m].attempts <= MaxAttempts[m]
    BY DEF IInv, TypeOK, Rows, RowOK
  <2>4. MaxAttempts[m] \in Nat
    BY OutboxAssumption
  <2> QED
    BY <2>1, <2>2, <2>3, <2>4
<1> QED
  BY <1>1, InitPaid, StepPaid, Invariance, PTL DEF Spec, SafeSpec

-----------------------------------------------------------------------------
(* The worker that runs the tasks the signals name, KindConcurrency.       *)

\* The task ids whose entry is a slot of kind k.
Entered(k) == {t \in TaskIds : claimed[t] = k}

\* What a kind may still hand out and what it can still get back never exceed its
\* configured limit.
SlotsNeverGrow ==
    \A k \in Kinds : IsFiniteSet(Entered(k)) /\ free[k] + Cardinality(Entered(k)) <= Limit[k]

\* Duplicates of one signal are not between admission and conclusion at once.
AloneInWorker ==
    \A d, e \in Executions :
        TaskId[d] = TaskId[e] /\ {phase[d], phase[e]} \subseteq {"running", "failed"} => d = e

\* Without overlapping duplicates, each entry is that of a running execution, and
\* each running execution has its entry.
SlotsIInv ==
    /\ SlotsTypeOK
    /\ \A e \in Executions : phase[e] = "running" => claimed[TaskId[e]] = Kind[e]
    /\ \A t \in TaskIds : claimed[t] # NoKind =>
         \E e \in Executions : TaskId[e] = t /\ phase[e] = "running"
    /\ \A k \in Kinds : IsFiniteSet(Running(k))
    /\ SlotsConserved

LEMMA InitSlotsTypeOK == SlotsInit => SlotsTypeOK
BY KindConcurrencyAssumption DEF SlotsInit, SlotsTypeOK

LEMMA StepSlotsTypeOK ==
    ASSUME SlotsTypeOK, [SlotsNext]_slotVars
    PROVE  SlotsTypeOK'
<1>1. ASSUME NEW e \in Executions, Receive(e) PROVE SlotsTypeOK'
  BY <1>1 DEF Receive, SlotsTypeOK
<1>2. ASSUME NEW e \in Executions, Acquire(e) PROVE SlotsTypeOK'
  <2>1. Kind[e] \in Kinds /\ free[Kind[e]] \in Nat /\ TaskId[e] \in TaskIds
    BY KindConcurrencyAssumption DEF SlotsTypeOK
  <2>2. free' \in [Kinds -> Nat]
    BY <1>2, <2>1 DEF Acquire, SlotsTypeOK
  <2>3. claimed' \in [TaskIds -> Kinds \cup {NoKind}]
    BY <1>2, <2>1 DEF Acquire, SlotsTypeOK
  <2> QED
    BY <1>2, <2>2, <2>3 DEF Acquire, SlotsTypeOK
<1>3. ASSUME NEW t \in TaskIds, ReleaseSlot(t)
      PROVE  free' \in [Kinds -> Nat] /\ claimed' \in [TaskIds -> Kinds \cup {NoKind}]
  BY <1>3 DEF ReleaseSlot, SlotsTypeOK
<1>4. ASSUME NEW e \in Executions, PostExecute(e) \/ OnError(e) \/ Conclude(e) PROVE SlotsTypeOK'
  <2>1. TaskId[e] \in TaskIds
    BY DEF TaskIds
  <2>2. free' \in [Kinds -> Nat] /\ claimed' \in [TaskIds -> Kinds \cup {NoKind}]
    BY <1>3, <1>4, <2>1 DEF PostExecute, OnError, Conclude
  <2>3. retries' \in [Executions -> 0..MaxRetries]
    BY <1>4, KindConcurrencyAssumption DEF PostExecute, OnError, Conclude, SlotsTypeOK
  <2> QED
    BY <1>4, <2>2, <2>3 DEF PostExecute, OnError, Conclude, SlotsTypeOK
<1>5. CASE UNCHANGED slotVars
  BY <1>5 DEF slotVars, SlotsTypeOK
<1> QED
  BY <1>1, <1>2, <1>4, <1>5 DEF SlotsNext

\* Every variable stays in its set, and no semaphore is ever negative, whether or
\* not task ids are shared.
THEOREM SlotsTypeCorrect == SlotsSpec => []SlotsTypeOK
BY InitSlotsTypeOK, StepSlotsTypeOK, PTL DEF SlotsSpec, SafeSlotsSpec

-----------------------------------------------------------------------------
\* A semaphore loses a unit, or gets one back, together with an entry.
LEMMA AcquireNeverGrows ==
    ASSUME SlotsTypeOK, SlotsNeverGrow, NEW e \in Executions, Acquire(e)
    PROVE  SlotsNeverGrow'
<1>1. Kind[e] \in Kinds /\ TaskId[e] \in TaskIds /\ Kind[e] # NoKind
  BY KindConcurrencyAssumption
<1>2. /\ claimed'[TaskId[e]] = Kind[e]
      /\ \A t \in TaskIds : t # TaskId[e] => claimed'[t] = claimed[t]
      /\ free'[Kind[e]] = free[Kind[e]] - 1
      /\ \A k \in Kinds : k # Kind[e] => free'[k] = free[k]
  BY <1>1 DEF Acquire, SlotsTypeOK
<1>3. ASSUME NEW k \in Kinds
      PROVE  IsFiniteSet(Entered(k)') /\ free'[k] + Cardinality(Entered(k)') <= Limit[k]
  <2> DEFINE S == Entered(k)
             t == TaskId[e]
  <2>1. /\ IsFiniteSet(S) /\ free[k] + Cardinality(S) <= Limit[k]
        /\ free[k] \in Nat /\ Cardinality(S) \in Nat /\ Limit[k] \in Nat
    BY FS_CardinalityType, KindConcurrencyAssumption DEF SlotsNeverGrow, SlotsTypeOK
  <2>2. CASE k = Kind[e]
    <3>1. Entered(k)' = S \cup {t}
      BY <1>1, <1>2, <2>2 DEF Entered
    <3>2. IsFiniteSet(S \cup {t}) /\ Cardinality(S \cup {t}) \in {Cardinality(S), Cardinality(S) + 1}
      BY <2>1, FS_AddElement, Zenon
    <3>3. free'[k] + Cardinality(S \cup {t}) <= Limit[k]
      BY <1>2, <2>1, <2>2, <3>2
    <3> QED
      BY <3>1, <3>2, <3>3, Zenon
  <2>3. CASE k # Kind[e]
    <3>1. Entered(k)' = S \ {t} /\ free'[k] = free[k]
      BY <1>1, <1>2, <2>3 DEF Entered
    <3>2. IsFiniteSet(S \ {t}) /\ Cardinality(S \ {t}) \in {Cardinality(S), Cardinality(S) - 1}
      BY <2>1, FS_RemoveElement, Zenon
    <3>3. free[k] + Cardinality(S \ {t}) <= Limit[k]
      BY <2>1, <3>2
    <3> QED
      BY <3>1, <3>2, <3>3, Zenon
  <2> QED
    BY <2>2, <2>3
<1> QED
  BY <1>3 DEF SlotsNeverGrow

LEMMA ReleaseNeverGrows ==
    ASSUME SlotsTypeOK, SlotsNeverGrow, NEW t \in TaskIds, ReleaseSlot(t)
    PROVE  SlotsNeverGrow'
<1>1. CASE claimed[t] = NoKind
  <2>1. UNCHANGED <<free, claimed>>
    BY <1>1 DEF ReleaseSlot, SlotsTypeOK
  <2> QED
    BY <2>1 DEF SlotsNeverGrow, Entered
<1>2. CASE claimed[t] # NoKind
  <2>1. /\ claimed[t] \in Kinds
        /\ claimed'[t] = NoKind /\ \A u \in TaskIds : u # t => claimed'[u] = claimed[u]
        /\ free'[claimed[t]] = free[claimed[t]] + 1
        /\ \A k \in Kinds : k # claimed[t] => free'[k] = free[k]
    BY <1>2 DEF ReleaseSlot, SlotsTypeOK
  <2>2. ASSUME NEW k \in Kinds
        PROVE  IsFiniteSet(Entered(k)') /\ free'[k] + Cardinality(Entered(k)') <= Limit[k]
    <3>1. /\ IsFiniteSet(Entered(k)) /\ free[k] + Cardinality(Entered(k)) <= Limit[k]
          /\ free[k] \in Nat /\ Cardinality(Entered(k)) \in Nat /\ Limit[k] \in Nat
      BY FS_CardinalityType, KindConcurrencyAssumption DEF SlotsNeverGrow, SlotsTypeOK
    <3>2. Entered(k)' = Entered(k) \ {t}
      BY <2>1, KindConcurrencyAssumption DEF Entered
    <3>3. CASE k = claimed[t]
      <4>1. t \in Entered(k)
        BY <3>3 DEF Entered
      <4>2. /\ IsFiniteSet(Entered(k) \ {t})
            /\ Cardinality(Entered(k) \ {t}) = Cardinality(Entered(k)) - 1
        BY <3>1, <4>1, FS_RemoveElement
      <4>3. free'[k] + Cardinality(Entered(k) \ {t}) <= Limit[k]
        BY <2>1, <3>1, <3>3, <4>2
      <4> QED
        BY <3>2, <4>2, <4>3, Zenon
    <3>4. CASE k # claimed[t]
      <4>1. Entered(k)' = Entered(k) /\ free'[k] = free[k]
        BY <2>1, <3>2, <3>4 DEF Entered
      <4> QED
        BY <3>1, <4>1
    <3> QED
      BY <3>3, <3>4
  <2> QED
    BY <2>2 DEF SlotsNeverGrow
<1> QED
  BY <1>1, <1>2

LEMMA StepNeverGrows ==
    ASSUME SlotsTypeOK, SlotsNeverGrow, [SlotsNext]_slotVars
    PROVE  SlotsNeverGrow'
<1>1. CASE UNCHANGED <<free, claimed>>
  BY <1>1 DEF SlotsNeverGrow, Entered
<1>2. ASSUME NEW e \in Executions, PostExecute(e) \/ OnError(e) \/ Conclude(e)
      PROVE  SlotsNeverGrow'
  BY <1>2, ReleaseNeverGrows DEF PostExecute, OnError, Conclude, TaskIds
<1>3. CASE UNCHANGED slotVars
  BY <1>1, <1>3 DEF slotVars
<1> QED
  BY <1>1, <1>2, <1>3, AcquireNeverGrows DEF SlotsNext, Receive

\* No hook returns a slot that was not taken: however duplicates of a signal share
\* an entry, fail, are retried and end twice, a semaphore never holds more than
\* the configured limit.
THEOREM SlotsAreNeverMinted == SlotsSpec => []SlotsNeverGrow
<1>1. SlotsInit => SlotsNeverGrow
  <2> SUFFICES ASSUME SlotsInit, NEW k \in Kinds
               PROVE  IsFiniteSet(Entered(k)) /\ free[k] + Cardinality(Entered(k)) <= Limit[k]
    BY DEF SlotsNeverGrow
  <2>1. Entered(k) = {}
    BY KindConcurrencyAssumption DEF SlotsInit, Entered
  <2>2. IsFiniteSet(Entered(k)) /\ Cardinality(Entered(k)) = 0
    BY <2>1, FS_EmptySet, Zenon
  <2> QED
    BY <2>2, KindConcurrencyAssumption DEF SlotsInit
<1>2. SlotsTypeOK /\ SlotsNeverGrow /\ [SlotsNext]_slotVars => SlotsNeverGrow'
  BY StepNeverGrows
<1> QED
  BY <1>1, <1>2, SlotsTypeCorrect, PTL DEF SlotsSpec, SafeSlotsSpec

-----------------------------------------------------------------------------
LEMMA InitSlotsIInv == SlotsInit => SlotsIInv
<1> SUFFICES ASSUME SlotsInit PROVE SlotsIInv
  OBVIOUS
<1>1. \A k \in Kinds : Running(k) = {}
  BY DEF SlotsInit, Running
<1>2. \A k \in Kinds : IsFiniteSet(Running(k)) /\ Cardinality(Running(k)) = 0
  BY <1>1, FS_EmptySet, Zenon
<1>3. \A k \in Kinds : Limit[k] \in Nat /\ free[k] = Limit[k]
  BY KindConcurrencyAssumption DEF SlotsInit
<1>4. SlotsConserved
  BY <1>2, <1>3 DEF SlotsConserved
<1>5. (\A t \in TaskIds : claimed[t] = NoKind) /\ (\A e \in Executions : phase[e] = "queued")
  BY DEF SlotsInit
<1> QED
  BY <1>2, <1>4, <1>5, InitSlotsTypeOK DEF SlotsIInv

\* A step after which the same executions run keeps the slots as they are.
LEMMA SameRunning ==
    ASSUME SlotsIInv, SlotsTypeOK', UNCHANGED <<free, claimed>>,
           \A e \in Executions : phase'[e] = "running" <=> phase[e] = "running"
    PROVE  SlotsIInv'
<1>1. \A k \in Kinds : Running(k)' = Running(k)
  BY DEF Running
<1> QED
  BY <1>1 DEF SlotsIInv, SlotsConserved

LEMMA AcquireStep ==
    ASSUME SlotsIInv, SlotsTypeOK', AloneInWorker', NEW e \in Executions, Acquire(e)
    PROVE  SlotsIInv'
<1>1. Kind[e] \in Kinds /\ TaskId[e] \in TaskIds /\ \A d \in Executions : TaskId[d] \in TaskIds
  BY KindConcurrencyAssumption
<1>2. /\ phase[e] = "waiting" /\ phase'[e] = "running"
      /\ \A d \in Executions : d # e => phase'[d] = phase[d]
      /\ claimed'[TaskId[e]] = Kind[e]
      /\ \A t \in TaskIds : t # TaskId[e] => claimed'[t] = claimed[t]
      /\ free'[Kind[e]] = free[Kind[e]] - 1
      /\ \A k \in Kinds : k # Kind[e] => free'[k] = free[k]
  BY <1>1 DEF Acquire, SlotsIInv, SlotsTypeOK
<1>3. \A d \in Executions : phase'[d] = "running" => d = e \/ TaskId[d] # TaskId[e]
  BY <1>2 DEF AloneInWorker
<1>5. \A d \in Executions : phase'[d] = "running" => claimed'[TaskId[d]] = Kind[d]
  BY <1>1, <1>2, <1>3 DEF SlotsIInv
<1>6. \A t \in TaskIds : claimed'[t] # NoKind =>
        \E d \in Executions : TaskId[d] = t /\ phase'[d] = "running"
  BY <1>1, <1>2 DEF SlotsIInv
<1>4. ASSUME NEW k \in Kinds
      PROVE  IsFiniteSet(Running(k)') /\ free'[k] + Cardinality(Running(k)') = Limit[k]
  <2>1. /\ IsFiniteSet(Running(k)) /\ free[k] + Cardinality(Running(k)) = Limit[k]
        /\ free[k] \in Nat /\ Cardinality(Running(k)) \in Nat
    BY FS_CardinalityType DEF SlotsIInv, SlotsConserved, SlotsTypeOK
  <2>2. CASE k = Kind[e]
    <3>1. Running(k)' = Running(k) \cup {e} /\ e \notin Running(k)
      BY <1>2, <2>2 DEF Running
    <3>2. /\ IsFiniteSet(Running(k) \cup {e})
          /\ Cardinality(Running(k) \cup {e}) = Cardinality(Running(k)) + 1
      BY <2>1, <3>1, FS_AddElement
    <3>3. free'[k] + Cardinality(Running(k) \cup {e}) = Limit[k]
      BY <1>2, <2>1, <2>2, <3>2
    <3> QED
      BY <3>1, <3>2, <3>3, Zenon
  <2>3. CASE k # Kind[e]
    <3>1. Running(k)' = Running(k) /\ free'[k] = free[k]
      BY <1>2, <2>3 DEF Running
    <3> QED
      BY <2>1, <3>1
  <2> QED
    BY <2>2, <2>3
<1> QED
  BY <1>4, <1>5, <1>6 DEF SlotsIInv, SlotsConserved

LEMMA EndStep ==
    ASSUME SlotsIInv, SlotsTypeOK', AloneInWorker, NEW e \in Executions,
           PostExecute(e) \/ OnError(e)
    PROVE  SlotsIInv'
<1>1. /\ Kind[e] \in Kinds /\ TaskId[e] \in TaskIds /\ Kind[e] # NoKind
      /\ \A d \in Executions : TaskId[d] \in TaskIds
  BY KindConcurrencyAssumption
<1>2. phase[e] = "running" /\ claimed[TaskId[e]] = Kind[e] /\ ReleaseSlot(TaskId[e])
  BY DEF PostExecute, OnError, SlotsIInv
<1>3. /\ phase'[e] # "running"
      /\ \A d \in Executions : d # e => phase'[d] = phase[d]
  BY DEF PostExecute, OnError, SlotsIInv, SlotsTypeOK
<1>4. /\ claimed'[TaskId[e]] = NoKind
      /\ \A t \in TaskIds : t # TaskId[e] => claimed'[t] = claimed[t]
      /\ free'[Kind[e]] = free[Kind[e]] + 1
      /\ \A k \in Kinds : k # Kind[e] => free'[k] = free[k]
  BY <1>1, <1>2 DEF ReleaseSlot, SlotsIInv, SlotsTypeOK
<1>5. /\ \A d \in Executions : phase'[d] = "running" => claimed'[TaskId[d]] = Kind[d]
      /\ \A t \in TaskIds : claimed'[t] # NoKind =>
           \E d \in Executions : TaskId[d] = t /\ phase'[d] = "running"
  <2>1. \A d \in Executions : phase[d] = "running" => d = e \/ TaskId[d] # TaskId[e]
    BY <1>2 DEF AloneInWorker
  <2>2. \A d \in Executions : phase'[d] = "running" => d # e /\ phase[d] = "running"
    BY <1>3
  <2> QED
    BY <1>1, <1>3, <1>4, <2>1, <2>2 DEF SlotsIInv
<1>6. ASSUME NEW k \in Kinds
      PROVE  IsFiniteSet(Running(k)') /\ free'[k] + Cardinality(Running(k)') = Limit[k]
  <2>1. /\ IsFiniteSet(Running(k)) /\ free[k] + Cardinality(Running(k)) = Limit[k]
        /\ free[k] \in Nat /\ Cardinality(Running(k)) \in Nat
    BY FS_CardinalityType DEF SlotsIInv, SlotsConserved, SlotsTypeOK
  <2>2. CASE k = Kind[e]
    <3>1. Running(k)' = Running(k) \ {e} /\ e \in Running(k)
      BY <1>2, <1>3, <2>2 DEF Running
    <3>2. /\ IsFiniteSet(Running(k) \ {e})
          /\ Cardinality(Running(k) \ {e}) = Cardinality(Running(k)) - 1
      BY <2>1, <3>1, FS_RemoveElement
    <3>3. free'[k] + Cardinality(Running(k) \ {e}) = Limit[k]
      BY <1>4, <2>1, <2>2, <3>2
    <3> QED
      BY <3>1, <3>2, <3>3, Zenon
  <2>3. CASE k # Kind[e]
    <3>1. Running(k)' = Running(k) /\ free'[k] = free[k]
      BY <1>3, <1>4, <2>3 DEF Running
    <3> QED
      BY <2>1, <3>1
  <2> QED
    BY <2>2, <2>3
<1> QED
  BY <1>5, <1>6 DEF SlotsIInv, SlotsConserved

LEMMA StepSlotsIInv ==
    ASSUME SlotsIInv, AloneInWorker, AloneInWorker', [SlotsNext]_slotVars
    PROVE  SlotsIInv'
<1>1. SlotsTypeOK'
  BY StepSlotsTypeOK DEF SlotsIInv
<1>2. ASSUME NEW e \in Executions, Receive(e) PROVE SlotsIInv'
  <2>1. UNCHANGED <<free, claimed>>
        /\ \A d \in Executions : phase'[d] = "running" <=> phase[d] = "running"
    BY <1>2 DEF Receive, SlotsIInv, SlotsTypeOK
  <2> QED
    BY <1>1, <2>1, SameRunning
<1>3. ASSUME NEW e \in Executions, Conclude(e) PROVE SlotsIInv'
  <2>1. claimed[TaskId[e]] = NoKind /\ TaskId[e] \in TaskIds
    BY <1>3 DEF Conclude, SlotsIInv, AloneInWorker, TaskIds
  <2>2. UNCHANGED <<free, claimed>>
    BY <1>3, <2>1 DEF Conclude, ReleaseSlot, SlotsIInv, SlotsTypeOK
  <2>3. \A d \in Executions : phase'[d] = "running" <=> phase[d] = "running"
    BY <1>3 DEF Conclude, SlotsIInv, SlotsTypeOK
  <2> QED
    BY <1>1, <2>2, <2>3, SameRunning
<1>4. CASE UNCHANGED slotVars
  BY <1>1, <1>4, SameRunning DEF slotVars
<1> QED
  BY <1>1, <1>2, <1>3, <1>4, AcquireStep, EndStep DEF SlotsNext

\* A slot can leak, or be handed out twice, only through duplicates of one signal
\* that overlap in the worker: while that does not happen, what is not free is held
\* by a running task of that kind, through failures, retries and late duplicates.
THEOREM SlotsAreConserved == SlotsSpec /\ []AloneInWorker => []SlotsConserved
<1>1. SlotsInit => SlotsIInv
  BY InitSlotsIInv
<1>2. SlotsIInv /\ AloneInWorker /\ AloneInWorker' /\ [SlotsNext]_slotVars => SlotsIInv'
  BY StepSlotsIInv
<1>3. SlotsIInv => SlotsConserved
  BY DEF SlotsIInv
<1> QED
  BY <1>1, <1>2, <1>3, PTL DEF SlotsSpec, SafeSlotsSpec

=============================================================================
