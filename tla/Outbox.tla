------------------------------- MODULE Outbox -------------------------------
(***************************************************************************)
(* The transactional SQL outbox (infrastructure/db/outbox.py and           *)
(* repositories/operations.py) driven by the relay processes               *)
(* (infrastructure/tasks/outbox_relay.py).                                 *)
(*                                                                         *)
(* A domain transaction creates a row; a relay claims a batch of rows in   *)
(* one transaction, pushes each signal to the Redis list outside any       *)
(* transaction, and then completes or fails its lease in a transaction per *)
(* row.  A relay may die between any two of those steps; all it leaves     *)
(* behind is an expiring lease.                                            *)
(*                                                                         *)
(* Time is relative: `wait` is the number of ticks until available_at and  *)
(* `ttl` the number of ticks until lease_expires_at, both stopping at 0    *)
(* ("<= now").  All relays read the same clock.                            *)
(***************************************************************************)
EXTENDS Integers, FiniteSets

CONSTANTS
    Messages,       \* stable message ids
    Relays,         \* relay processes; the owner string of their leases
    MaxAttempts,    \* max_attempts of each message
    LeaseTicks,     \* lease_seconds
    BatchSize,      \* batch_size
    RetryInitial,   \* retry_initial_seconds
    RetryMax        \* retry_max_seconds

ASSUME OutboxAssumption ==
    /\ MaxAttempts \in [Messages -> 1..10]
    /\ LeaseTicks \in Nat \ {0}
    /\ BatchSize \in Nat \ {0}
    /\ RetryInitial \in Nat \ {0}
    /\ RetryMax \in Nat
    /\ RetryInitial <= RetryMax

VARIABLES
    rows,       \* the outbox_messages table
    serial,     \* tokens handed out so far; the next claim uses a fresh one
    batch,      \* batch[r]: leases relay r claimed and has not published yet
    doing,      \* doing[r]: the lease relay r has published or failed to publish
    sent        \* sent[m]: copies of the signal ever pushed to Redis

vars == <<rows, serial, batch, doing, sent>>

Final == {"completed", "action_required"}
NoToken == 0
NoOwner == "none"
Phases == {"idle", "complete", "fail"}

\* A lease as the relay keeps it in memory after the claim transaction.
Leases == [msg : Messages, token : Nat, attempts : Nat]
NoLease == [msg |-> "none", token |-> NoToken, attempts |-> 0]
Idle == [phase |-> "idle", lease |-> NoLease]

\* A row without a lease.
Unleased(st, wait, attempts) ==
    [state |-> st, wait |-> wait, token |-> NoToken, owner |-> NoOwner, ttl |-> 0,
     attempts |-> attempts]

\* The row of a message no transaction has committed yet.
Absent == Unleased("absent", 0, 0)

-----------------------------------------------------------------------------

Countdown(n) == IF n > 0 THEN n - 1 ELSE 0

\* Delay before attempt n+1, capped.
RetryDelay(n) ==
    LET uncapped == RetryInitial * 2 ^ (n - 1)
    IN  IF uncapped <= RetryMax THEN uncapped ELSE RetryMax

\* Mutant: the attempt budget is not in the WHERE clause.
EligibleBeyondBudget ==
    {m \in Messages :
        /\ rows[m].state \in {"pending", "leased"}
        /\ rows[m].wait = 0
        /\ rows[m].token = NoToken \/ rows[m].ttl = 0}

\* Mutant: expired leases are not taken over.
EligibleUnleased ==
    {m \in Messages :
        /\ rows[m].state \in {"pending", "leased"}
        /\ rows[m].wait = 0
        /\ rows[m].attempts < MaxAttempts[m]
        /\ rows[m].token = NoToken}

\* The WHERE clause of available_statement.
Eligible ==
    {m \in Messages :
        /\ rows[m].state \in {"pending", "leased"}
        /\ rows[m].wait = 0
        /\ rows[m].attempts < MaxAttempts[m]
        /\ rows[m].token = NoToken \/ rows[m].ttl = 0}

\* Mutant: rows whose last lease expired are never recovered.
ExpiredNeverRecovered == {}

\* The WHERE clause of recover_expired_exhausted.
ExpiredExhausted ==
    {m \in Messages :
        /\ rows[m].state = "leased"
        /\ rows[m].ttl = 0
        /\ rows[m].attempts >= MaxAttempts[m]}

\* Mutant: leasing does not count the attempt.
LeasedUncounted(row, r) ==
    [state |-> "leased", wait |-> row.wait, token |-> serial + 1, owner |-> r,
     ttl |-> LeaseTicks, attempts |-> row.attempts]

\* The row after relay r leased it: available_at stays, the attempt is counted.
Leased(row, r) ==
    [state |-> "leased", wait |-> row.wait, token |-> serial + 1, owner |-> r,
     ttl |-> LeaseTicks, attempts |-> row.attempts + 1]

\* _current_lease, the attempt check of complete/fail and the CAS predicate.
StillMine(r, l) ==
    LET row == rows[l.msg] IN
    /\ row.state = "leased"
    /\ row.token = l.token
    /\ row.owner = r
    /\ row.ttl > 0
    /\ row.attempts = l.attempts

-----------------------------------------------------------------------------
Init ==
    /\ rows = [m \in Messages |-> Absent]
    /\ serial = 0
    /\ batch = [r \in Relays |-> {}]
    /\ doing = [r \in Relays |-> Idle]
    /\ sent = [m \in Messages |-> 0]

\* A domain transaction commits a message, due now or after a delay d.
Create(m, d) ==
    /\ rows[m].state = "absent"
    /\ rows' = [rows EXCEPT ![m] = Unleased("pending", d, 0)]
    /\ UNCHANGED <<serial, batch, doing, sent>>

\* The claim transaction of run_once.  Which of the due rows fit in the batch
\* depends on available_at and on rows other relays hold locked: any of them may.
Claim(r) ==
    /\ batch[r] = {}
    /\ doing[r] = Idle
    /\ \E S \in SUBSET Eligible :
        /\ Cardinality(S) <= BatchSize
        /\ S = {} => Eligible = {}
        /\ rows' = [m \in Messages |->
                      IF m \in S THEN Leased(rows[m], r)
                      ELSE IF m \in ExpiredExhausted
                           THEN Unleased("action_required", rows[m].wait, rows[m].attempts)
                           ELSE rows[m]]
        /\ batch' = [batch EXCEPT ![r] =
                       {[msg |-> m, token |-> serial + 1,
                         attempts |-> rows[m].attempts + 1] : m \in S}]
        /\ serial' = IF S = {} THEN serial ELSE serial + 1
    /\ UNCHANGED <<doing, sent>>

\* The next signal of the batch reaches Redis.
Publish(r) ==
    /\ doing[r] = Idle
    /\ \E l \in batch[r] :
        /\ sent' = [sent EXCEPT ![l.msg] = @ + 1]
        /\ batch' = [batch EXCEPT ![r] = @ \ {l}]
        /\ doing' = [doing EXCEPT ![r] = [phase |-> "complete", lease |-> l]]
    /\ UNCHANGED <<rows, serial>>

\* publish raises; the push may have reached Redis before the error did.
PublishFails(r) ==
    /\ doing[r] = Idle
    /\ \E l \in batch[r], pushed \in {0, 1} :
        /\ sent' = [sent EXCEPT ![l.msg] = @ + pushed]
        /\ batch' = [batch EXCEPT ![r] = @ \ {l}]
        /\ doing' = [doing EXCEPT ![r] = [phase |-> "fail", lease |-> l]]
    /\ UNCHANGED <<rows, serial>>

\* The completing transaction; StaleOutboxLease leaves the row alone.
Complete(r) ==
    LET l == doing[r].lease IN
    /\ doing[r].phase = "complete"
    /\ rows' = IF StillMine(r, l)
               THEN [rows EXCEPT ![l.msg] = Unleased("completed", @.wait, @.attempts)]
               ELSE rows
    /\ doing' = [doing EXCEPT ![r] = Idle]
    /\ UNCHANGED <<serial, batch, sent>>

\* Mutant: the last failed attempt still goes back to pending.
FailOncePastBudget(r) ==
    LET l == doing[r].lease
        row == rows[l.msg]
        exhausted == row.attempts > MaxAttempts[l.msg]
    IN
    /\ doing[r].phase = "fail"
    /\ rows' = IF StillMine(r, l)
               THEN [rows EXCEPT ![l.msg] =
                       IF exhausted
                       THEN Unleased("action_required", 0, row.attempts)
                       ELSE Unleased("pending", RetryDelay(row.attempts), row.attempts)]
               ELSE rows
    /\ doing' = [doing EXCEPT ![r] = Idle]
    /\ UNCHANGED <<serial, batch, sent>>

\* The failing transaction: back to pending with a delay, or given up.
Fail(r) ==
    LET l == doing[r].lease
        row == rows[l.msg]
        exhausted == row.attempts >= MaxAttempts[l.msg]
    IN
    /\ doing[r].phase = "fail"
    /\ rows' = IF StillMine(r, l)
               THEN [rows EXCEPT ![l.msg] =
                       IF exhausted
                       THEN Unleased("action_required", 0, row.attempts)
                       ELSE Unleased("pending", RetryDelay(row.attempts), row.attempts)]
               ELSE rows
    /\ doing' = [doing EXCEPT ![r] = Idle]
    /\ UNCHANGED <<serial, batch, sent>>

\* The relay process dies with leases in hand and starts again empty-handed.
Crash(r) ==
    /\ batch[r] # {} \/ doing[r] # Idle
    /\ batch' = [batch EXCEPT ![r] = {}]
    /\ doing' = [doing EXCEPT ![r] = Idle]
    /\ UNCHANGED <<rows, serial, sent>>

Tick ==
    /\ \E m \in Messages : rows[m].wait > 0 \/ rows[m].ttl > 0
    /\ rows' = [m \in Messages |->
                  [rows[m] EXCEPT !.wait = Countdown(@), !.ttl = Countdown(@)]]
    /\ UNCHANGED <<serial, batch, doing, sent>>

RelayStep(r) == Claim(r) \/ Publish(r) \/ PublishFails(r) \/ Complete(r) \/ Fail(r)

Next ==
    \/ \E m \in Messages, d \in 0..RetryMax : Create(m, d)
    \/ \E r \in Relays : Claim(r)
    \/ \E r \in Relays : Publish(r)
    \/ \E r \in Relays : PublishFails(r)
    \/ \E r \in Relays : Complete(r)
    \/ \E r \in Relays : Fail(r)
    \/ \E r \in Relays : Crash(r)
    \/ Tick

SafeSpec == Init /\ [][Next]_vars

\* Real time passes, and run_forever polls again after every cycle; a cycle that
\* raises ends the process (Crash), and its supervisor starts it again.
Fairness ==
    /\ WF_vars(Tick)
    /\ \A r \in Relays : WF_vars(RelayStep(r))

Spec == SafeSpec /\ Fairness

-----------------------------------------------------------------------------
\* Every variable stays in its set.
Rows == [state : {"absent", "pending", "leased"} \cup Final,
         wait : Nat, token : Nat, owner : Relays \cup {NoOwner},
         ttl : Nat, attempts : Nat]

TypeOK ==
    /\ rows \in [Messages -> Rows]
    /\ serial \in Nat
    /\ batch \in [Relays -> SUBSET Leases]
    /\ doing \in [Relays -> {Idle} \cup [phase : {"complete", "fail"}, lease : Leases]]
    /\ sent \in [Messages -> Nat]

\* The leases relay r has in memory.
InHand(r) == batch[r] \cup (IF doing[r] = Idle THEN {} ELSE {doing[r].lease})

\* At-least-once: a row is marked completed only after a copy of its signal was
\* pushed, whatever relays crashed, lost their lease or answered late.
SettledMeansSent ==
    \A m \in Messages : rows[m].state = "completed" => sent[m] > 0

\* Duplicates are bounded by the attempts counted in the row, even when a slow
\* relay publishes after its lease was taken over or the row was completed.
DuplicatesBounded ==
    \A m \in Messages : sent[m] <= rows[m].attempts /\ sent[m] <= MaxAttempts[m]

\* No row is ever out of every query's reach: an unfinished row has budget left
\* for available_statement, or holds the lease recover_expired_exhausted waits for;
\* an operator is called only for a row whose budget is really spent.
NeverStranded ==
    \A m \in Messages :
        /\ rows[m].state = "pending" => rows[m].attempts < MaxAttempts[m]
        /\ rows[m].state = "leased" => rows[m].token # NoToken
        /\ rows[m].state = "action_required" => rows[m].attempts = MaxAttempts[m]

\* An attempt number is leased once: however often a row was taken over, no two
\* leases still in the memory of relays carry the same message and attempt, so
\* an attempt can neither be published nor completed by two relays.
OneLeasePerAttempt ==
    \A r1, r2 \in Relays : \A l1 \in InHand(r1), l2 \in InHand(r2) :
        l1.msg = l2.msg /\ l1.attempts = l2.attempts => r1 = r2 /\ l1 = l2

\* A late complete or fail never reopens or reclassifies a finished row.
FinishedIsFinal ==
    [][\A m \in Messages :
        rows[m].state \in Final =>
            rows'[m].state = rows[m].state /\ rows'[m].attempts = rows[m].attempts]_vars

\* No lost message: every committed row is eventually completed or handed to an
\* operator, although relays may crash whenever they hold leases.
EverySignalSettles ==
    \A m \in Messages : (rows[m].state # "absent") ~> (rows[m].state \in Final)

\* What the outbox promises to the rest of the system.
Promised(st) ==
    CASE st = "absent" -> "none"
      [] st \in {"pending", "leased"} -> "owed"
      [] st = "completed" -> "settled"
      [] st = "action_required" -> "parked"

Promise == INSTANCE SignalPromise WITH
    promise <- [m \in Messages |-> Promised(rows[m].state)],
    copies <- sent

\* The table and the relays together implement the durable promise.
KeepsPromise == Promise!Spec
=============================================================================
