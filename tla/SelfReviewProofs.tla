-------------------------- MODULE SelfReviewProofs --------------------------
(***************************************************************************)
(* Proofs about SelfReview for any number of runs and workers, any limit,  *)
(* any number of crashes and changes of access, and any set of faults.     *)
(***************************************************************************)
EXTENDS SelfReview, FiniteSetTheorems, SequenceTheorems, TLAPS

Having(d) == {r \in Runs : disposition[r] = d}

\* The sets the quota counts grow and shrink one run at a time.
QuotaOK ==
    /\ IsFiniteSet(Having("consumed")) /\ IsFiniteSet(Having("reserved"))
    /\ QuotaMatchesRuns

\* Only a charged run succeeds, and a run that was once prepared is never taken
\* for a fresh one again.
RunOK(r) ==
    /\ status[r] = "succeeded" <=> disposition[r] = "consumed"
    /\ disposition[r] = "absent" => ~marked[r]
    /\ disposition[r] = "reserved" /\ marked[r] => status[r] \in Dispatched
    /\ posts[r] <= 1
    /\ posts[r] > 0 => marked[r]

\* A worker that is about to POST its run.
Submitting(w) == workers[w].phase = "ready" /\ workers[w].fresh

TickOK(w) ==
    LET t == workers[w] IN
    /\ t.phase # "idle" => t.run \in Runs
    /\ t.phase = "answered" => t.event \in events
    /\ t.phase = "claimed" /\ t.fresh /\ owner[t.run] = w => ~marked[t.run]
    /\ Submitting(w) => marked[t.run] /\ posts[t.run] = 0

OneSubmitter ==
    \A v, w \in Workers :
        Submitting(v) /\ Submitting(w) /\ workers[v].run = workers[w].run => v = w

IInv ==
    /\ TypeOK
    /\ IsFiniteSet(events)
    /\ QuotaOK
    /\ LedgerTellsOutcome
    /\ ChargeHasResult
    /\ \A r \in Runs : RunOK(r)
    /\ \A w \in Workers : TickOK(w)
    /\ OneSubmitter

\* What a worker does without taking up a run, preparing or being answered.
Retires(w) ==
    \/ workers'[w] = workers[w]
    \/ /\ workers'[w].phase \in {"idle", "sent", "silent", "declined", "error"}
       /\ workers'[w].phase # "idle" => workers'[w].run \in Runs

-----------------------------------------------------------------------------
LEMMA InitIInv == Init => IInv
<1> SUFFICES ASSUME Init PROVE IInv
  OBVIOUS
<1>1. Idle \in Tick /\ Idle.phase = "idle"
  BY DEF Idle, Tick, Phases
<1>2. TypeOK
  <2>1. <<>> \in Seq({"reserve", "consume", "release"})
    OBVIOUS
  <2>2. ledger \in [Runs -> Seq({"reserve", "consume", "release"})]
    BY <2>1 DEF Init
  <2> QED
    BY <1>1, <2>2, SelfReviewAssumption DEF Init, TypeOK, Statuses, Dispositions
<1>3. QuotaOK
  <2>1. Having("consumed") = {} /\ Having("reserved") = {}
    BY DEF Init, Having
  <2>2. used = Cardinality(Having("consumed")) /\ reserved = Cardinality(Having("reserved"))
    BY <2>1, FS_EmptySet, Zenon DEF Init
  <2>3. IsFiniteSet(Having("consumed")) /\ IsFiniteSet(Having("reserved"))
    BY <2>1, FS_EmptySet, Zenon
  <2> QED
    BY <2>2, <2>3 DEF Init, QuotaOK, QuotaMatchesRuns, Having
<1>4. IsFiniteSet(events)
  BY FS_EmptySet DEF Init
<1>5. LedgerTellsOutcome
  BY DEF Init, LedgerTellsOutcome
<1>6. ChargeHasResult
  BY DEF Init, ChargeHasResult
<1>7. \A r \in Runs : RunOK(r)
  BY DEF Init, RunOK
<1>8. \A w \in Workers : TickOK(w) /\ ~Submitting(w)
  BY <1>1 DEF Init, TickOK, Submitting
<1> QED
  BY <1>2, <1>3, <1>4, <1>5, <1>6, <1>7, <1>8 DEF IInv, OneSubmitter

\* What workers know survives steps that only retire them.
LEMMA TicksKept ==
    ASSUME IInv, \A w \in Workers : Retires(w),
           events \subseteq events',
           \A w \in Workers : workers[w].run \in Runs /\ owner'[workers[w].run] = w
                                /\ workers[w].phase # "idle" => owner[workers[w].run] = w,
           UNCHANGED <<marked, posts>>
    PROVE  (\A w \in Workers : TickOK(w)') /\ OneSubmitter'
<1>1. ASSUME NEW w \in Workers PROVE TickOK(w)'
  BY DEF IInv, TickOK, Retires, Submitting
<1>2. OneSubmitter'
  BY DEF IInv, OneSubmitter, Submitting, Retires
<1> QED
  BY <1>1, <1>2

\* A step that settles nothing, and takes no run up.
LEMMA Calm ==
    ASSUME IInv, TypeOK', \A w \in Workers : Retires(w),
           events \subseteq events', IsFiniteSet(events'),
           \A r \in Runs : \/ status'[r] = status[r]
                           \/ /\ disposition[r] = "reserved"
                              /\ status'[r] # "succeeded"
                              /\ marked[r] => status'[r] \in Dispatched,
           UNCHANGED <<quotaVars, disposition, sequence, marked, receipts, owner, posts>>
    PROVE  IInv'
<1> USE DEF quotaVars
<1>1. QuotaOK'
  BY DEF IInv, QuotaOK, QuotaMatchesRuns, Having
<1>2. LedgerTellsOutcome'
  BY DEF IInv, LedgerTellsOutcome
<1>3. ASSUME NEW r \in Runs PROVE RunOK(r)'
  BY DEF IInv, RunOK
<1>4. ChargeHasResult'
  BY DEF IInv, ChargeHasResult, RunOK
<1>5. (\A w \in Workers : TickOK(w)') /\ OneSubmitter'
  BY TicksKept
<1> QED
  BY <1>1, <1>2, <1>3, <1>4, <1>5 DEF IInv

-----------------------------------------------------------------------------
\* Appending to a sequence of one entry.
LEMMA AppendToOne ==
    ASSUME NEW S, NEW a \in S, NEW x \in S
    PROVE  Append(<<a>>, x) = <<a, x>>
<1> DEFINE s == <<a>>
           t == <<a, x>>
<1>1. s \in Seq(S) /\ t \in Seq(S)
  OBVIOUS
<1>2. Len(s) = 1 /\ s[1] = a
  OBVIOUS
<1>3. Len(t) = 2 /\ t[1] = a /\ t[2] = x
  OBVIOUS
<1> HIDE DEF s, t
<1>4. Append(s, x) \in Seq(S) /\ Len(Append(s, x)) = Len(s) + 1
  BY <1>1, AppendProperties
<1>5. Append(s, x)[Len(s) + 1] = x
  BY <1>1, AppendProperties
<1>6. \A i \in 1..Len(s) : Append(s, x)[i] = s[i]
  BY <1>1, AppendProperties
<1>7. \A i \in 1..2 : Append(s, x)[i] = t[i]
  BY <1>2, <1>3, <1>5, <1>6
<1>8. Append(s, x) = t
  BY <1>1, <1>2, <1>3, <1>4, <1>7, SeqEqual
<1> QED
  BY <1>8 DEF s, t

\* Settling a reserved run keeps the quota row, the ledger and their types.
LEMMA SettleQuota ==
    ASSUME IInv, NEW r \in Runs, disposition[r] = "reserved",
           NEW outcome \in {"consumed", "released"}, Settle(r, outcome)
    PROVE  /\ QuotaOK' /\ LedgerTellsOutcome'
           /\ disposition' \in [Runs -> Dispositions] /\ status' \in [Runs -> Statuses]
           /\ used' \in Nat /\ reserved' \in Nat
           /\ ledger' \in [Runs -> Seq({"reserve", "consume", "release"})]
<1>1. /\ disposition' = [disposition EXCEPT ![r] = outcome]
      /\ status' = [status EXCEPT ![r] = IF outcome = "consumed" THEN "succeeded" ELSE "failed"]
      /\ used' = IF outcome = "consumed" THEN used + 1 ELSE used
      /\ reserved' = reserved - 1
  BY DEF Settle
<1>2. used \in Nat /\ reserved \in Nat /\ disposition \in [Runs -> Dispositions]
      /\ status \in [Runs -> Statuses]
      /\ ledger \in [Runs -> Seq({"reserve", "consume", "release"})]
  BY DEF IInv, TypeOK
<1>3. /\ IsFiniteSet(Having("consumed")) /\ used = Cardinality(Having("consumed"))
      /\ IsFiniteSet(Having("reserved")) /\ reserved = Cardinality(Having("reserved"))
      /\ reserved <= 1
  BY DEF IInv, QuotaOK, QuotaMatchesRuns, Having
<1>4. /\ IsFiniteSet(Having("reserved")') /\ reserved' = Cardinality(Having("reserved")')
      /\ reserved' \in Nat /\ reserved' <= 1
  <2>1. Having("reserved")' = Having("reserved") \ {r} /\ r \in Having("reserved")
    BY <1>1, <1>2 DEF Having
  <2>2. /\ IsFiniteSet(Having("reserved") \ {r})
        /\ Cardinality(Having("reserved") \ {r}) = Cardinality(Having("reserved")) - 1
    BY <1>3, <2>1, FS_RemoveElement
  <2>3. Cardinality(Having("reserved") \ {r}) \in Nat
    BY <2>2, FS_CardinalityType
  <2>4. reserved' = Cardinality(Having("reserved") \ {r})
    BY <1>1, <1>3, <2>2
  <2>5. reserved' \in Nat /\ reserved' <= 1
    BY <1>1, <1>2, <1>3, <2>3, <2>4
  <2>6. /\ IsFiniteSet(Having("reserved")') /\ reserved' = Cardinality(Having("reserved")')
    BY <2>1, <2>2, <2>4, Zenon
  <2> QED
    BY <2>5, <2>6
<1>5. /\ IsFiniteSet(Having("consumed")') /\ used' = Cardinality(Having("consumed")')
      /\ used' \in Nat
  <2>1. CASE outcome = "released"
    <3>1. Having("consumed")' = Having("consumed")
      BY <1>1, <1>2, <2>1 DEF Having
    <3> QED
      BY <1>1, <1>2, <1>3, <2>1, <3>1
  <2>2. CASE outcome = "consumed"
    <3>1. Having("consumed")' = Having("consumed") \cup {r} /\ r \notin Having("consumed")
      BY <1>1, <1>2, <2>2 DEF Having
    <3>2. /\ IsFiniteSet(Having("consumed") \cup {r})
          /\ Cardinality(Having("consumed") \cup {r}) = Cardinality(Having("consumed")) + 1
      BY <1>3, <3>1, FS_AddElement
    <3>3. used' = Cardinality(Having("consumed") \cup {r}) /\ used' \in Nat
      BY <1>1, <1>2, <1>3, <2>2, <3>2
    <3> QED
      BY <3>1, <3>2, <3>3, Zenon
  <2> QED
    BY <2>1, <2>2
<1>6. QuotaOK'
  BY <1>4, <1>5 DEF QuotaOK, QuotaMatchesRuns, Having
<1>7. ledger[r] = <<"reserve">>
  BY DEF IInv, LedgerTellsOutcome
<1> DEFINE entry == IF outcome = "consumed" THEN "consume" ELSE "release"
<1>8. ledger' = [ledger EXCEPT ![r] = <<"reserve", entry>>]
  <2>1. Append(ledger[r], entry) = <<"reserve", entry>>
    <3>1. entry \in {"reserve", "consume", "release"}
      OBVIOUS
    <3> HIDE DEF entry
    <3>2. Append(<<"reserve">>, entry) = <<"reserve", entry>>
      BY <3>1, AppendToOne
    <3> QED
      BY <1>7, <3>2, Zenon
  <2>2. ledger' = [ledger EXCEPT ![r] = Append(ledger[r], entry)]
    BY Zenon DEF Settle
  <2> QED
    BY <2>1, <2>2, Zenon
<1>9. ledger' \in [Runs -> Seq({"reserve", "consume", "release"})]
  <2>1. <<"reserve", entry>> \in Seq({"reserve", "consume", "release"})
    OBVIOUS
  <2> QED
    BY <1>2, <1>8, <2>1
<1>10. LedgerTellsOutcome'
  <2> SUFFICES ASSUME NEW b \in Runs
               PROVE  ledger'[b] = CASE disposition'[b] = "absent" -> <<>>
                                     [] disposition'[b] = "reserved" -> <<"reserve">>
                                     [] disposition'[b] = "consumed" -> <<"reserve", "consume">>
                                     [] disposition'[b] = "released" -> <<"reserve", "release">>
    BY DEF LedgerTellsOutcome
  <2>1. CASE b = r
    BY <1>1, <1>2, <1>8, <2>1
  <2>2. CASE b # r
    BY <1>1, <1>2, <1>8, <2>2 DEF IInv, LedgerTellsOutcome
  <2> QED
    BY <2>1, <2>2
<1> QED
  BY <1>1, <1>2, <1>4, <1>5, <1>6, <1>9, <1>10 DEF Dispositions, Statuses

\* A step that settles a reserved run.
LEMMA SettleKept ==
    ASSUME IInv, TypeOK', ChargeHasResult', \A w \in Workers : Retires(w),
           NEW r \in Runs, disposition[r] = "reserved",
           NEW outcome \in {"consumed", "released"}, Settle(r, outcome),
           \A w \in Workers : workers[w].run \in Runs /\ owner'[workers[w].run] = w
                                /\ workers[w].phase # "idle" => owner[workers[w].run] = w,
           UNCHANGED <<marked, posts, events>>
    PROVE  IInv'
<1>1. QuotaOK' /\ LedgerTellsOutcome'
  BY SettleQuota
<1>2. (\A w \in Workers : TickOK(w)') /\ OneSubmitter'
  BY TicksKept
<1>3. ASSUME NEW b \in Runs PROVE RunOK(b)'
  <2>1. CASE b = r
    BY <2>1 DEF Settle, IInv, TypeOK, RunOK
  <2>2. CASE b # r
    BY <2>2 DEF Settle, IInv, TypeOK, RunOK
  <2> QED
    BY <2>1, <2>2
<1> QED
  BY <1>1, <1>2, <1>3 DEF IInv

\* A release leaves what was charged alone.
LEMMA ReleaseCharges ==
    ASSUME IInv, NEW r \in Runs, disposition[r] = "reserved", Settle(r, "released"),
           UNCHANGED <<receipts, sequence>>
    PROVE  ChargeHasResult'
<1>1. \A b \in Runs : b # r => disposition'[b] = disposition[b] /\ status'[b] = status[b]
  BY DEF Settle, IInv, TypeOK
<1>2. disposition'[r] = "released" /\ status'[r] = "failed"
  BY DEF Settle, IInv, TypeOK
<1> QED
  BY <1>1, <1>2 DEF IInv, ChargeHasResult

\* SelfReviewService.accept, by callback or by the worker that looked the run up.
LEMMA AcceptKept ==
    ASSUME IInv, NEW e \in events, Accept(e), \A w \in Workers : Retires(w),
           workers' \in [Workers -> Tick],
           UNCHANGED <<limit, epoch, events, received, posts, crashes>>
    PROVE  IInv'
<1> DEFINE r == e.run
<1>1. /\ e \in Event /\ r \in Runs /\ e.sequence \in Int
      /\ disposition[r] = "reserved" /\ marked[r]
      /\ sequence' = [sequence EXCEPT ![r] = e.sequence]
      /\ receipts' = receipts \cup {e}
      /\ UNCHANGED <<attempt, marked, grant, owner>>
  BY DEF Accept, Acceptable, IInv, TypeOK, Event
<1>2. sequence' \in [Runs -> Int] /\ receipts' \subseteq events' /\ events' \subseteq Event
  BY <1>1 DEF IInv, TypeOK
<1>3. CASE e.kind = "running" /\ AccessValid(r)
  <2>1. /\ status' = [status EXCEPT ![r] = "running"]
        /\ UNCHANGED <<disposition, used, reserved, ledger, leased>>
    BY <1>3 DEF Accept, quotaVars
  <2>2. TypeOK'
    BY <1>1, <1>2, <2>1 DEF IInv, TypeOK, Statuses, Dispatched
  <2>3. QuotaOK' /\ LedgerTellsOutcome'
    BY <2>1 DEF IInv, QuotaOK, QuotaMatchesRuns, Having, LedgerTellsOutcome
  <2>4. ASSUME NEW b \in Runs PROVE RunOK(b)'
    <3>1. CASE b = r
      BY <1>1, <2>1, <3>1 DEF IInv, TypeOK, RunOK, Dispatched
    <3>2. CASE b # r
      BY <1>1, <2>1, <3>2 DEF IInv, TypeOK, RunOK
    <3> QED
      BY <3>1, <3>2
  <2>5. ChargeHasResult'
    <3> SUFFICES ASSUME NEW b \in Runs
                 PROVE  disposition'[b] = "consumed" <=>
                          \E f \in receipts' : /\ f.run = b /\ f.kind = "useful"
                                               /\ f.sequence = sequence'[b]
                                               /\ status'[b] = "succeeded"
      BY DEF ChargeHasResult
    <3>1. CASE b = r
      BY <1>1, <2>1, <3>1 DEF IInv, TypeOK
    <3>2. CASE b # r
      <4>1. status'[b] = status[b] /\ sequence'[b] = sequence[b] /\ disposition'[b] = disposition[b]
        BY <1>1, <2>1, <3>2 DEF IInv, TypeOK
      <4> QED
        BY <1>1, <3>2, <4>1 DEF IInv, ChargeHasResult
    <3> QED
      BY <3>1, <3>2
  <2>6. (\A w \in Workers : TickOK(w)') /\ OneSubmitter'
    BY <1>1, TicksKept
  <2> QED
    BY <2>2, <2>3, <2>4, <2>5, <2>6 DEF IInv
<1>4. CASE ~(e.kind = "running" /\ AccessValid(r))
  <2> DEFINE outcome == IF Charged(e) THEN "consumed" ELSE "released"
  <2>1. /\ Settle(r, outcome)
        /\ leased' = [leased EXCEPT ![r] = FALSE]
    BY <1>4 DEF Accept
  <2>2. outcome \in {"consumed", "released"} /\ (outcome = "consumed" => e.kind = "useful")
    BY DEF Charged
  <2> HIDE DEF outcome
  <2>3. TypeOK'
    BY <1>1, <1>2, <2>1, <2>2, SettleQuota DEF IInv, TypeOK
  <2>4. /\ disposition'[r] = outcome
        /\ status'[r] = IF outcome = "consumed" THEN "succeeded" ELSE "failed"
        /\ \A b \in Runs : b # r => disposition'[b] = disposition[b] /\ status'[b] = status[b]
    BY <1>1, <2>1 DEF Settle, IInv, TypeOK
  <2>5. ChargeHasResult'
    <3> SUFFICES ASSUME NEW b \in Runs
                 PROVE  disposition'[b] = "consumed" <=>
                          \E f \in receipts' : /\ f.run = b /\ f.kind = "useful"
                                               /\ f.sequence = sequence'[b]
                                               /\ status'[b] = "succeeded"
      BY DEF ChargeHasResult
    <3>1. CASE b = r
      <4>1. sequence'[r] = e.sequence /\ e \in receipts'
        BY <1>1 DEF IInv, TypeOK
      <4> QED
        BY <2>2, <2>4, <3>1, <4>1
    <3>2. CASE b # r
      <4>1. status'[b] = status[b] /\ sequence'[b] = sequence[b] /\ disposition'[b] = disposition[b]
        BY <1>1, <2>4, <3>2 DEF IInv, TypeOK
      <4> QED
        BY <1>1, <3>2, <4>1 DEF IInv, ChargeHasResult
    <3> QED
      BY <3>1, <3>2
  <2> HIDE DEF r
  <2> QED
    BY <1>1, <2>1, <2>2, <2>3, <2>5, SettleKept
<1> QED
  BY <1>3, <1>4

-----------------------------------------------------------------------------
\* Ending a tick, or going on in it past the call, retires its worker.
LEMMA RestRetires ==
    ASSUME IInv, NEW w \in Workers, Rest(w)
    PROVE  workers' \in [Workers -> Tick] /\ \A v \in Workers : Retires(v)
<1>1. Idle \in Tick /\ Idle.phase = "idle"
  BY DEF Idle, Tick, Phases
<1> QED
  BY <1>1 DEF Rest, Retires, IInv, TypeOK

LEMMA MoveRetires ==
    ASSUME IInv, NEW w \in Workers, workers[w].phase # "idle",
           NEW p \in {"sent", "silent", "declined", "error"}, Move(w, p)
    PROVE  workers' \in [Workers -> Tick] /\ \A v \in Workers : Retires(v)
<1>1. workers' = [workers EXCEPT ![w] = [workers[w] EXCEPT !.phase = p]]
  BY DEF Move
<1>2. [workers[w] EXCEPT !.phase = p] \in Tick
  BY DEF IInv, TypeOK, Tick, Phases
<1>3. /\ [workers[w] EXCEPT !.phase = p].phase = p
      /\ [workers[w] EXCEPT !.phase = p].run = workers[w].run
  BY DEF IInv, TypeOK, Tick
<1>4. workers[w].run \in Runs
  BY DEF IInv, TickOK
<1>5. workers' \in [Workers -> Tick]
  BY <1>1, <1>2 DEF IInv, TypeOK
<1>6. ASSUME NEW v \in Workers PROVE Retires(v)
  <2>1. v # w => workers'[v] = workers[v]
    BY <1>1 DEF IInv, TypeOK
  <2>2. workers'[w].phase = p /\ workers'[w].run \in Runs
    BY <1>1, <1>3, <1>4 DEF IInv, TypeOK
  <2> QED
    BY <2>1, <2>2 DEF Retires
<1> QED
  BY <1>5, <1>6

\* The commands and the passing of time.
LEMMA StartStep ==
    ASSUME IInv, NEW r \in Runs, Start(r)
    PROVE  IInv'
<1>1. /\ disposition[r] = "absent" /\ reserved = 0
      /\ disposition' = [disposition EXCEPT ![r] = "reserved"]
      /\ grant' = [grant EXCEPT ![r] = epoch]
      /\ reserved' = reserved + 1
      /\ UNCHANGED <<limit, used, status, attempt, sequence, marked, receipts, owner, leased,
                     epoch, workers, received, events, posts, crashes>>
  BY DEF Start, leaseVars, serviceVars
<1>2. ledger' = [ledger EXCEPT ![r] = <<"reserve">>]
  <2>1. ledger[r] = <<>>
    BY <1>1 DEF IInv, LedgerTellsOutcome
  <2>2. ledger' = [ledger EXCEPT ![r] = Append(ledger[r], "reserve")]
    BY Zenon DEF Start
  <2>3. Append(<<>>, "reserve") = <<"reserve">>
    OBVIOUS
  <2> QED
    BY <2>1, <2>2, <2>3, Zenon
<1>3. TypeOK'
  <2>1. <<"reserve">> \in Seq({"reserve", "consume", "release"})
    OBVIOUS
  <2>2. ledger' \in [Runs -> Seq({"reserve", "consume", "release"})]
    BY <1>2, <2>1 DEF IInv, TypeOK
  <2>3. /\ disposition' \in [Runs -> Dispositions] /\ grant' \in [Runs -> Nat]
        /\ reserved' \in Nat
    BY <1>1 DEF IInv, TypeOK, Dispositions
  <2> QED
    BY <1>1, <2>2, <2>3 DEF IInv, TypeOK
<1>4. QuotaOK'
  <2>1. /\ Having("consumed")' = Having("consumed")
        /\ Having("reserved")' = Having("reserved") \cup {r} /\ r \notin Having("reserved")
    BY <1>1 DEF Having, IInv, TypeOK
  <2>2. /\ IsFiniteSet(Having("consumed")) /\ used = Cardinality(Having("consumed"))
        /\ IsFiniteSet(Having("reserved")) /\ reserved = Cardinality(Having("reserved"))
    BY DEF IInv, QuotaOK, QuotaMatchesRuns, Having
  <2>3. /\ IsFiniteSet(Having("reserved") \cup {r})
        /\ Cardinality(Having("reserved") \cup {r}) = Cardinality(Having("reserved")) + 1
    BY <2>1, <2>2, FS_AddElement
  <2>4. reserved' = Cardinality(Having("reserved") \cup {r}) /\ reserved' <= 1
    BY <1>1, <2>2, <2>3
  <2>5. /\ IsFiniteSet(Having("reserved")') /\ reserved' = Cardinality(Having("reserved")')
    BY <2>1, <2>3, <2>4, Zenon
  <2>6. /\ IsFiniteSet(Having("consumed")') /\ used' = Cardinality(Having("consumed")')
    BY <1>1, <2>1, <2>2
  <2> QED
    BY <2>4, <2>5, <2>6 DEF QuotaOK, QuotaMatchesRuns, Having
<1>5. LedgerTellsOutcome'
  <2> SUFFICES ASSUME NEW b \in Runs
               PROVE  ledger'[b] = CASE disposition'[b] = "absent" -> <<>>
                                     [] disposition'[b] = "reserved" -> <<"reserve">>
                                     [] disposition'[b] = "consumed" -> <<"reserve", "consume">>
                                     [] disposition'[b] = "released" -> <<"reserve", "release">>
    BY DEF LedgerTellsOutcome
  <2>1. CASE b = r
    BY <1>1, <1>2, <2>1 DEF IInv, TypeOK
  <2>2. CASE b # r
    BY <1>1, <1>2, <2>2 DEF IInv, TypeOK, LedgerTellsOutcome
  <2> QED
    BY <2>1, <2>2
<1>6. ASSUME NEW b \in Runs PROVE RunOK(b)'
  BY <1>1 DEF IInv, TypeOK, RunOK
<1>7. ChargeHasResult'
  BY <1>1 DEF IInv, TypeOK, RunOK, ChargeHasResult
<1>8. (\A w \in Workers : TickOK(w)') /\ OneSubmitter'
  BY <1>1, TicksKept DEF Retires
<1> QED
  BY <1>1, <1>3, <1>4, <1>5, <1>6, <1>7, <1>8 DEF IInv

LEMMA SetPolicyStep ==
    ASSUME IInv, NEW n \in 0..MaxLimit, SetPolicy(n)
    PROVE  IInv'
<1> USE DEF quotaVars, runVars, leaseVars, serviceVars
<1>1. TypeOK'
  BY DEF SetPolicy, IInv, TypeOK
<1> QED
  BY <1>1, Calm DEF SetPolicy, Retires, IInv

LEMMA ChangeAccessStep ==
    ASSUME IInv, ChangeAccess
    PROVE  IInv'
<1> USE DEF quotaVars, runVars, leaseVars, serviceVars
<1>1. TypeOK'
  BY DEF ChangeAccess, IInv, TypeOK
<1> QED
  BY <1>1, Calm DEF ChangeAccess, Retires, IInv

LEMMA LeaseExpiresStep ==
    ASSUME IInv, NEW r \in Runs, LeaseExpires(r)
    PROVE  IInv'
<1> USE DEF quotaVars, runVars, leaseVars, serviceVars
<1>1. TypeOK'
  BY DEF LeaseExpires, IInv, TypeOK
<1> QED
  BY <1>1, Calm DEF LeaseExpires, Retires, IInv

LEMMA ReportStep ==
    ASSUME IInv, NEW r \in Runs, NEW kind \in {"running"} \cup FinalKinds, Report(r, kind)
    PROVE  IInv'
<1> USE DEF quotaVars, runVars, leaseVars, serviceVars
<1> DEFINE issued == {e \in events : e.run = r}
           new == [run |-> r, attempt |-> 1, sequence |-> Cardinality(issued), kind |-> kind]
<1>1. /\ events' = events \cup {new}
      /\ UNCHANGED <<limit, quotaVars, runVars, receipts, leaseVars, epoch, workers, received,
                     posts, crashes>>
  BY DEF Report
<1>2. IsFiniteSet(events) /\ issued \subseteq events
  BY DEF IInv
<1>3. Cardinality(issued) \in Nat
  BY <1>2, FS_Subset, FS_CardinalityType
<1>4. new \in Event
  BY <1>3 DEF Event
<1> HIDE DEF issued, new
<1>5. IsFiniteSet(events')
  BY <1>1, <1>2, FS_AddElement
<1>6. TypeOK'
  BY <1>1, <1>4 DEF IInv, TypeOK
<1> QED
  BY <1>1, <1>5, <1>6, Calm DEF Retires

LEMMA ReleaseStep ==
    ASSUME IInv, NEW r \in Runs, Release(r)
    PROVE  IInv'
<1>1. /\ disposition[r] = "reserved" /\ Settle(r, "released")
      /\ attempt' = [attempt EXCEPT ![r] = @ + 1]
      /\ UNCHANGED <<limit, sequence, marked, grant, receipts, owner, leased, epoch, workers,
                     received, events, posts, crashes>>
  BY DEF Release, leaseVars, serviceVars
<1>2. TypeOK'
  <2>1. attempt' \in [Runs -> Nat]
    BY <1>1 DEF IInv, TypeOK
  <2>2. /\ disposition' \in [Runs -> Dispositions] /\ status' \in [Runs -> Statuses]
        /\ used' \in Nat /\ reserved' \in Nat
        /\ ledger' \in [Runs -> Seq({"reserve", "consume", "release"})]
    BY <1>1, SettleQuota
  <2> QED
    BY <1>1, <2>1, <2>2 DEF IInv, TypeOK
<1>3. ChargeHasResult'
  BY <1>1, ReleaseCharges
<1> QED
  BY <1>1, <1>2, <1>3, SettleKept DEF Retires

LEMMA CallbackStep ==
    ASSUME IInv, NEW e \in events, Callback(e)
    PROVE  IInv'
BY AcceptKept DEF Callback, serviceVars, Retires, IInv, TypeOK

-----------------------------------------------------------------------------
\* The steps of a tick.
LEMMA ClaimStep ==
    ASSUME IInv, NEW w \in Workers, NEW r \in Runs, Claim(w, r)
    PROVE  IInv'
<1>1. /\ workers[w].phase = "idle" /\ disposition[r] = "reserved"
      /\ owner' = [owner EXCEPT ![r] = w]
      /\ attempt' = [attempt EXCEPT ![r] = IF @ = 0 THEN 1 ELSE @]
      /\ UNCHANGED <<limit, sequence, marked, grant, receipts, epoch, received, events, posts,
                     crashes>>
  BY DEF Claim, InPhase, serviceVars
<1>2. /\ owner' \in [Runs -> Workers \cup {NoWorker}] /\ attempt' \in [Runs -> Nat]
      /\ \A v \in Workers : workers[v].run \in Runs /\ owner'[workers[v].run] = v
                              /\ workers[v].phase # "idle" => owner[workers[v].run] = v
  BY <1>1 DEF IInv, TypeOK
<1>3. CASE ~AccessValid(r)
  <2>1. Settle(r, "released") /\ UNCHANGED <<leased, workers>>
    BY <1>3 DEF Claim
  <2>2. /\ disposition' \in [Runs -> Dispositions] /\ status' \in [Runs -> Statuses]
        /\ used' \in Nat /\ reserved' \in Nat
        /\ ledger' \in [Runs -> Seq({"reserve", "consume", "release"})]
    BY <1>1, <2>1, SettleQuota
  <2>3. TypeOK'
    BY <1>1, <1>2, <2>1, <2>2 DEF IInv, TypeOK
  <2>4. ChargeHasResult'
    BY <1>1, <2>1, ReleaseCharges
  <2> QED
    BY <1>1, <1>2, <2>1, <2>3, <2>4, SettleKept DEF Retires
<1>4. CASE AccessValid(r)
  <2> DEFINE tick == [phase |-> "claimed", run |-> r, fresh |-> status[r] \notin Dispatched,
                      event |-> <<>>]
  <2>1. /\ leased' = [leased EXCEPT ![r] = TRUE]
        /\ status' = [status EXCEPT ![r] = IF @ \in Dispatched THEN @ ELSE "capturing"]
        /\ workers' = [workers EXCEPT ![w] = tick]
        /\ UNCHANGED <<disposition, used, reserved, ledger>>
    BY <1>4 DEF Claim, quotaVars
  <2>2. /\ tick \in Tick /\ tick.phase = "claimed" /\ tick.run = r
        /\ tick.fresh <=> status[r] \notin Dispatched
    BY DEF Tick, Phases
  <2> HIDE DEF tick
  <2>3. /\ workers'[w] = tick /\ \A v \in Workers : v # w => workers'[v] = workers[v]
    BY <2>1 DEF IInv, TypeOK
  <2>4. TypeOK'
    <3>1. workers' \in [Workers -> Tick] /\ leased' \in [Runs -> BOOLEAN]
      BY <2>1, <2>2 DEF IInv, TypeOK
    <3>2. status' \in [Runs -> Statuses]
      BY <2>1 DEF IInv, TypeOK, Statuses
    <3> QED
      BY <1>1, <1>2, <2>1, <3>1, <3>2 DEF IInv, TypeOK
  <2>5. QuotaOK' /\ LedgerTellsOutcome'
    BY <2>1 DEF IInv, QuotaOK, QuotaMatchesRuns, Having, LedgerTellsOutcome
  <2>6. ASSUME NEW b \in Runs PROVE RunOK(b)'
    <3>1. CASE b = r
      BY <1>1, <2>1, <3>1 DEF IInv, TypeOK, RunOK, Dispatched
    <3>2. CASE b # r
      BY <1>1, <2>1, <3>2 DEF IInv, TypeOK, RunOK
    <3> QED
      BY <3>1, <3>2
  <2>7. ChargeHasResult'
    <3>1. disposition'[r] # "consumed" /\ status'[r] # "succeeded"
      BY <1>1, <2>1 DEF IInv, TypeOK, Dispatched
    <3>2. \A b \in Runs : b # r => status'[b] = status[b]
      BY <2>1 DEF IInv, TypeOK
    <3> QED
      BY <1>1, <2>1, <3>1, <3>2 DEF IInv, ChargeHasResult
  <2>8. ASSUME NEW v \in Workers PROVE TickOK(v)'
    <3>1. CASE v = w
      <4>1. tick.fresh => ~marked[r]
        BY <1>1, <2>2 DEF IInv, RunOK
      <4> QED
        BY <1>1, <2>2, <2>3, <3>1, <4>1 DEF TickOK, Submitting
    <3>2. CASE v # w
      BY <1>1, <1>2, <2>3, <3>2 DEF IInv, TickOK, Submitting
    <3> QED
      BY <3>1, <3>2
  <2>9. OneSubmitter'
    BY <2>2, <2>3 DEF IInv, OneSubmitter, Submitting
  <2> QED
    BY <1>1, <2>4, <2>5, <2>6, <2>7, <2>8, <2>9 DEF IInv
<1> QED
  BY <1>3, <1>4

LEMMA PrepareStep ==
    ASSUME IInv, NEW w \in Workers, Prepare(w)
    PROVE  IInv'
<1> DEFINE r == workers[w].run
<1>1. /\ workers[w].phase = "claimed" /\ r \in Runs
      /\ UNCHANGED <<limit, used, reserved, ledger, disposition, attempt, sequence, grant,
                     receipts, owner, leased, epoch, received, events, posts, crashes>>
  BY DEF Prepare, InPhase, quotaVars, leaseVars, serviceVars, IInv, TickOK
<1>2. CASE ~Holds(w)
  <2>1. Rest(w) /\ UNCHANGED <<marked, status>>
    BY <1>2 DEF Prepare
  <2>2. workers' \in [Workers -> Tick] /\ \A v \in Workers : Retires(v)
    BY <2>1, RestRetires
  <2>3. TypeOK'
    BY <1>1, <2>1, <2>2 DEF IInv, TypeOK
  <2> QED
    BY <1>1, <2>1, <2>2, <2>3, Calm DEF IInv, quotaVars
<1>3. CASE Holds(w)
  <2>1. /\ marked' = [marked EXCEPT ![r] = TRUE]
        /\ status' = [status EXCEPT ![r] = "pending"]
        /\ Move(w, "ready")
    BY <1>3 DEF Prepare
  <2>2. owner[r] = w /\ disposition[r] = "reserved"
    BY <1>3 DEF Holds
  <2> DEFINE tick == [workers[w] EXCEPT !.phase = "ready"]
  <2>3. /\ tick \in Tick /\ tick.phase = "ready" /\ tick.run = r
        /\ tick.fresh = workers[w].fresh
    BY DEF IInv, TypeOK, Tick, Phases
  <2>4. workers' = [workers EXCEPT ![w] = tick]
    BY <2>1 DEF Move
  <2> HIDE DEF tick
  <2>5. /\ workers'[w] = tick /\ \A v \in Workers : v # w => workers'[v] = workers[v]
    BY <2>4 DEF IInv, TypeOK
  <2>6. TypeOK'
    <3>1. workers' \in [Workers -> Tick] /\ marked' \in [Runs -> BOOLEAN]
      BY <2>1, <2>3, <2>4 DEF IInv, TypeOK
    <3>2. status' \in [Runs -> Statuses]
      BY <2>1 DEF IInv, TypeOK, Statuses, Dispatched
    <3> QED
      BY <1>1, <3>1, <3>2 DEF IInv, TypeOK
  <2>7. QuotaOK' /\ LedgerTellsOutcome'
    BY <1>1 DEF IInv, QuotaOK, QuotaMatchesRuns, Having, LedgerTellsOutcome
  <2>8. ASSUME NEW b \in Runs PROVE RunOK(b)'
    <3>1. CASE b = r
      BY <1>1, <2>1, <2>2, <3>1 DEF IInv, TypeOK, RunOK, Dispatched
    <3>2. CASE b # r
      BY <1>1, <2>1, <3>2 DEF IInv, TypeOK, RunOK
    <3> QED
      BY <3>1, <3>2
  <2>9. ChargeHasResult'
    <3>1. status'[r] # "succeeded" /\ \A b \in Runs : b # r => status'[b] = status[b]
      BY <1>1, <2>1 DEF IInv, TypeOK
    <3> QED
      BY <1>1, <2>2, <3>1 DEF IInv, ChargeHasResult
  <2>10. workers[w].fresh => ~marked[r] /\ posts[r] = 0
    <3>1. workers[w].fresh => ~marked[r]
      BY <1>1, <2>2 DEF IInv, TickOK
    <3>2. posts[r] \in Nat /\ (posts[r] > 0 => marked[r])
      BY <1>1 DEF IInv, TypeOK, RunOK
    <3> QED
      BY <3>1, <3>2
  <2>11. ASSUME NEW v \in Workers PROVE TickOK(v)'
    <3>1. CASE v = w
      BY <1>1, <2>1, <2>3, <2>5, <2>10, <3>1 DEF IInv, TypeOK, TickOK, Submitting
    <3>2. CASE v # w
      BY <1>1, <2>1, <2>2, <2>5, <3>2 DEF IInv, TypeOK, TickOK, Submitting
    <3> QED
      BY <3>1, <3>2
  <2>12. OneSubmitter'
    <3>1. \A v \in Workers : Submitting(v) /\ workers[v].run = r => ~workers[w].fresh
      BY <2>10 DEF IInv, TickOK
    <3> QED
      BY <2>3, <2>5, <3>1 DEF IInv, OneSubmitter, Submitting
  <2> QED
    BY <1>1, <2>6, <2>7, <2>8, <2>9, <2>11, <2>12 DEF IInv
<1> QED
  BY <1>2, <1>3

LEMMA CallStep ==
    ASSUME IInv, NEW w \in Workers, Call(w)
    PROVE  IInv'
<1> DEFINE r == workers[w].run
<1>1. /\ workers[w].phase = "ready" /\ r \in Runs
      /\ UNCHANGED <<limit, used, reserved, ledger, status, disposition, attempt, sequence,
                     marked, grant, receipts, owner, leased, epoch, events, crashes>>
  BY DEF Call, InPhase, quotaVars, runVars, leaseVars, IInv, TickOK
<1>2. Move(w, "sent") \/ Move(w, "error")
  BY DEF Call
<1>3. workers' \in [Workers -> Tick] /\ \A v \in Workers : Retires(v)
  BY <1>1, <1>2, MoveRetires
<1>4. received' \subseteq Runs
  BY <1>1 DEF Call, IInv, TypeOK
<1>5. CASE ~workers[w].fresh
  <2>1. UNCHANGED posts
    BY <1>5 DEF Call
  <2>2. TypeOK'
    BY <1>1, <1>3, <1>4, <2>1 DEF IInv, TypeOK
  <2> QED
    BY <1>1, <1>3, <2>1, <2>2, Calm DEF IInv, quotaVars
<1>6. CASE workers[w].fresh
  <2>1. posts' = [posts EXCEPT ![r] = @ + 1]
    BY <1>6 DEF Call
  <2>2. Submitting(w) /\ marked[r] /\ posts[r] = 0
    BY <1>1, <1>6 DEF IInv, TickOK, Submitting
  <2>3. posts' \in [Runs -> Nat] /\ posts'[r] = 1 /\ \A b \in Runs : b # r => posts'[b] = posts[b]
    BY <2>1, <2>2, <1>1 DEF IInv, TypeOK
  <2>4. TypeOK'
    BY <1>1, <1>3, <1>4, <2>3 DEF IInv, TypeOK
  <2>5. QuotaOK' /\ LedgerTellsOutcome' /\ ChargeHasResult'
    <3>1. QuotaOK' /\ LedgerTellsOutcome'
      BY <1>1 DEF IInv, QuotaOK, QuotaMatchesRuns, Having, LedgerTellsOutcome
    <3>2. ChargeHasResult'
      BY <1>1 DEF IInv, ChargeHasResult
    <3> QED
      BY <3>1, <3>2
  <2>6. ASSUME NEW b \in Runs PROVE RunOK(b)'
    BY <1>1, <2>2, <2>3 DEF IInv, RunOK
  <2>7. workers'[w].phase \in {"sent", "error"} /\ \A v \in Workers : v # w => workers'[v] = workers[v]
    BY <1>2 DEF Move, IInv, TypeOK, Tick
  <2>8. \A v \in Workers : v # w /\ Submitting(v) => workers[v].run # r
    BY <2>2 DEF IInv, OneSubmitter
  <2>9. ASSUME NEW v \in Workers PROVE TickOK(v)'
    <3>1. CASE v = w
      BY <1>3, <2>7, <3>1, <1>1 DEF TickOK, Submitting, Retires
    <3>2. CASE v # w
      BY <1>1, <2>3, <2>7, <2>8, <3>2 DEF IInv, TickOK, Submitting
    <3> QED
      BY <3>1, <3>2
  <2>10. OneSubmitter'
    BY <2>7 DEF IInv, OneSubmitter, Submitting
  <2> QED
    BY <1>1, <2>4, <2>5, <2>6, <2>9, <2>10 DEF IInv
<1> QED
  BY <1>5, <1>6

LEMMA FaultSteps ==
    ASSUME IInv, NEW w \in Workers, PrepareFails(w) \/ Decline(w) \/ ResponseLost(w) \/ Crash(w)
    PROVE  IInv'
<1> USE DEF quotaVars, runVars, leaseVars, serviceVars
<1>1. \/ workers[w].phase # "idle" /\ (Move(w, "error") \/ Move(w, "declined"))
      \/ Rest(w)
  BY DEF PrepareFails, Decline, ResponseLost, Crash, InPhase
<1>2. workers' \in [Workers -> Tick] /\ \A v \in Workers : Retires(v)
  BY <1>1, MoveRetires, RestRetires
<1>3. /\ UNCHANGED <<limit, quotaVars, runVars, receipts, leaseVars, epoch, serviceVars, posts>>
      /\ \/ crashes' = crashes
         \/ crashes < MaxCrashes /\ crashes' = crashes + 1
  BY DEF PrepareFails, Decline, ResponseLost, Crash
<1>4. crashes' \in 0..MaxCrashes
  BY <1>3, SelfReviewAssumption DEF IInv, TypeOK
<1>5. TypeOK'
  BY <1>2, <1>3, <1>4 DEF IInv, TypeOK
<1> QED
  BY <1>2, <1>3, <1>5, Calm DEF IInv

LEMMA RespondStep ==
    ASSUME IInv, NEW w \in Workers, Respond(w)
    PROVE  IInv'
<1> USE DEF quotaVars, runVars, leaseVars, serviceVars
<1>1. /\ workers[w].phase = "sent"
      /\ UNCHANGED <<limit, quotaVars, runVars, receipts, leaseVars, epoch, serviceVars, posts,
                     crashes>>
  BY DEF Respond, InPhase
<1>2. CASE Move(w, "silent")
  <2>1. workers' \in [Workers -> Tick] /\ \A v \in Workers : Retires(v)
    BY <1>1, <1>2, MoveRetires
  <2>2. TypeOK'
    BY <1>1, <2>1 DEF IInv, TypeOK
  <2> QED
    BY <1>1, <2>1, <2>2, Calm DEF IInv
<1>3. ASSUME NEW e \in events, Take(w, e) PROVE IInv'
  <2>1. /\ workers'[w].phase = "answered" /\ workers'[w].run = workers[w].run
        /\ workers'[w].event = e
        /\ \A v \in Workers : v # w => workers'[v] = workers[v]
    BY <1>3 DEF Take, IInv, TypeOK
  <2>2. workers' \in [Workers -> Tick]
    <3>1. workers[w].run \in Runs \cup {NoRun} /\ workers[w].fresh \in BOOLEAN /\ e \in Event
      BY DEF IInv, TypeOK, Tick
    <3>2. [phase |-> "answered", run |-> workers[w].run, fresh |-> workers[w].fresh,
           event |-> e] \in Tick
      BY <3>1 DEF Tick, Phases
    <3> QED
      BY <1>3, <3>2 DEF Take, IInv, TypeOK
  <2>3. TypeOK'
    BY <1>1, <2>2 DEF IInv, TypeOK
  <2>4. QuotaOK' /\ LedgerTellsOutcome'
    BY <1>1 DEF IInv, QuotaOK, QuotaMatchesRuns, Having, LedgerTellsOutcome
  <2>5. ChargeHasResult'
    BY <1>1 DEF IInv, ChargeHasResult
  <2>6. ASSUME NEW b \in Runs PROVE RunOK(b)'
    BY <1>1 DEF IInv, RunOK
  <2>7. ASSUME NEW v \in Workers PROVE TickOK(v)'
    BY <1>1, <2>1 DEF IInv, TickOK, Submitting
  <2>8. OneSubmitter'
    BY <1>1, <2>1 DEF IInv, OneSubmitter, Submitting
  <2> QED
    BY <1>1, <2>3, <2>4, <2>5, <2>6, <2>7, <2>8 DEF IInv
<1> QED
  BY <1>2, <1>3 DEF Respond

LEMMA TakeEventStep ==
    ASSUME IInv, NEW w \in Workers, TakeEvent(w)
    PROVE  IInv'
<1> USE DEF quotaVars, runVars, leaseVars, serviceVars
<1> DEFINE e == workers[w].event
<1>1. /\ workers[w].phase = "answered" /\ e \in events
      /\ UNCHANGED <<limit, epoch, serviceVars, posts, crashes>>
  BY DEF TakeEvent, InPhase, IInv, TickOK
<1>2. CASE Accept(e) /\ Rest(w)
  <2>1. workers' \in [Workers -> Tick] /\ \A v \in Workers : Retires(v)
    BY <1>2, RestRetires
  <2> HIDE DEF e
  <2> QED
    BY <1>1, <1>2, <2>1, AcceptKept
<1>3. CASE /\ Rest(w) \/ Move(w, "error")
           /\ UNCHANGED <<quotaVars, runVars, receipts, leaseVars>>
  <2>1. workers' \in [Workers -> Tick] /\ \A v \in Workers : Retires(v)
    BY <1>1, <1>3, RestRetires, MoveRetires
  <2>2. TypeOK'
    BY <1>1, <1>3, <2>1 DEF IInv, TypeOK
  <2> QED
    BY <1>1, <1>3, <2>1, <2>2, Calm DEF IInv
<1> QED
  BY <1>2, <1>3 DEF TakeEvent

LEMMA TakeSilenceErrorStep ==
    ASSUME IInv, NEW w \in Workers, TakeSilence(w) \/ TakeError(w)
    PROVE  IInv'
<1> USE DEF quotaVars, runVars, leaseVars, serviceVars
<1> DEFINE r == workers[w].run
<1>1. /\ Rest(w) /\ r \in Runs
      /\ UNCHANGED <<limit, quotaVars, disposition, attempt, sequence, marked, grant, receipts,
                     owner, epoch, serviceVars, posts, crashes>>
  BY DEF TakeSilence, TakeError, InPhase, IInv, TickOK
<1>2. workers' \in [Workers -> Tick] /\ \A v \in Workers : Retires(v)
  BY <1>1, RestRetires
<1>3. CASE Holds(w)
  <2>1. PICK st \in {"running", "unknown_outcome", "capturing"} :
          /\ status' = [status EXCEPT ![r] = st]
          /\ marked[r] => st \in Dispatched
          /\ leased' = [leased EXCEPT ![r] = TRUE]
    BY <1>3 DEF TakeSilence, TakeError, Dispatched
  <2>2. TypeOK'
    <3>1. status' \in [Runs -> Statuses] /\ leased' \in [Runs -> BOOLEAN]
      BY <2>1 DEF IInv, TypeOK, Statuses, Dispatched
    <3> QED
      BY <1>1, <1>2, <3>1 DEF IInv, TypeOK
  <2>3. \A b \in Runs : \/ status'[b] = status[b]
                        \/ /\ disposition[b] = "reserved" /\ status'[b] # "succeeded"
                           /\ marked[b] => status'[b] \in Dispatched
    BY <1>1, <1>3, <2>1 DEF Holds, IInv, TypeOK
  <2> QED
    BY <1>1, <1>2, <2>2, <2>3, Calm DEF IInv
<1>4. CASE ~Holds(w)
  <2>1. UNCHANGED <<status, leased>>
    BY <1>4 DEF TakeSilence, TakeError
  <2>2. TypeOK'
    BY <1>1, <1>2, <2>1 DEF IInv, TypeOK
  <2> QED
    BY <1>1, <1>2, <2>1, <2>2, Calm DEF IInv
<1> QED
  BY <1>3, <1>4

LEMMA TakeRefusalStep ==
    ASSUME IInv, NEW w \in Workers, TakeRefusal(w)
    PROVE  IInv'
<1> USE DEF quotaVars, runVars, leaseVars, serviceVars
<1> DEFINE r == workers[w].run
<1>1. /\ Rest(w) /\ r \in Runs
      /\ UNCHANGED <<limit, attempt, sequence, marked, grant, receipts, owner, epoch,
                     serviceVars, posts, crashes>>
  BY DEF TakeRefusal, InPhase, IInv, TickOK
<1>2. workers' \in [Workers -> Tick] /\ \A v \in Workers : Retires(v)
  BY <1>1, RestRetires
<1>3. CASE Holds(w)
  <2>1. /\ disposition[r] = "reserved" /\ Settle(r, "released")
        /\ leased' = [leased EXCEPT ![r] = FALSE]
    BY <1>3 DEF TakeRefusal, Holds
  <2>2. /\ disposition' \in [Runs -> Dispositions] /\ status' \in [Runs -> Statuses]
        /\ used' \in Nat /\ reserved' \in Nat
        /\ ledger' \in [Runs -> Seq({"reserve", "consume", "release"})]
    BY <1>1, <2>1, SettleQuota
  <2>3. TypeOK'
    BY <1>1, <1>2, <2>1, <2>2 DEF IInv, TypeOK
  <2>4. ChargeHasResult'
    BY <1>1, <2>1, ReleaseCharges
  <2> HIDE DEF r
  <2> QED
    BY <1>1, <1>2, <2>1, <2>3, <2>4, SettleKept
<1>4. CASE ~Holds(w)
  <2>1. UNCHANGED <<quotaVars, status, disposition, leased>>
    BY <1>4 DEF TakeRefusal
  <2>2. TypeOK'
    BY <1>1, <1>2, <2>1 DEF IInv, TypeOK
  <2> QED
    BY <1>1, <1>2, <2>1, <2>2, Calm DEF IInv
<1> QED
  BY <1>3, <1>4

LEMMA NextIInv ==
    ASSUME IInv, [Next]_vars
    PROVE  IInv'
<1>1. ASSUME NEW r \in Runs, Start(r) \/ Release(r) \/ LeaseExpires(r) PROVE IInv'
  BY <1>1, StartStep, ReleaseStep, LeaseExpiresStep
<1>2. ASSUME NEW n \in 0..MaxLimit, SetPolicy(n) PROVE IInv'
  BY <1>2, SetPolicyStep
<1>3. ASSUME NEW e \in events, Callback(e) PROVE IInv'
  BY <1>3, CallbackStep
<1>4. ASSUME NEW w \in Workers, WorkerStep(w) PROVE IInv'
  BY <1>4, ClaimStep, PrepareStep, CallStep, RespondStep, TakeEventStep, TakeSilenceErrorStep,
     TakeRefusalStep DEF WorkerStep
<1>5. ASSUME NEW w \in Workers, PrepareFails(w) \/ Decline(w) \/ ResponseLost(w) \/ Crash(w)
      PROVE  IInv'
  BY <1>5, FaultSteps
<1>6. ASSUME NEW r \in Runs, NEW kind \in {"running"} \cup FinalKinds, Report(r, kind)
      PROVE  IInv'
  BY <1>6, ReportStep
<1>7. CASE ChangeAccess
  BY <1>7, ChangeAccessStep
<1>8. CASE UNCHANGED vars
  <2> USE DEF vars, quotaVars, runVars, leaseVars, serviceVars
  <2>1. TypeOK'
    BY <1>8 DEF IInv, TypeOK
  <2> QED
    BY <1>8, <2>1, Calm DEF Retires, IInv
<1> QED
  BY <1>1, <1>2, <1>3, <1>4, <1>5, <1>6, <1>7, <1>8 DEF Next

-----------------------------------------------------------------------------
\* The inductive invariant holds of every behaviour, fairness or not.
THEOREM Invariance == SafeSpec => []IInv
<1>1. Init => IInv
  BY InitIInv
<1>2. IInv /\ [Next]_vars => IInv'
  BY NextIInv
<1> QED
  BY <1>1, <1>2, PTL DEF SafeSpec

\* Every variable of the self-reviews stays in its set.
THEOREM TypeCorrect == Spec => []TypeOK
<1>1. IInv => TypeOK
  BY DEF IInv
<1> QED
  BY <1>1, Invariance, PTL DEF Spec

\* The quota row counts exactly the runs that hold or spent a slot, and at most
\* one run of a draft holds one, for any number of runs.
THEOREM QuotaIsExact == Spec => []QuotaMatchesRuns
<1>1. IInv => QuotaMatchesRuns
  BY DEF IInv, QuotaOK
<1> QED
  BY <1>1, Invariance, PTL DEF Spec

\* The ledger of a run is one reservation and at most one settlement.
THEOREM LedgerIsTrue == Spec => []LedgerTellsOutcome
<1>1. IInv => LedgerTellsOutcome
  BY DEF IInv
<1> QED
  BY <1>1, Invariance, PTL DEF Spec

\* A run is charged if and only if its last event brought a useful result.
THEOREM ChargedForResults == Spec => []ChargeHasResult
<1>1. IInv => ChargeHasResult
  BY DEF IInv
<1> QED
  BY <1>1, Invariance, PTL DEF Spec

\* No run is posted to the service twice, however leases, workers and answers
\* come and go.
THEOREM PostedAtMostOnce == Spec => []SubmittedOnce
<1>1. IInv => SubmittedOnce
  BY DEF IInv, RunOK, SubmittedOnce
<1> QED
  BY <1>1, Invariance, PTL DEF Spec

-----------------------------------------------------------------------------
\* Each step leaves the runs alone, starts one, or settles or moves reserved ones.
LEMMA StepKinds ==
    ASSUME IInv, [Next]_vars
    PROVE  \/ \E r \in Runs : Start(r)
           \/ \E r \in Runs, outcome \in {"consumed", "released"} :
                /\ disposition[r] = "reserved" /\ Settle(r, outcome)
                /\ \A b \in Runs : disposition[b] # "reserved" => sequence'[b] = sequence[b]
           \/ /\ UNCHANGED <<used, reserved, disposition>>
              /\ \A b \in Runs : disposition[b] # "reserved" =>
                   status'[b] = status[b] /\ sequence'[b] = sequence[b]
<1> USE DEF quotaVars, runVars, leaseVars, serviceVars
<1> DEFINE Settling ==
             \E r \in Runs, outcome \in {"consumed", "released"} :
                /\ disposition[r] = "reserved" /\ Settle(r, outcome)
                /\ \A b \in Runs : disposition[b] # "reserved" => sequence'[b] = sequence[b]
           Quiet ==
             /\ UNCHANGED <<used, reserved, disposition>>
             /\ \A b \in Runs : disposition[b] # "reserved" =>
                  status'[b] = status[b] /\ sequence'[b] = sequence[b]
<1>1. ASSUME NEW e \in events, Accept(e) PROVE Settling \/ Quiet
  <2>1. e.run \in Runs /\ disposition[e.run] = "reserved"
    BY <1>1 DEF Accept, Acceptable, IInv, TypeOK, Event
  <2>2. \A b \in Runs : disposition[b] # "reserved" => sequence'[b] = sequence[b]
    BY <1>1, <2>1 DEF Accept, IInv, TypeOK
  <2>3. CASE e.kind = "running" /\ AccessValid(e.run)
    BY <1>1, <2>1, <2>2, <2>3 DEF Accept, IInv, TypeOK
  <2>4. CASE ~(e.kind = "running" /\ AccessValid(e.run))
    BY <1>1, <2>1, <2>2, <2>4 DEF Accept
  <2> QED
    BY <2>3, <2>4
<1>2. ASSUME NEW r \in Runs, Release(r) PROVE Settling
  BY <1>2 DEF Release
<1>3. ASSUME NEW r \in Runs, LeaseExpires(r) PROVE Quiet
  BY <1>3 DEF LeaseExpires
<1>4. ASSUME NEW n \in 0..MaxLimit, SetPolicy(n) PROVE Quiet
  BY <1>4 DEF SetPolicy
<1>5. ASSUME ChangeAccess \/ UNCHANGED vars PROVE Quiet
  BY <1>5 DEF ChangeAccess, vars
<1>6. ASSUME NEW e \in events, Callback(e) PROVE Settling \/ Quiet
  BY <1>1, <1>6 DEF Callback
<1>7. ASSUME NEW w \in Workers, NEW r \in Runs, Claim(w, r) PROVE Settling \/ Quiet
  <2>1. CASE AccessValid(r)
    BY <1>7, <2>1 DEF Claim, IInv, TypeOK
  <2>2. CASE ~AccessValid(r)
    BY <1>7, <2>2 DEF Claim
  <2> QED
    BY <2>1, <2>2
<1>8. ASSUME NEW w \in Workers, Prepare(w) PROVE Quiet
  BY <1>8 DEF Prepare, Holds, IInv, TypeOK
<1>9. ASSUME NEW w \in Workers, Call(w) \/ Respond(w) PROVE Quiet
  BY <1>9 DEF Call, Respond
<1>10. ASSUME NEW w \in Workers, TakeEvent(w) PROVE Settling \/ Quiet
  <2>1. workers[w].event \in events
    BY <1>10 DEF TakeEvent, InPhase, IInv, TickOK
  <2> QED
    BY <1>1, <1>10, <2>1 DEF TakeEvent
<1>11. ASSUME NEW w \in Workers, TakeSilence(w) \/ TakeError(w) PROVE Quiet
  BY <1>11 DEF TakeSilence, TakeError, Holds, IInv, TypeOK
<1>12. ASSUME NEW w \in Workers, TakeRefusal(w) PROVE Settling \/ Quiet
  <2>1. workers[w].run \in Runs
    BY <1>12 DEF TakeRefusal, InPhase, IInv, TickOK
  <2> QED
    BY <1>12, <2>1 DEF TakeRefusal, Holds
<1>13. ASSUME NEW w \in Workers, PrepareFails(w) \/ Decline(w) \/ ResponseLost(w) \/ Crash(w)
       PROVE  Quiet
  BY <1>13 DEF PrepareFails, Decline, ResponseLost, Crash
<1>14. ASSUME NEW r \in Runs, NEW kind \in {"running"} \cup FinalKinds, Report(r, kind)
       PROVE  Quiet
  BY <1>14 DEF Report
<1> HIDE DEF Settling, Quiet
<1>15. ASSUME NEW w \in Workers, WorkerStep(w) PROVE Settling \/ Quiet
  BY <1>7, <1>8, <1>9, <1>10, <1>11, <1>12, <1>15 DEF WorkerStep
<1>16. (\E r \in Runs : Start(r)) \/ Settling \/ Quiet
  <2>1. CASE Next
    BY <1>2, <1>3, <1>4, <1>5, <1>6, <1>13, <1>14, <1>15, <2>1 DEF Next
  <2> QED
    BY <1>5, <2>1
<1> QED
  BY <1>16 DEF Settling, Quiet

\* Slots are taken within the limit in force, whatever happens to the limit.
THEOREM NothingPastTheLimit == Spec => WithinLimit
<1>1. ASSUME IInv, [Next]_vars, used' + reserved' > used + reserved
      PROVE  used' + reserved' <= limit
  <2>1. used \in Nat /\ reserved \in Nat /\ limit \in Nat
    BY <1>1, SelfReviewAssumption DEF IInv, TypeOK
  <2>2. ASSUME NEW r \in Runs, Start(r) PROVE used' + reserved' <= limit
    BY <2>1, <2>2 DEF Start, Remaining
  <2>3. ASSUME NEW r \in Runs, NEW outcome \in {"consumed", "released"}, Settle(r, outcome)
        PROVE  FALSE
    BY <1>1, <2>1, <2>3 DEF Settle
  <2>4. ASSUME UNCHANGED <<used, reserved>> PROVE FALSE
    BY <1>1, <2>1, <2>4
  <2> QED
    BY <1>1, <2>2, <2>3, <2>4, StepKinds
<1>2. IInv /\ [Next]_vars =>
        [used' + reserved' > used + reserved => used' + reserved' <= limit]_vars
  BY <1>1
<1> QED
  BY <1>2, Invariance, PTL DEF Spec, SafeSpec, WithinLimit

\* A settled run stays as it is, whatever answer, event or lease comes late.
THEOREM SettledForGood == Spec => SettledIsFinal
<1>1. ASSUME IInv, [Next]_vars, NEW r \in Runs, disposition[r] \in {"consumed", "released"}
      PROVE  /\ disposition'[r] = disposition[r]
             /\ status'[r] = status[r]
             /\ sequence'[r] = sequence[r]
  <2>1. ASSUME NEW b \in Runs, Start(b)
        PROVE  /\ disposition'[r] = disposition[r]
               /\ status'[r] = status[r]
               /\ sequence'[r] = sequence[r]
    BY <1>1, <2>1 DEF Start, IInv, TypeOK
  <2>2. ASSUME NEW b \in Runs, NEW outcome \in {"consumed", "released"}, Settle(b, outcome),
               disposition[b] = "reserved"
        PROVE  disposition'[r] = disposition[r] /\ status'[r] = status[r]
    BY <1>1, <2>2 DEF Settle, IInv, TypeOK
  <2> QED
    BY <1>1, <2>1, <2>2, StepKinds
<1>2. IInv /\ [Next]_vars =>
        [\A r \in Runs : disposition[r] \in {"consumed", "released"} =>
           /\ disposition'[r] = disposition[r]
           /\ status'[r] = status[r]
           /\ sequence'[r] = sequence[r]]_vars
  BY <1>1
<1> QED
  BY <1>2, Invariance, PTL DEF Spec, SafeSpec, SettledIsFinal
=============================================================================
