---------------------------- MODULE CommandsProofs ---------------------------
(***************************************************************************)
(* Proofs about Commands for any users, calls, keys and commands: a key    *)
(* has one effect, an answer tells the effect of its own command, and      *)
(* role changes that race with each other leave a methodologist.           *)
(***************************************************************************)
EXTENDS Commands, FiniteSetTheorems, SequenceTheorems, TLAPS

\* An edit whose transaction depends on the receipt of its key.
KeyInUse == Holding \union {"replay"}

\* Where a call is tells what the receipt of its key is: none while its own
\* transaction may insert it, one of the same command while it is replayed.
CallOK(r) ==
    /\ At(r, {"authorized"} \union KeyInUse) => IsEdit(r)
    /\ At(r, {"organization"}) => ~IsEdit(r)
    /\ At(r, Holding) => receipts[KeyOf[r]] = NoReceipt
    /\ At(r, {"replay"}) => Repeated(r) /\ receipts[KeyOf[r]].command = CommandOf[r]

\* Transactions of one key wait for each other.
KeyHeldOnce ==
    \A r, x \in Requests :
        At(r, KeyInUse) /\ At(x, KeyInUse) /\ KeyOf[r] = KeyOf[x] => r = x

\* A receipt points to the effect of an edit with its key and command, and an
\* edit that had an effect left the receipt of its key pointing to it.
ReceiptsOK ==
    \A k \in Keys : receipts[k] # NoReceipt =>
        /\ receipts[k].result \in DOMAIN log
        /\ IsEdit(log[receipts[k].result].request)
        /\ KeyOf[log[receipts[k].result].request] = k
        /\ CommandOf[log[receipts[k].result].request] = receipts[k].command

LogOK ==
    \A i \in DOMAIN log : IsEdit(log[i].request) =>
        /\ receipts[KeyOf[log[i].request]] # NoReceipt
        /\ receipts[KeyOf[log[i].request]].result = i

IInv ==
    /\ TypeOK
    /\ \A r \in Requests : CallOK(r)
    /\ KeyHeldOnce /\ ReceiptsOK /\ LogOK
    /\ AnswersTellTheEffect /\ AMethodologistRemains
-----------------------------------------------------------------------------
(* Steps that move a call and its answer and leave the data alone.         *)

CallStates == [step : Steps, role : {"methodologist", "reviewer", "none"}, epoch : Nat]
Outcomes == [outcome : {"none", "success", "denied", "conflict", "error"}, result : Nat]

\* The answer tells an effect of the call's command under its key.
TellsEffect(r, answer) ==
    answer.outcome = "success" =>
        /\ answer.result \in DOMAIN log
        /\ KeyOf[log[answer.result].request] = KeyOf[r]
        /\ CommandOf[log[answer.result].request] = CommandOf[r]

\* The call may stand where call says.
MayStand(r, call) ==
    /\ call.step \in {"authorized"} \union KeyInUse => IsEdit(r)
    /\ call.step = "organization" => ~IsEdit(r)
    /\ call.step \in Holding => receipts[KeyOf[r]] = NoReceipt
    /\ call.step = "replay" => Repeated(r) /\ receipts[KeyOf[r]].command = CommandOf[r]
    /\ call.step \in KeyInUse => At(r, KeyInUse) \/ MayInsert(r)

LEMMA QuietStep ==
    ASSUME IInv, NEW r \in Requests, NEW call \in CallStates, NEW answer \in Outcomes,
           calls' = [calls EXCEPT ![r] = call], MayStand(r, call),
           answers' = [answers EXCEPT ![r] = answer], TellsEffect(r, answer),
           organization' \in Requests \union {NoOne}, made' \in [Requests -> Nat],
           UNCHANGED data
    PROVE  IInv'
<1> /\ UNCHANGED roles /\ UNCHANGED epoch /\ UNCHANGED revision /\ UNCHANGED receipts
    /\ UNCHANGED log
  BY DEF data
<1> calls \in [Requests -> CallStates] /\ answers \in [Requests -> Outcomes]
  BY DEF IInv, TypeOK, CallStates, Outcomes
<1>1. TypeOK'
  <2>1. calls' \in [Requests -> CallStates] /\ answers' \in [Requests -> Outcomes]
    OBVIOUS
  <2> QED
    BY <2>1 DEF IInv, TypeOK, CallStates, Outcomes
<1>2. calls'[r] = call /\ \A x \in Requests \ {r} : calls'[x] = calls[x]
  OBVIOUS
<1>3. ASSUME NEW x \in Requests PROVE CallOK(x)'
  <2>1. CASE x = r
    BY <1>2, <2>1 DEF CallOK, MayStand, At, IsEdit, Repeated
  <2>2. CASE x # r
    BY <1>2, <2>2 DEF IInv, CallOK, At, IsEdit, Repeated
  <2> QED
    BY <2>1, <2>2
<1>4. KeyHeldOnce'
  <2> SUFFICES ASSUME NEW x \in Requests, NEW y \in Requests, x # y,
                      At(x, KeyInUse)', At(y, KeyInUse)', KeyOf[x] = KeyOf[y]
               PROVE  FALSE
    BY DEF KeyHeldOnce, KeyInUse, Holding
  <2>1. \A z \in Requests \ {r} : At(z, KeyInUse)' => At(z, KeyInUse) /\ IsEdit(z)
    BY <1>2 DEF IInv, CallOK, At
  <2>2. CASE x # r /\ y # r
    BY <2>1, <2>2 DEF IInv, KeyHeldOnce
  <2>3. ASSUME NEW z \in Requests \ {r}, At(r, KeyInUse)', At(z, KeyInUse)', KeyOf[z] = KeyOf[r]
        PROVE  FALSE
    <3>1. At(z, KeyInUse) /\ IsEdit(z)
      BY <2>1, <2>3
    <3>2. At(r, KeyInUse) \/ MayInsert(r)
      BY <1>2, <2>3 DEF MayStand, At
    <3> QED
      BY <2>3, <3>1, <3>2 DEF IInv, KeyHeldOnce, MayInsert, KeyInUse
  <2> QED
    BY <2>2, <2>3
<1>5. ReceiptsOK' /\ LogOK'
  BY DEF IInv, ReceiptsOK, LogOK, IsEdit
<1>6. AnswersTellTheEffect'
  <2> SUFFICES ASSUME NEW x \in Requests, answers'[x].outcome = "success"
               PROVE  /\ answers'[x].result \in DOMAIN log
                      /\ KeyOf[log[answers'[x].result].request] = KeyOf[x]
                      /\ CommandOf[log[answers'[x].result].request] = CommandOf[x]
    BY DEF AnswersTellTheEffect
  <2>1. CASE x = r
    BY <2>1 DEF TellsEffect
  <2>2. CASE x # r
    BY <2>2 DEF IInv, AnswersTellTheEffect
  <2> QED
    BY <2>1, <2>2
<1>7. AMethodologistRemains'
  BY DEF IInv, AMethodologistRemains, Methodologists
<1> QED
  BY <1>1, <1>3, <1>4, <1>5, <1>6, <1>7 DEF IInv

\* A call moves on within its transaction.
LEMMA MovingStep ==
    ASSUME IInv, NEW r \in Requests, NEW step \in Steps, Moves(r, step),
           MayStand(r, [calls[r] EXCEPT !.step = step]),
           organization' \in Requests \union {NoOne}, UNCHANGED <<data, answers, made>>
    PROVE  IInv'
<1> calls \in [Requests -> CallStates] /\ answers \in [Requests -> Outcomes]
    /\ made \in [Requests -> Nat]
  BY DEF IInv, TypeOK, CallStates, Outcomes
<1> DEFINE call == [calls[r] EXCEPT !.step = step]
<1>1. call \in CallStates
  BY DEF CallStates
<1>2. calls' = [calls EXCEPT ![r] = call]
  BY DEF Moves
<1>3. answers[r] \in Outcomes /\ answers' = [answers EXCEPT ![r] = answers[r]]
  OBVIOUS
<1>4. TellsEffect(r, answers[r])
  BY DEF IInv, AnswersTellTheEffect, TellsEffect
<1>5. UNCHANGED data /\ made' \in [Requests -> Nat]
  OBVIOUS
<1>6. MayStand(r, call)
  OBVIOUS
<1> HIDE DEF call
<1> QED
  BY <1>1, <1>2, <1>3, <1>4, <1>5, <1>6, QuietStep

LEMMA RestingCall ==
    ASSUME NEW r \in Requests
    PROVE  Resting \in CallStates /\ MayStand(r, Resting)
BY DEF Resting, CallStates, Steps, MayStand, KeyInUse, Holding

\* A call ends without an effect and is told nothing or the effect of its key.
LEMMA AnsweringStep ==
    ASSUME IInv, NEW r \in Requests, NEW outcome, NEW result, Answer(r, outcome, result),
           Told(outcome, result) \in Outcomes, TellsEffect(r, Told(outcome, result)),
           UNCHANGED data
    PROVE  IInv'
<1>1. organization' \in Requests \union {NoOne} /\ made' \in [Requests -> Nat]
  BY DEF IInv, TypeOK, Answer
<1>2. /\ calls' = [calls EXCEPT ![r] = Resting]
      /\ answers' = [answers EXCEPT ![r] = Told(outcome, result)]
  BY DEF Answer
<1> QED
  BY <1>1, <1>2, RestingCall, QuietStep

LEMMA RefusingStep ==
    ASSUME IInv, NEW r \in Requests, NEW outcome \in {"denied", "conflict", "error"},
           Refuse(r, outcome)
    PROVE  IInv'
<1>1. Told(outcome, 0) \in Outcomes /\ TellsEffect(r, Told(outcome, 0))
  BY DEF Told, Outcomes, TellsEffect
<1>2. Answer(r, outcome, 0) /\ UNCHANGED data
  BY DEF Refuse
<1> QED
  BY <1>1, <1>2, AnsweringStep

-----------------------------------------------------------------------------
(* One lemma per action that only moves a call.                            *)

LEMMA CallStep ==
    ASSUME IInv, NEW r \in Requests, Call(r) PROVE IInv'
<1> DEFINE call == [step |-> "sent", role |-> roles[UserOf[r]], epoch |-> epoch[UserOf[r]]]
<1>1. call \in CallStates
  BY CommandsAssumption DEF IInv, TypeOK, CallStates, Steps
<1>2. MayStand(r, call)
  BY DEF MayStand, KeyInUse, Holding
<1>3. /\ calls' = [calls EXCEPT ![r] = call]
      /\ answers' = [answers EXCEPT ![r] = Nothing]
      /\ organization' \in Requests \union {NoOne} /\ UNCHANGED data
  BY DEF Call, IInv, TypeOK
<1>4. made' \in [Requests -> Nat]
  BY DEF Call, IInv, TypeOK
<1>5. Nothing \in Outcomes /\ TellsEffect(r, Nothing)
  BY DEF Nothing, Told, Outcomes, TellsEffect
<1> HIDE DEF call
<1> QED
  BY <1>1, <1>2, <1>3, <1>4, <1>5, QuietStep

\* Moving on changes the step of the call and nothing else of it.
LEMMA MovedCall ==
    ASSUME IInv, NEW r \in Requests, NEW step
    PROVE  [calls[r] EXCEPT !.step = step].step = step
<1>1. calls[r] \in CallStates
  BY DEF IInv, TypeOK, CallStates
<1> QED
  BY <1>1 DEF CallStates

LEMMA AuthorizeStep ==
    ASSUME IInv, NEW r \in Requests, Authorize(r) PROVE IInv'
<1>1. CASE /\ Moves(r, "authorized") /\ UNCHANGED <<data, organization, answers, made>>
  <2>1. MayStand(r, [calls[r] EXCEPT !.step = "authorized"])
    BY MovedCall DEF MayStand, KeyInUse, Holding, Authorize
  <2>2. organization' \in Requests \union {NoOne} /\ UNCHANGED <<data, answers, made>>
    BY <1>1 DEF IInv, TypeOK
  <2> QED
    BY <1>1, <2>1, <2>2, MovingStep DEF Steps
<1>2. CASE Refuse(r, "denied")
  BY <1>2, RefusingStep
<1> QED
  BY <1>1, <1>2 DEF Authorize

LEMMA ReserveStep ==
    ASSUME IInv, NEW r \in Requests, Reserve(r) PROVE IInv'
<1>1. IsEdit(r) /\ MayInsert(r)
  BY DEF Reserve, IInv, CallOK, At
<1>2. CASE ~Repeated(r) /\ Moves(r, "reserved") /\ UNCHANGED <<data, organization, answers, made>>
  <2>1. MayStand(r, [calls[r] EXCEPT !.step = "reserved"])
    BY <1>1, <1>2, MovedCall DEF MayStand, KeyInUse, Holding, Repeated
  <2>2. organization' \in Requests \union {NoOne} /\ UNCHANGED <<data, answers, made>>
    BY <1>2 DEF IInv, TypeOK
  <2> QED
    BY <1>2, <2>1, <2>2, MovingStep DEF Steps
<1>3. CASE /\ Repeated(r) /\ SameCommand(r) /\ Moves(r, "replay")
           /\ UNCHANGED <<data, organization, answers, made>>
  <2>1. MayStand(r, [calls[r] EXCEPT !.step = "replay"])
    BY <1>1, <1>3, MovedCall DEF MayStand, KeyInUse, Holding, SameCommand
  <2>2. organization' \in Requests \union {NoOne} /\ UNCHANGED <<data, answers, made>>
    BY <1>3 DEF IInv, TypeOK
  <2> QED
    BY <1>3, <2>1, <2>2, MovingStep DEF Steps
<1>4. CASE Refuse(r, "conflict")
  BY <1>4, RefusingStep
<1> QED
  BY <1>2, <1>3, <1>4 DEF Reserve

LEMMA HandleStep ==
    ASSUME IInv, NEW r \in Requests, Handle(r) PROVE IInv'
<1>1. At(r, KeyInUse) /\ IsEdit(r) /\ receipts[KeyOf[r]] = NoReceipt
  BY DEF Handle, IInv, CallOK, At, KeyInUse, Holding
<1>2. CASE Moves(r, "handled") /\ UNCHANGED <<data, organization, answers, made>>
  <2>1. MayStand(r, [calls[r] EXCEPT !.step = "handled"])
    BY <1>1, MovedCall DEF MayStand, KeyInUse, Holding
  <2>2. organization' \in Requests \union {NoOne} /\ UNCHANGED <<data, answers, made>>
    BY <1>2 DEF IInv, TypeOK
  <2> QED
    BY <1>2, <2>1, <2>2, MovingStep DEF Steps
<1>3. CASE Refuse(r, "conflict")
  BY <1>3, RefusingStep
<1> QED
  BY <1>2, <1>3 DEF Handle

\* A replay tells the effect the receipt points to.
LEMMA AnswerReplayStep ==
    ASSUME IInv, NEW r \in Requests, AnswerReplay(r) PROVE IInv'
<1>1. CASE Refuse(r, "denied")
  BY <1>1, RefusingStep
<1>2. CASE Answer(r, "success", receipts[KeyOf[r]].result) /\ UNCHANGED data
  <2> DEFINE receipt == receipts[KeyOf[r]]
  <2>1. KeyOf[r] \in Keys
    BY DEF Keys
  <2>2. receipt # NoReceipt /\ receipt.command = CommandOf[r]
    BY DEF AnswerReplay, IInv, CallOK, At, Repeated
  <2>3. receipt.result \in Nat
    BY <2>1 DEF IInv, TypeOK
  <2>4. Told("success", receipt.result) \in Outcomes
    BY <2>3 DEF Told, Outcomes
  <2>5. TellsEffect(r, Told("success", receipt.result))
    BY <2>1, <2>2 DEF IInv, ReceiptsOK, TellsEffect, Told
  <2> QED
    BY <1>2, <2>4, <2>5, AnsweringStep
<1> QED
  BY <1>1, <1>2 DEF AnswerReplay

LEMMA LockOrganizationStep ==
    ASSUME IInv, NEW r \in Requests, LockOrganization(r) PROVE IInv'
<1>1. MayStand(r, [calls[r] EXCEPT !.step = "organization"])
  BY MovedCall DEF MayStand, KeyInUse, Holding, LockOrganization
<1>2. /\ Moves(r, "organization") /\ organization' \in Requests \union {NoOne}
      /\ UNCHANGED <<data, answers, made>>
  BY DEF LockOrganization
<1> QED
  BY <1>1, <1>2, MovingStep DEF Steps

LEMMA BrokenStep ==
    ASSUME IInv, NEW r \in Requests, DeadlockVictim(r) \/ Crash(r) PROVE IInv'
BY RefusingStep DEF DeadlockVictim, Crash

-----------------------------------------------------------------------------
(* The two actions that commit an effect.                                  *)

LEMMA LogEntries ==
    ASSUME IInv
    PROVE  \A i \in DOMAIN log : log[i].request \in Requests
<1>1. log \in Seq([request : Requests, epoch : Nat])
  BY DEF IInv, TypeOK
<1>2. DOMAIN log = 1 .. Len(log)
  BY <1>1
<1>3. ASSUME NEW i \in DOMAIN log PROVE log[i] \in [request : Requests, epoch : Nat]
  BY <1>1, <1>2, ElementOfSeq
<1>4. ASSUME NEW i \in DOMAIN log PROVE log[i].request \in Requests
  BY <1>3
<1> QED
  BY <1>4

\* Committing appends an entry of the call and answers it with its place.
LEMMA Committed ==
    ASSUME IInv, NEW r \in Requests, Answer(r, "success", Len(log) + 1),
           log' = Append(log, [request |-> r, epoch |-> calls[r].epoch])
    PROVE  /\ log' \in Seq([request : Requests, epoch : Nat])
           /\ Len(log') = Len(log) + 1 /\ Len(log) \in Nat
           /\ \A i \in DOMAIN log : log'[i] = log[i] /\ i \in DOMAIN log' /\ i # Len(log) + 1
           /\ \A i \in DOMAIN log' : i \in DOMAIN log \/ i = Len(log) + 1
           /\ Len(log) + 1 \in DOMAIN log'
           /\ log'[Len(log) + 1].request = r
           /\ AnswersTellTheEffect'
           /\ calls' \in [Requests -> CallStates] /\ answers' \in [Requests -> Outcomes]
           /\ organization' \in Requests \union {NoOne} /\ made' \in [Requests -> Nat]
           /\ calls'[r] = Resting /\ \A x \in Requests \ {r} : calls'[x] = calls[x]
<1> DEFINE entry == [request |-> r, epoch |-> calls[r].epoch]
<1>1. /\ calls \in [Requests -> CallStates] /\ answers \in [Requests -> Outcomes]
      /\ log \in Seq([request : Requests, epoch : Nat])
  BY DEF IInv, TypeOK, CallStates, Outcomes
<1>2. entry \in [request : Requests, epoch : Nat] /\ entry.request = r
  BY <1>1 DEF CallStates
<1>3. log' = Append(log, entry)
  OBVIOUS
<1> HIDE DEF entry
<1>4. /\ log' \in Seq([request : Requests, epoch : Nat])
      /\ Len(log') = Len(log) + 1 /\ Len(log) \in Nat
      /\ DOMAIN log = 1 .. Len(log) /\ DOMAIN log' = 1 .. Len(log) + 1
      /\ \A i \in 1 .. Len(log) : log'[i] = log[i]
      /\ log'[Len(log) + 1] = entry
  BY <1>1, <1>2, <1>3
<1>5. \A i \in DOMAIN log : log'[i] = log[i] /\ i \in DOMAIN log' /\ i # Len(log) + 1
  BY <1>4
<1>6. /\ \A i \in DOMAIN log' : i \in DOMAIN log \/ i = Len(log) + 1
      /\ Len(log) + 1 \in DOMAIN log'
      /\ log'[Len(log) + 1].request = r
  BY <1>2, <1>4
<1>7. Told("success", Len(log) + 1) \in Outcomes
  BY <1>4 DEF Told, Outcomes
<1>8. /\ calls' = [calls EXCEPT ![r] = Resting]
      /\ answers' = [answers EXCEPT ![r] = Told("success", Len(log) + 1)]
      /\ organization' \in Requests \union {NoOne} /\ made' \in [Requests -> Nat]
  BY DEF Answer, IInv, TypeOK
<1>9. calls' \in [Requests -> CallStates] /\ answers' \in [Requests -> Outcomes]
  BY <1>1, <1>7, <1>8, RestingCall
<1>10. calls'[r] = Resting /\ \A x \in Requests \ {r} : calls'[x] = calls[x]
  BY <1>1, <1>8
<1>11. AnswersTellTheEffect'
  <2> SUFFICES ASSUME NEW x \in Requests, answers'[x].outcome = "success"
               PROVE  /\ answers'[x].result \in DOMAIN log'
                      /\ KeyOf[log'[answers'[x].result].request] = KeyOf[x]
                      /\ CommandOf[log'[answers'[x].result].request] = CommandOf[x]
    BY DEF AnswersTellTheEffect
  <2>1. CASE x = r
    BY <1>1, <1>6, <1>8, <2>1 DEF Told
  <2>2. CASE x # r
    BY <1>1, <1>5, <1>8, <2>2 DEF IInv, AnswersTellTheEffect
  <2> QED
    BY <2>1, <2>2
<1> QED
  BY <1>4, <1>5, <1>6, <1>8, <1>9, <1>10, <1>11

\* The only writer of its key commits, so nobody else counted on the receipt.
LEMMA CommitEditStep ==
    ASSUME IInv, NEW r \in Requests, CommitEdit(r) PROVE IInv'
<1>1. CASE Refuse(r, "denied")
  BY <1>1, RefusingStep
<1>2. CASE ~Refuse(r, "denied")
  <2> DEFINE receipt == [command |-> CommandOf[r], user |-> UserOf[r], epoch |-> calls[r].epoch,
                         result |-> Len(log) + 1]
             new == Len(log) + 1
             key == KeyOf[r]
  <2>1. /\ Answer(r, "success", Len(log) + 1)
        /\ log' = Append(log, [request |-> r, epoch |-> calls[r].epoch])
        /\ receipts' = [receipts EXCEPT ![key] = receipt]
        /\ revision' = revision + 1 /\ roles' = roles /\ epoch' = epoch
    BY <1>2 DEF CommitEdit
  <2>2. /\ IsEdit(r) /\ receipts[key] = NoReceipt /\ At(r, KeyInUse) /\ key \in Keys
    BY DEF CommitEdit, IInv, CallOK, At, KeyInUse, Holding, Keys
  <2>3. /\ log' \in Seq([request : Requests, epoch : Nat])
        /\ Len(log) \in Nat
        /\ \A i \in DOMAIN log : log'[i] = log[i] /\ i \in DOMAIN log' /\ i # new
        /\ \A i \in DOMAIN log' : i \in DOMAIN log \/ i = new
        /\ new \in DOMAIN log' /\ log'[new].request = r
        /\ AnswersTellTheEffect'
        /\ calls' \in [Requests -> CallStates] /\ answers' \in [Requests -> Outcomes]
        /\ organization' \in Requests \union {NoOne} /\ made' \in [Requests -> Nat]
        /\ calls'[r] = Resting /\ \A x \in Requests \ {r} : calls'[x] = calls[x]
    BY <2>1, Committed
  <2>4. calls[r].epoch \in Nat /\ UserOf[r] \in Users
    BY CommandsAssumption DEF IInv, TypeOK
  <2>5. /\ receipt \in [command : {CommandOf[x] : x \in Requests} \union {"none"},
                        user : Users \union {"none"}, epoch : Nat, result : Nat]
        /\ receipt # NoReceipt /\ receipt.result = new /\ receipt.command = CommandOf[r]
    BY <2>3, <2>4 DEF NoReceipt
  <2> HIDE DEF receipt
  <2>6. /\ receipts'[key] = receipt /\ \A k \in Keys \ {key} : receipts'[k] = receipts[k]
        /\ receipts' \in [Keys -> [command : {CommandOf[x] : x \in Requests} \union {"none"},
                                   user : Users \union {"none"}, epoch : Nat, result : Nat]]
    BY <2>1, <2>2, <2>5 DEF IInv, TypeOK
  <2>7. TypeOK'
    <3>1. revision' \in Nat /\ roles' \in [Users -> {"methodologist", "reviewer"}]
          /\ epoch' \in [Users -> Nat]
      BY <2>1 DEF IInv, TypeOK
    <3> QED
      BY <2>3, <2>6, <3>1 DEF TypeOK, CallStates, Outcomes
  <2>8. \A x \in Requests \ {r} : At(x, KeyInUse) => KeyOf[x] # key
    BY <2>2 DEF IInv, KeyHeldOnce
  <2>9. ASSUME NEW x \in Requests PROVE CallOK(x)'
    <3>1. CASE x = r
      BY <2>3, <3>1 DEF CallOK, At, Resting, KeyInUse, Holding
    <3>2. CASE x # r
      <4>1. At(x, KeyInUse) => receipts'[KeyOf[x]] = receipts[KeyOf[x]]
        BY <2>6, <2>8, <3>2 DEF Keys
      <4> QED
        BY <2>3, <3>2, <4>1 DEF IInv, CallOK, At, IsEdit, KeyInUse, Repeated
    <3> QED
      BY <3>1, <3>2
  <2>10. KeyHeldOnce'
    <3>1. ~At(r, KeyInUse)'
      BY <2>3 DEF At, Resting, KeyInUse, Holding
    <3>2. \A x \in Requests \ {r} : At(x, KeyInUse)' <=> At(x, KeyInUse)
      BY <2>3 DEF At
    <3> QED
      BY <3>1, <3>2 DEF IInv, KeyHeldOnce
  <2>11. ReceiptsOK'
    <3> SUFFICES ASSUME NEW k \in Keys, receipts'[k] # NoReceipt
                 PROVE  /\ receipts'[k].result \in DOMAIN log'
                        /\ IsEdit(log'[receipts'[k].result].request)
                        /\ KeyOf[log'[receipts'[k].result].request] = k
                        /\ CommandOf[log'[receipts'[k].result].request] = receipts'[k].command
      BY DEF ReceiptsOK, IsEdit, NoReceipt
    <3>1. CASE k = key
      BY <2>2, <2>3, <2>5, <2>6, <3>1
    <3>2. CASE k # key
      <4>1. receipts'[k] = receipts[k]
        BY <2>6, <3>2
      <4>2. /\ receipts[k].result \in DOMAIN log
            /\ IsEdit(log[receipts[k].result].request)
            /\ KeyOf[log[receipts[k].result].request] = k
            /\ CommandOf[log[receipts[k].result].request] = receipts[k].command
        BY <4>1 DEF IInv, ReceiptsOK
      <4> QED
        BY <2>3, <4>1, <4>2
    <3> QED
      BY <3>1, <3>2
  <2>12. LogOK'
    <3> SUFFICES ASSUME NEW i \in DOMAIN log', IsEdit(log'[i].request)
                 PROVE  /\ receipts'[KeyOf[log'[i].request]] # NoReceipt
                        /\ receipts'[KeyOf[log'[i].request]].result = i
      BY DEF LogOK, IsEdit, NoReceipt
    <3>1. CASE i = new
      BY <2>3, <2>5, <2>6, <3>1
    <3>2. CASE i \in DOMAIN log
      <4>1. log[i].request \in Requests
        BY <3>2, LogEntries
      <4>2. /\ receipts[KeyOf[log[i].request]] # NoReceipt
            /\ receipts[KeyOf[log[i].request]].result = i
        BY <2>3, <3>2 DEF IInv, LogOK
      <4>3. KeyOf[log[i].request] \in Keys \ {key}
        BY <2>2, <4>1, <4>2 DEF Keys
      <4> QED
        BY <2>3, <2>6, <3>2, <4>2, <4>3
    <3> QED
      BY <2>3, <3>1, <3>2
  <2>13. AMethodologistRemains'
    BY <2>1 DEF IInv, AMethodologistRemains, Methodologists
  <2> QED
    BY <2>3, <2>7, <2>9, <2>10, <2>11, <2>12, <2>13 DEF IInv
<1> QED
  BY <1>1, <1>2

\* Somebody else keeps the role a change takes away.
LEMMA RoleTaken ==
    ASSUME IInv, NEW r \in Requests, AnotherRemains(r),
           roles' = [roles EXCEPT ![CommandOf[r]] = "reviewer"]
    PROVE  AMethodologistRemains'
<1> DEFINE target == CommandOf[r]
<1>1. Methodologists' = Methodologists \ {target}
  BY DEF Methodologists, IInv, TypeOK
<1>2. Methodologists # {}
  BY DEF IInv, AMethodologistRemains
<1>3. ASSUME Methodologists \ {target} = {} PROVE FALSE
  <2>1. Methodologists = {target}
    BY <1>2, <1>3
  <2>2. Cardinality(Methodologists) = 1
    BY <2>1, FS_Singleton
  <2>3. Cardinality(Methodologists) > 1
    BY <2>1 DEF AnotherRemains
  <2> QED
    BY <2>2, <2>3
<1> QED
  BY <1>1, <1>3 DEF AMethodologistRemains

LEMMA ChangeRolesStep ==
    ASSUME IInv, NEW r \in Requests, ChangeRoles(r) PROVE IInv'
<1>1. CASE Refuse(r, "denied")
  BY <1>1, RefusingStep
<1>2. CASE ~Refuse(r, "denied")
  <2> DEFINE target == CommandOf[r]
             new == Len(log) + 1
  <2>1. /\ Answer(r, "success", Len(log) + 1)
        /\ log' = Append(log, [request |-> r, epoch |-> calls[r].epoch])
        /\ roles' = [roles EXCEPT ![target] = "reviewer"]
        /\ epoch' = [epoch EXCEPT ![target] = @ + 1]
        /\ revision' = revision /\ receipts' = receipts
        /\ AnotherRemains(r)
    BY <1>2 DEF ChangeRoles
  <2>2. ~IsEdit(r) /\ target \in Users
    BY DEF ChangeRoles, IInv, CallOK, At, IsEdit
  <2>3. /\ log' \in Seq([request : Requests, epoch : Nat])
        /\ \A i \in DOMAIN log : log'[i] = log[i] /\ i \in DOMAIN log'
        /\ \A i \in DOMAIN log' : i \in DOMAIN log \/ i = new
        /\ log'[new].request = r
        /\ AnswersTellTheEffect'
        /\ calls' \in [Requests -> CallStates] /\ answers' \in [Requests -> Outcomes]
        /\ organization' \in Requests \union {NoOne} /\ made' \in [Requests -> Nat]
        /\ calls'[r] = Resting /\ \A x \in Requests \ {r} : calls'[x] = calls[x]
    BY <2>1, Committed
  <2>4. /\ roles' \in [Users -> {"methodologist", "reviewer"}]
        /\ epoch' \in [Users -> Nat]
    BY <2>1, <2>2 DEF IInv, TypeOK
  <2>5. TypeOK'
    BY <2>1, <2>3, <2>4 DEF IInv, TypeOK, CallStates, Outcomes
  <2>6. ASSUME NEW x \in Requests PROVE CallOK(x)'
    <3>1. CASE x = r
      BY <2>3, <3>1 DEF CallOK, At, Resting, KeyInUse, Holding
    <3>2. CASE x # r
      BY <2>1, <2>3, <3>2 DEF IInv, CallOK, At, IsEdit, Repeated
    <3> QED
      BY <3>1, <3>2
  <2>7. KeyHeldOnce'
    <3>1. ~At(r, KeyInUse)'
      BY <2>3 DEF At, Resting, KeyInUse, Holding
    <3>2. \A x \in Requests \ {r} : At(x, KeyInUse)' <=> At(x, KeyInUse)
      BY <2>3 DEF At
    <3> QED
      BY <3>1, <3>2 DEF IInv, KeyHeldOnce
  <2>8. ReceiptsOK'
    BY <2>1, <2>3 DEF IInv, ReceiptsOK, IsEdit
  <2>9. LogOK'
    BY <2>1, <2>2, <2>3 DEF IInv, LogOK, IsEdit
  <2>10. AMethodologistRemains'
    BY <2>1, RoleTaken
  <2> QED
    BY <2>3, <2>5, <2>6, <2>7, <2>8, <2>9, <2>10 DEF IInv
<1> QED
  BY <1>1, <1>2

-----------------------------------------------------------------------------
(* What holds in every reachable state.                                    *)

LEMMA InitIInv == Init => IInv
<1> SUFFICES ASSUME Init PROVE IInv
  OBVIOUS
<1>1. TypeOK
  <2>1. NoReceipt \in [command : {CommandOf[r] : r \in Requests} \union {"none"},
                       user : Users \union {"none"}, epoch : Nat, result : Nat]
    BY DEF NoReceipt
  <2>2. receipts \in [Keys -> [command : {CommandOf[r] : r \in Requests} \union {"none"},
                               user : Users \union {"none"}, epoch : Nat, result : Nat]]
    BY <2>1 DEF Init
  <2>3. /\ calls \in [Requests ->
              [step : Steps, role : {"methodologist", "reviewer", "none"}, epoch : Nat]]
        /\ answers \in [Requests ->
              [outcome : {"none", "success", "denied", "conflict", "error"}, result : Nat]]
    BY DEF Init, Resting, Nothing, Told, Steps
  <2>4. /\ roles \in [Users -> {"methodologist", "reviewer"}] /\ epoch \in [Users -> Nat]
        /\ revision \in Nat /\ log \in Seq([request : Requests, epoch : Nat])
        /\ organization \in Requests \union {NoOne} /\ made \in [Requests -> Nat]
    BY DEF Init
  <2> QED
    BY <2>2, <2>3, <2>4 DEF TypeOK
<1>2. \A r \in Requests : CallOK(r)
  BY DEF Init, CallOK, At, Resting, KeyInUse, Holding
<1>3. KeyHeldOnce
  BY DEF Init, KeyHeldOnce, At, Resting, KeyInUse, Holding
<1>4. ReceiptsOK /\ LogOK
  BY DEF Init, ReceiptsOK, LogOK
<1>5. AnswersTellTheEffect
  BY DEF Init, AnswersTellTheEffect, Nothing, Told
<1>6. AMethodologistRemains
  BY CommandsAssumption DEF Init, AMethodologistRemains, Methodologists
<1> QED
  BY <1>1, <1>2, <1>3, <1>4, <1>5, <1>6 DEF IInv

LEMMA StepIInv == IInv /\ [Next]_vars => IInv'
<1> SUFFICES ASSUME IInv, [Next]_vars PROVE IInv'
  OBVIOUS
<1>1. CASE UNCHANGED vars
  BY <1>1 DEF vars, IInv, TypeOK, CallOK, KeyHeldOnce, ReceiptsOK, LogOK, AnswersTellTheEffect,
      AMethodologistRemains, Methodologists, At, IsEdit, Repeated
<1>2. ASSUME NEW r \in Requests,
             \/ Call(r) \/ Authorize(r) \/ Reserve(r) \/ Handle(r) \/ CommitEdit(r)
             \/ AnswerReplay(r) \/ LockOrganization(r) \/ ChangeRoles(r)
             \/ DeadlockVictim(r) \/ Crash(r)
      PROVE  IInv'
  BY <1>2, CallStep, AuthorizeStep, ReserveStep, HandleStep, CommitEditStep, AnswerReplayStep,
      LockOrganizationStep, ChangeRolesStep, BrokenStep
<1> QED
  BY <1>1, <1>2 DEF Next

\* Calls stand where the receipts of their keys allow, receipts and effects point
\* to each other, and the rest of the invariant, in every reachable state.
THEOREM Invariance == Spec => []IInv
BY InitIInv, StepIInv, PTL DEF Spec

\* Roles, receipts, effects, calls and answers stay in their sets.
THEOREM TypeCorrect == Spec => []TypeOK
BY Invariance, PTL DEF IInv

\* However often and however concurrently the calls with one key are made, at
\* most one of them has an effect (find_or_create and the receipt's commit).
THEOREM OneEffectPerKey == Spec => []AppliedOnce
<1>1. ASSUME IInv PROVE AppliedOnce
  <2> SUFFICES ASSUME NEW i \in DOMAIN log, NEW j \in DOMAIN log, IsEdit(log[i].request),
                      KeyOf[log[i].request] = KeyOf[log[j].request]
               PROVE  i = j
    BY DEF AppliedOnce
  <2>1. log[i].request \in Requests /\ log[j].request \in Requests
    BY <1>1, LogEntries
  <2>2. IsEdit(log[j].request)
    BY <2>1, CommandsAssumption DEF IsEdit
  <2> QED
    BY <1>1, <2>2 DEF IInv, LogOK
<1> QED
  BY <1>1, Invariance, PTL

\* An answer of success points to the effect of the call's own command under its
\* key, the first time and when it is replayed from the receipt.
THEOREM AnswersAreTrue == Spec => []AnswersTellTheEffect
BY Invariance, PTL DEF IInv

\* However role changes interleave, change_roles leaves the organization a
\* methodologist.
THEOREM MethodologistStays == Spec => []AMethodologistRemains
BY Invariance, PTL DEF IInv

\* A call that neither commits an edit nor changes roles has no effect.
LEMMA OthersLogNothing ==
    ASSUME NEW r,
           \/ Call(r) \/ Authorize(r) \/ Reserve(r) \/ Handle(r) \/ AnswerReplay(r)
           \/ LockOrganization(r) \/ DeadlockVictim(r) \/ Crash(r)
    PROVE  log' = log
BY DEF Call, Authorize, Reserve, Handle, AnswerReplay, LockOrganization, DeadlockVictim, Crash,
    Refuse, data

\* No edit and no change of another member's roles is committed under an
\* authority that has been taken away since the call began
\* (lock_and_revalidate under the organization lock).
THEOREM AuthorityHolds == Spec => AuthorityHeldAtCommit
<1> DEFINE Held ==
        Len(log') > Len(log) =>
            LET entry == log'[Len(log')]
            IN  CommandOf[entry.request] # UserOf[entry.request]
                => epoch[UserOf[entry.request]] = entry.epoch
<1>1. ASSUME IInv, [Next]_vars PROVE [Held]_vars
  <2>1. log \in Seq([request : Requests, epoch : Nat]) /\ Len(log) \in Nat
    BY <1>1 DEF IInv, TypeOK
  <2>2. CASE UNCHANGED vars
    BY <2>2
  <2>3. ASSUME log' = log PROVE Held
    BY <2>1, <2>3
  <2>4. ASSUME NEW r \in Requests, log' = Append(log, [request |-> r, epoch |-> calls[r].epoch]),
               CommandOf[r] # UserOf[r] => Authorized(r)
        PROVE  Held
    <3> DEFINE entry == [request |-> r, epoch |-> calls[r].epoch]
    <3>1. entry.request = r /\ entry.epoch = calls[r].epoch
      OBVIOUS
    <3>2. entry \in [request : Requests, epoch : Nat]
      BY <1>1 DEF IInv, TypeOK
    <3>3. log' = Append(log, entry)
      BY <2>4
    <3> HIDE DEF entry
    <3>4. log'[Len(log')] = entry
      BY <2>1, <3>2, <3>3
    <3> QED
      BY <2>4, <3>1, <3>4 DEF Authorized
  <2>5. ASSUME NEW r \in Requests, CommitEdit(r) PROVE Held
    <3>1. CASE StillAuthorized(r) /\ log' = Append(log, [request |-> r, epoch |-> calls[r].epoch])
      BY <2>4, <3>1 DEF StillAuthorized
    <3>2. CASE Refuse(r, "denied")
      BY <2>3, <3>2 DEF Refuse, data
    <3> QED
      BY <2>5, <3>1, <3>2 DEF CommitEdit
  <2>6. ASSUME NEW r \in Requests, ChangeRoles(r) PROVE Held
    <3>1. CASE /\ log' = Append(log, [request |-> r, epoch |-> calls[r].epoch])
               /\ CommandOf[r] # UserOf[r] => StillAuthorized(r)
      BY <2>4, <3>1 DEF StillAuthorized
    <3>2. CASE Refuse(r, "denied")
      BY <2>3, <3>2 DEF Refuse, data
    <3> QED
      BY <2>6, <3>1, <3>2 DEF ChangeRoles
  <2>7. ASSUME NEW r \in Requests,
               \/ Call(r) \/ Authorize(r) \/ Reserve(r) \/ Handle(r) \/ AnswerReplay(r)
               \/ LockOrganization(r) \/ DeadlockVictim(r) \/ Crash(r)
        PROVE  Held
    BY <2>3, <2>7, OthersLogNothing
  <2> HIDE DEF Held
  <2> QED
    BY <1>1, <2>2, <2>5, <2>6, <2>7 DEF Next
<1> QED
  BY <1>1, Invariance, PTL DEF Spec, AuthorityHeldAtCommit

-----------------------------------------------------------------------------
(* Deadlocks.                                                              *)

\* One call at a time has locked the edited row, and the organization is locked
\* by a role change at work.
LocksOK ==
    /\ \A r, x \in Requests : At(r, {"handled"}) /\ At(x, {"handled"}) => r = x
    /\ organization # NoOne => At(organization, {"organization"})

\* What r waits for: the locks of WaitsFor and, before it has any of its own, the
\* receipt of its key or the role change that keeps it from inserting one.
Waits(r, other) ==
    \/ WaitsFor(r, other)
    \/ /\ At(r, {"authorized"})
       /\ \/ organization = other
          \/ At(other, KeyInUse) /\ KeyOf[other] = KeyOf[r]

\* Calls that all wait for one another contain two that wait for each other
\* directly, which is what DeadlockVictim breaks.
DeadlocksAreDirect ==
    \A S \in SUBSET Requests :
        S # {} /\ (\A r \in S : \E other \in S \ {r} : Waits(r, other))
            => \E r, other \in S : r # other /\ WaitsFor(r, other) /\ WaitsFor(other, r)

LEMMA MovingKeepsLocks ==
    ASSUME IInv, LocksOK, NEW r \in Requests, NEW step, Moves(r, step), UNCHANGED organization,
           step = "handled" => RowIsFree(r), ~At(r, {"organization"})
    PROVE  LocksOK'
<1>1. calls'[r].step = step /\ \A x \in Requests \ {r} : calls'[x] = calls[x]
  BY DEF Moves, IInv, TypeOK
<1>2. organization \in Requests \union {NoOne}
  BY DEF IInv, TypeOK
<1>3. \A x \in Requests : At(r, {"handled"})' /\ At(x, {"handled"})' => r = x
  BY <1>1 DEF RowIsFree, At
<1>4. \A x, y \in Requests : At(x, {"handled"})' /\ At(y, {"handled"})' => x = y
  BY <1>1, <1>3 DEF LocksOK, At
<1>5. organization # NoOne => At(organization, {"organization"})'
  BY <1>1, <1>2 DEF LocksOK, At
<1> QED
  BY <1>4, <1>5 DEF LocksOK, NoOne

LEMMA AnsweringKeepsLocks ==
    ASSUME IInv, LocksOK, NEW r \in Requests, NEW outcome, NEW result, Answer(r, outcome, result)
    PROVE  LocksOK'
<1>1. calls'[r] = Resting /\ \A x \in Requests \ {r} : calls'[x] = calls[x]
  BY DEF Answer, IInv, TypeOK
<1>2. /\ organization \in Requests \union {NoOne}
      /\ organization' = organization \/ organization' = NoOne
      /\ organization' # r \/ organization' = NoOne
  BY DEF Answer, IInv, TypeOK
<1>3. \A x \in Requests : At(x, {"handled"})' => x # r /\ At(x, {"handled"})
  BY <1>1 DEF At, Resting
<1>4. organization' # NoOne => calls'[organization'].step \in {"organization"}
  BY <1>1, <1>2 DEF LocksOK, At
<1> QED
  BY <1>3, <1>4 DEF LocksOK, NoOne, At

LEMMA StepLocks == IInv /\ LocksOK /\ [Next]_vars => LocksOK'
<1> SUFFICES ASSUME IInv, LocksOK, [Next]_vars PROVE LocksOK'
  OBVIOUS
<1>1. CASE UNCHANGED vars
  BY <1>1 DEF vars, LocksOK, At, NoOne
<1>2. ASSUME NEW r \in Requests, Call(r) PROVE LocksOK'
  <2>1. /\ calls'[r].step = "sent" /\ \A x \in Requests \ {r} : calls'[x] = calls[x]
        /\ organization \in Requests \union {NoOne} /\ organization' = organization
        /\ ~At(r, {"organization"})
    BY <1>2 DEF Call, IInv, TypeOK, At
  <2>2. \A x \in Requests : At(x, {"handled"})' => x # r /\ At(x, {"handled"})
    BY <2>1 DEF At
  <2>3. organization # NoOne => At(organization, {"organization"})'
    BY <2>1 DEF LocksOK, At
  <2> QED
    BY <2>1, <2>2, <2>3 DEF LocksOK, NoOne
<1>3. ASSUME NEW r \in Requests, LockOrganization(r) PROVE LocksOK'
  <2>1. /\ calls'[r].step = "organization" /\ \A x \in Requests \ {r} : calls'[x] = calls[x]
        /\ organization' = r
    BY <1>3 DEF LockOrganization, Moves, IInv, TypeOK
  <2>2. \A x \in Requests : At(x, {"handled"})' => x # r /\ At(x, {"handled"})
    BY <2>1 DEF At
  <2>3. At(r, {"organization"})'
    BY <2>1 DEF At
  <2> QED
    BY <2>1, <2>2, <2>3 DEF LocksOK
<1>4. ASSUME NEW r \in Requests, Authorize(r) \/ Reserve(r) \/ Handle(r) PROVE LocksOK'
  <2>1. CASE Authorize(r) /\ Moves(r, "authorized") /\ UNCHANGED organization
    BY <2>1, MovingKeepsLocks DEF Authorize, At
  <2>2. CASE /\ Reserve(r) /\ UNCHANGED organization
             /\ Moves(r, "reserved") \/ Moves(r, "replay")
    BY <2>2, MovingKeepsLocks DEF Reserve, At
  <2>3. CASE Handle(r) /\ Moves(r, "handled") /\ UNCHANGED organization
    BY <2>3, MovingKeepsLocks DEF Handle, At
  <2>4. CASE Refuse(r, "denied") \/ Refuse(r, "conflict")
    BY <2>4, AnsweringKeepsLocks DEF Refuse
  <2> QED
    BY <1>4, <2>1, <2>2, <2>3, <2>4 DEF Authorize, Reserve, Handle
<1>5. ASSUME NEW r \in Requests,
             CommitEdit(r) \/ AnswerReplay(r) \/ ChangeRoles(r) \/ DeadlockVictim(r) \/ Crash(r)
      PROVE  LocksOK'
  <2>1. \E outcome, result : Answer(r, outcome, result)
    BY <1>5 DEF CommitEdit, AnswerReplay, ChangeRoles, DeadlockVictim, Crash, Refuse
  <2> QED
    BY <2>1, AnsweringKeepsLocks
<1> QED
  BY <1>1, <1>2, <1>3, <1>4, <1>5 DEF Next

\* However many calls wait for each other's row locks, two of them do so
\* directly: breaking those pairs, as the database does, breaks every deadlock of
\* the lock order receipt, edited row, organization.
THEOREM DeadlocksAreFound == Spec => []DeadlocksAreDirect
<1>1. Init => LocksOK
  BY DEF Init, LocksOK, At, Resting, NoOne
<1>2. ASSUME IInv, LocksOK PROVE DeadlocksAreDirect
  <2> SUFFICES ASSUME NEW S \in SUBSET Requests, S # {},
                      \A r \in S : \E other \in S \ {r} : Waits(r, other)
               PROVE  \E r, other \in S : r # other /\ WaitsFor(r, other) /\ WaitsFor(other, r)
    BY DEF DeadlocksAreDirect
  <2>1. ASSUME NEW r \in S, organization = r PROVE FALSE
    <3>1. r # NoOne
      BY CommandsAssumption DEF NoOne
    <3>2. At(r, {"organization"})
      BY <1>2, <2>1, <3>1 DEF LocksOK
    <3> QED
      BY <3>2 DEF Waits, WaitsFor, At
  <2>2. ASSUME NEW r \in S, ~At(r, {"authorized"})
        PROVE  \E other \in S \ {r} : WaitsFor(r, other) /\ At(other, Holding)
    <3>1. PICK other \in S \ {r} : Waits(r, other)
      OBVIOUS
    <3>2. WaitsFor(r, other) /\ organization # other
      BY <2>1, <2>2, <3>1 DEF Waits
    <3> QED
      BY <3>2 DEF WaitsFor, At, Holding
  <2>3. PICK r \in S : ~At(r, {"authorized"})
    <3>1. PICK x \in S : TRUE
      OBVIOUS
    <3>2. PICK y \in S \ {x} : Waits(x, y)
      OBVIOUS
    <3>3. At(x, {"authorized"}) => At(y, KeyInUse)
      BY <2>1, <3>2 DEF Waits, WaitsFor, At
    <3> QED
      BY <3>1, <3>3 DEF At, KeyInUse, Holding
  <2>4. PICK x \in S : At(x, Holding)
    BY <2>2, <2>3
  <2>5. PICK h \in S : At(h, {"handled"})
    <3>1. CASE At(x, {"reserved"})
      BY <2>2, <3>1 DEF WaitsFor, At
    <3> QED
      BY <2>4, <3>1 DEF At, Holding
  <2>6. PICK y \in S \ {h} : WaitsFor(h, y) /\ At(y, Holding)
    BY <2>2, <2>5 DEF At
  <2>7. At(y, {"reserved"})
    BY <1>2, <2>5, <2>6 DEF LocksOK, At, Holding
  <2>8. WaitsFor(y, h)
    BY <2>5, <2>7 DEF WaitsFor
  <2> QED
    BY <2>6, <2>8
<1> QED
  BY <1>1, <1>2, InitIInv, StepIInv, StepLocks, PTL DEF Spec

=============================================================================
