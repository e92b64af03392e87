--------------------------- MODULE TransportProofs ---------------------------
(***************************************************************************)
(* Proofs about Transport, for every number of operations and attempts.    *)
(***************************************************************************)
EXTENDS Transport, TLAPS

Zero == [i \in Positions |-> 0]
Sendable == Failing = {}

(* What ties an outcome to the fate of the message: an answer shows what   *)
(* the service did, a definite outcome or Ok was only formed from such an  *)
(* answer or without a message, and what the service did is final.         *)
FateInv ==
  /\ \A a \in Attempts : stored[a] = IF wire[a] = "executed" THEN Work ELSE Zero
  /\ \A a \in Attempts : wire[a] = "executed" =>
       \A i \in DOMAIN request.ops : Allowed(request.ops[i])
  /\ \A a \in Attempts : wire[a] # "unsent" => Sendable
  /\ \A a \in Attempts : a < attempt => IsRetryable(outcome[a])
  /\ client # "returned" => outcome[attempt] = "none"
  /\ client = "ready" => wire[attempt] = "unsent"
  /\ reply \in Results => wire[attempt] = "executed"
  /\ reply \in Refusals => wire[attempt] = "refused"
  /\ reply = "alien" => captive
  /\ \A a \in Attempts : Told(outcome[a]) = "refused" => wire[a] \in {"unsent", "refused"}
  /\ \A a \in Attempts : Told(outcome[a]) = "done" => wire[a] = "executed" \/ Work = Zero

TransportInv == TypeOK /\ FateInv

-----------------------------------------------------------------------------
(* Work is the changes of the operations, each counted once. *)
LEMMA WorkType == Work \in [Positions -> {0, 1}] /\ Zero \in [Positions -> {0, 1}]
BY DEF Work, Zero

(* A message adds the work to nothing stored before. *)
LEMMA AddToZero == [i \in Positions |-> Zero[i] + Work[i]] = Work
<1>1. \A i \in Positions : Zero[i] + Work[i] = Work[i]
  BY DEF Zero, Work
<1>. QED  BY <1>1 DEF Work

(* An empty batch has no work. *)
LEMMA EmptyWork == ASSUME request.ops = <<>> PROVE Work = Zero
<1>1. \A i \in Positions : ~Changing(i)
  BY DEF Changing
<1>. QED  BY <1>1 DEF Work, Zero

(* Only a refusal by the service decodes to a definite kind, and only a    *)
(* result, or JSON of something else for a single Neon call, to Ok.        *)
LEMMA DecodedFate ==
  ASSUME NEW answer \in Answers
  PROVE  /\ Decoded(answer) \in Outcomes
         /\ Told(Decoded(answer)) = "refused" => answer \in Refusals
         /\ Told(Decoded(answer)) = "done" => answer \in Results \/ (answer = "alien" /\ ~captive)
         /\ Told(Decoded(answer)) # "waiting"
BY DEF Decoded, NeonOutcome, NeonTakes, SupabaseOutcome, CommonOutcome, Told, Definite,
       Outcomes, Answers,
       Results, Refusals, Interjections

(* A check that fails gives a definite kind or Protocol, or Ok for an      *)
(* empty batch.                                                            *)
LEMMA VerdictFate ==
  ASSUME NEW check, Verdict(check) # "send"
  PROVE  /\ Verdict(check) \in Outcomes
         /\ Told(Verdict(check)) = "done" => request.ops = <<>>
         /\ ~IsRetryable(Verdict(check))
BY DEF Verdict, ContextVerdict, Told, Definite, Outcomes, IsRetryable

(* The initial states. *)
LEMMA InitInv == Init => TransportInv
<1>. SUFFICES ASSUME Init PROVE TransportInv
  OBVIOUS
<1>1. TypeOK
  BY BoundsAssumption DEF Init, TypeOK, Attempts, Positions, Answers
<1>2. FateInv
  <2>1. \A a \in Attempts : Told(outcome[a]) = "waiting" /\ stored[a] = Zero /\ wire[a] = "unsent"
    <3>1. Told("none") = "waiting"
      BY DEF Told, Definite
    <3>. QED  BY <3>1 DEF Init, Zero
  <2>2. \A a \in Attempts : ~(a < attempt)
    BY BoundsAssumption DEF Init, Attempts
  <2>3. outcome[attempt] = "none" /\ wire[attempt] = "unsent"
    BY BoundsAssumption DEF Init, Attempts
  <2>4. reply \notin Results /\ reply \notin Refusals /\ reply # "alien"
    BY DEF Init, Results, Refusals
  <2>. QED  BY <2>1, <2>2, <2>3, <2>4 DEF FateInv
<1>. QED  BY <1>1, <1>2 DEF TransportInv

(* What the request and the connection say does not change with a step. *)
LEMMA SameConnection ==
  ASSUME UNCHANGED connection
  PROVE  /\ Work' = Work /\ request' = request /\ captive' = captive
         /\ Sendable' <=> Sendable
         /\ \A op : Allowed(op)' <=> Allowed(op)
         /\ \A o : Told(o)' = Told(o)
<1>. USE DEF connection
<1>1. Work' = Work
  BY DEF Work, Changing
<1>2. \A check : Verdict(check)' = Verdict(check)
  BY DEF Verdict, ContextVerdict, HasKind
<1>3. Sendable' <=> Sendable
  BY <1>2 DEF Sendable, Failing, Checks
<1>4. \A op : Allowed(op)' <=> Allowed(op)
  BY DEF Allowed, ForwardedMode, HasKind
<1>5. \A o : Told(o)' = Told(o)
  BY DEF Told
<1>. QED  BY <1>1, <1>3, <1>4, <1>5

(* A call that returns: its outcome must fit what became of its message. *)
LEMMA FinishStep ==
  ASSUME TransportInv, UNCHANGED <<connection, attempt, wire, stored>>,
         client # "returned",
         NEW o \in Outcomes, Finish(o),
         Told(o) = "refused" => wire[attempt] \in {"unsent", "refused"},
         Told(o) = "done" => wire[attempt] = "executed" \/ Work = Zero
  PROVE  TransportInv'
<1>. USE DEF TransportInv
<1>1. TypeOK'
  <2>1. outcome' \in [Attempts -> Outcomes \cup {"none"}] /\ client' = "returned" /\ reply' = "none"
    BY DEF TypeOK, Finish
  <2>2. \A a \in Attempts : a > attempt => outcome'[a] = "none"
    BY DEF TypeOK, Finish, Attempts
  <2>. QED  BY <2>1, <2>2 DEF TypeOK, connection
<1>2. FateInv'
  <2>1. \A a \in Attempts : outcome'[a] = IF a = attempt THEN o ELSE outcome[a]
    BY DEF TypeOK, Finish
  <2>2. (\A a \in Attempts : a < attempt => IsRetryable(outcome[a]))'
    BY <2>1 DEF FateInv, TypeOK, Attempts, IsRetryable
  <2>3. (\A a \in Attempts : Told(outcome[a]) = "refused" => wire[a] \in {"unsent", "refused"})'
    BY <2>1, SameConnection DEF FateInv
  <2>4. (\A a \in Attempts : Told(outcome[a]) = "done" => wire[a] = "executed" \/ Work = Zero)'
    BY <2>1, SameConnection DEF FateInv, Zero
  <2>5. reply' = "none"
    BY DEF Finish
  <2>6. (\A a \in Attempts : stored[a] = IF wire[a] = "executed" THEN Work ELSE Zero)'
    BY SameConnection DEF FateInv, Zero
  <2>7. (\A a \in Attempts : wire[a] # "unsent" => Sendable)'
    BY SameConnection DEF FateInv
  <2>8. (\A a \in Attempts : wire[a] = "executed" => \A i \in DOMAIN request.ops : Allowed(request.ops[i]))'
    BY SameConnection DEF FateInv
  <2>9. client' = "returned"
    BY DEF Finish
  <2>. QED  BY <2>2, <2>3, <2>4, <2>5, <2>6, <2>7, <2>8, <2>9 DEF FateInv, Results, Refusals
<1>. QED  BY <1>1, <1>2

(* A message changes hands: the service executes it, or never will. *)
LEMMA ExecuteStep == ASSUME TransportInv, NEW a \in Attempts, Execute(a) PROVE TransportInv'
<1>. USE DEF TransportInv
<1>1. UNCHANGED <<connection, attempt, client, outcome>>
  BY DEF Execute
<1>2. stored[a] = Zero /\ wire[a] = "travelling"
  BY DEF FateInv, Execute
<1>3. stored' = [stored EXCEPT ![a] = Work] /\ wire' = [wire EXCEPT ![a] = "executed"]
  BY <1>2, AddToZero DEF Execute, TypeOK
<1>4. reply' = reply \/ (reply' \in Results /\ a = attempt /\ reply = "none" /\ client = "waiting")
  BY DEF Execute, Answer, ResultShapes, Results
<1>5. TypeOK'
  <2>1. stored' \in [Attempts -> [Positions -> {0, 1}]]
    BY <1>3, WorkType DEF TypeOK
  <2>2. wire' \in [Attempts -> {"unsent", "travelling", "executed", "refused"}]
    BY <1>3 DEF TypeOK
  <2>3. reply' \in Answers \cup {"none"} /\ (reply' # "none" => client' = "waiting")
    BY <1>1, <1>4 DEF TypeOK, Answers
  <2>4. \A b \in Attempts : b > attempt => wire'[b] = "unsent"
    BY <1>2, <1>3 DEF TypeOK
  <2>. QED  BY <1>1, <2>1, <2>2, <2>3, <2>4 DEF TypeOK, connection
<1>6. FateInv'
  <2>1. (\A b \in Attempts : stored[b] = IF wire[b] = "executed" THEN Work ELSE Zero)'
    BY <1>1, <1>3, SameConnection DEF FateInv, TypeOK, Zero
  <2>2. (\A b \in Attempts : wire[b] = "executed" => \A i \in DOMAIN request.ops : Allowed(request.ops[i]))'
    <3>1. \A i \in DOMAIN request.ops : Allowed(request.ops[i])
      BY DEF Execute
    <3>. QED  BY <1>1, <3>1, SameConnection
  <2>3. (\A b \in Attempts : wire[b] # "unsent" => Sendable)'
    BY <1>1, <1>2, SameConnection DEF FateInv
  <2>4. (\A b \in Attempts : Told(outcome[b]) = "refused" => wire[b] \in {"unsent", "refused"})'
    BY <1>1, <1>2, <1>3, SameConnection DEF FateInv, TypeOK
  <2>5. (\A b \in Attempts : Told(outcome[b]) = "done" => wire[b] = "executed" \/ Work = Zero)'
    BY <1>1, <1>3, SameConnection DEF FateInv, TypeOK, Zero
  <2>6. client' = "ready" => wire'[attempt'] = "unsent"
    BY <1>1, <1>2, <1>3 DEF FateInv, TypeOK
  <2>7. reply' \in Results => wire'[attempt'] = "executed"
    BY <1>1, <1>2, <1>3, <1>4 DEF FateInv, TypeOK
  <2>8. reply' \in Refusals => wire'[attempt'] = "refused"
    BY <1>1, <1>2, <1>3, <1>4 DEF FateInv, TypeOK, Results, Refusals
  <2>9. (\A b \in Attempts : b < attempt => IsRetryable(outcome[b]))'
    BY <1>1 DEF FateInv, IsRetryable
  <2>10. reply' = "alien" => captive'
    BY <1>1, <1>4, SameConnection DEF FateInv, Results
  <2>11. client' # "returned" => outcome'[attempt'] = "none"
    BY <1>1 DEF FateInv
  <2>. QED  BY <2>1, <2>2, <2>3, <2>4, <2>5, <2>6, <2>7, <2>8, <2>9, <2>10, <2>11 DEF FateInv
<1>. QED  BY <1>5, <1>6

LEMMA RefuseStep ==
  ASSUME TransportInv, NEW a \in Attempts, Refuse(a) \/ Lose(a) PROVE TransportInv'
<1>. USE DEF TransportInv
<1>1. UNCHANGED <<connection, attempt, client, outcome, stored>>
  BY DEF Refuse, Lose
<1>2. wire[a] = "travelling" /\ wire' = [wire EXCEPT ![a] = "refused"]
  BY DEF Refuse, Lose
<1>3. reply' = reply \/ (reply' \in Refusals /\ a = attempt /\ reply = "none" /\ client = "waiting")
  BY DEF Refuse, Lose, Answer
<1>4. TypeOK'
  <2>1. wire' \in [Attempts -> {"unsent", "travelling", "executed", "refused"}]
    BY <1>2 DEF TypeOK
  <2>2. reply' \in Answers \cup {"none"} /\ (reply' # "none" => client' = "waiting")
    BY <1>1, <1>3 DEF TypeOK, Answers
  <2>3. \A b \in Attempts : b > attempt => wire'[b] = "unsent"
    BY <1>2 DEF TypeOK
  <2>. QED  BY <1>1, <2>1, <2>2, <2>3 DEF TypeOK, connection
<1>5. FateInv'
  <2>1. (\A b \in Attempts : stored[b] = IF wire[b] = "executed" THEN Work ELSE Zero)'
    BY <1>1, <1>2, SameConnection DEF FateInv, TypeOK, Zero
  <2>2. (\A b \in Attempts : wire[b] = "executed" => \A i \in DOMAIN request.ops : Allowed(request.ops[i]))'
    BY <1>1, <1>2, SameConnection DEF FateInv, TypeOK
  <2>3. (\A b \in Attempts : wire[b] # "unsent" => Sendable)'
    BY <1>1, <1>2, SameConnection DEF FateInv
  <2>4. (\A b \in Attempts : Told(outcome[b]) = "refused" => wire[b] \in {"unsent", "refused"})'
    BY <1>1, <1>2, SameConnection DEF FateInv, TypeOK
  <2>5. (\A b \in Attempts : Told(outcome[b]) = "done" => wire[b] = "executed" \/ Work = Zero)'
    BY <1>1, <1>2, SameConnection DEF FateInv, TypeOK, Zero
  <2>6. client' = "ready" => wire'[attempt'] = "unsent"
    BY <1>1, <1>2 DEF FateInv, TypeOK
  <2>7. reply' \in Results => wire'[attempt'] = "executed"
    BY <1>1, <1>2, <1>3 DEF FateInv, TypeOK, Results, Refusals
  <2>8. reply' \in Refusals => wire'[attempt'] = "refused"
    BY <1>1, <1>2, <1>3 DEF FateInv, TypeOK
  <2>9. (\A b \in Attempts : b < attempt => IsRetryable(outcome[b]))'
    BY <1>1 DEF FateInv, IsRetryable
  <2>10. reply' = "alien" => captive'
    BY <1>1, <1>3, SameConnection DEF FateInv, Refusals
  <2>11. client' # "returned" => outcome'[attempt'] = "none"
    BY <1>1 DEF FateInv
  <2>. QED  BY <2>1, <2>2, <2>3, <2>4, <2>5, <2>6, <2>7, <2>8, <2>9, <2>10, <2>11 DEF FateInv
<1>. QED  BY <1>4, <1>5

LEMMA SendStep == ASSUME TransportInv, Send PROVE TransportInv'
<1>. USE DEF TransportInv
<1>1. /\ UNCHANGED <<connection, attempt, reply, outcome, stored>>
      /\ client = "ready" /\ client' = "waiting" /\ Sendable
      /\ wire' = [wire EXCEPT ![attempt] = "travelling"]
      /\ wire[attempt] = "unsent"
  BY DEF Send, Sendable, FateInv
<1>2. TypeOK'
  <2>1. wire' \in [Attempts -> {"unsent", "travelling", "executed", "refused"}]
    BY <1>1 DEF TypeOK
  <2>2. \A b \in Attempts : b > attempt => wire'[b] = "unsent"
    BY <1>1 DEF TypeOK, Attempts
  <2>. QED  BY <1>1, <2>1, <2>2 DEF TypeOK, connection
<1>3. FateInv'
  <2>1. (\A b \in Attempts : stored[b] = IF wire[b] = "executed" THEN Work ELSE Zero)'
    BY <1>1, SameConnection DEF FateInv, TypeOK, Zero
  <2>2. (\A b \in Attempts : wire[b] = "executed" => \A i \in DOMAIN request.ops : Allowed(request.ops[i]))'
    BY <1>1, SameConnection DEF FateInv, TypeOK
  <2>3. (\A b \in Attempts : wire[b] # "unsent" => Sendable)'
    BY <1>1, SameConnection
  <2>4. (\A b \in Attempts : Told(outcome[b]) = "refused" => wire[b] \in {"unsent", "refused"})'
    <3>1. Told("none") # "refused"
      BY DEF Told, Definite
    <3>. QED  BY <1>1, <3>1, SameConnection DEF FateInv, TypeOK
  <2>5. (\A b \in Attempts : Told(outcome[b]) = "done" => wire[b] = "executed" \/ Work = Zero)'
    BY <1>1, SameConnection DEF FateInv, TypeOK, Zero
  <2>6. reply' = "none"
    BY <1>1 DEF TypeOK
  <2>7. (\A b \in Attempts : b < attempt => IsRetryable(outcome[b]))'
    BY <1>1 DEF FateInv, IsRetryable
  <2>8. client' = "waiting" /\ outcome'[attempt'] = "none"
    BY <1>1 DEF FateInv
  <2>. QED  BY <2>1, <2>2, <2>3, <2>4, <2>5, <2>6, <2>7, <2>8 DEF FateInv, Results, Refusals
<1>. QED  BY <1>2, <1>3

(* Steps that leave every message as it is. *)
LEMMA QuietStep ==
  ASSUME TransportInv, UNCHANGED <<connection, wire, outcome, stored>>,
         reply' \in Answers \cup {"none"},
         reply' # "none" => client' = "waiting",
         reply' # reply => reply' \notin Results \cup Refusals,
         reply' = "alien" => captive,
         \/ UNCHANGED <<attempt, client>>
         \/ Retry
  PROVE  TransportInv'
<1>. USE DEF TransportInv
<1>1. /\ attempt' \in Attempts /\ attempt' >= attempt
      /\ client' \in {"ready", "waiting", "returned"}
  BY BoundsAssumption DEF TypeOK, Retry, Attempts
<1>2. TypeOK'
  <2>1. \A b \in Attempts : b > attempt' => b > attempt
    BY <1>1 DEF TypeOK, Attempts
  <2>. QED  BY <1>1, <2>1 DEF TypeOK, connection
<1>3. (\A b \in Attempts : b < attempt => IsRetryable(outcome[b]))'
  BY <1>1 DEF FateInv, TypeOK, Retry, Attempts, IsRetryable
<1>4. /\ client' # "returned" => outcome'[attempt'] = "none"
      /\ client' = "ready" => wire'[attempt'] = "unsent"
  BY <1>1 DEF FateInv, TypeOK, Retry, Attempts
<1>5. /\ reply' \in Results => wire'[attempt'] = "executed"
      /\ reply' \in Refusals => wire'[attempt'] = "refused"
  <2>1. CASE Retry
    BY <2>1 DEF Retry, TypeOK, Results, Refusals
  <2>2. CASE UNCHANGED <<attempt, client>>
    BY <2>2 DEF FateInv
  <2>. QED  BY <2>1, <2>2
<1>6. /\ (\A b \in Attempts : stored[b] = IF wire[b] = "executed" THEN Work ELSE Zero)'
      /\ (\A b \in Attempts : wire[b] = "executed" => \A i \in DOMAIN request.ops : Allowed(request.ops[i]))'
      /\ (\A b \in Attempts : wire[b] # "unsent" => Sendable)'
  BY SameConnection DEF FateInv, Zero
<1>7. /\ (\A b \in Attempts : Told(outcome[b]) = "refused" => wire[b] \in {"unsent", "refused"})'
      /\ (\A b \in Attempts : Told(outcome[b]) = "done" => wire[b] = "executed" \/ Work = Zero)'
      /\ (reply = "alien" => captive)'
  BY SameConnection DEF FateInv, Zero
<1>8. FateInv'
  BY <1>3, <1>4, <1>5, <1>6, <1>7 DEF FateInv
<1>. QED  BY <1>2, <1>8

LEMMA ReturnStep ==
  ASSUME TransportInv, Decline \/ NotSent \/ Receive \/ GiveUp \/ Break
  PROVE  TransportInv'
<1>. USE DEF TransportInv
<1>1. CASE Decline
  <2>1. PICK i \in Failing : Finish(Verdict(Checks[i]))
    BY <1>1 DEF Decline
  <2>2. Verdict(Checks[i]) # "send"
    BY DEF Failing
  <2>3. client = "ready" /\ UNCHANGED <<connection, attempt, wire, stored>>
    BY <1>1 DEF Decline
  <2>4. wire[attempt] = "unsent"
    BY <2>3 DEF FateInv
  <2>. QED  BY <2>1, <2>2, <2>3, <2>4, VerdictFate, EmptyWork, FinishStep
<1>2. CASE NotSent \/ GiveUp \/ Break
  <2>1. PICK o \in {"Transport", "Timeout"} : Finish(o)
    BY <1>2 DEF NotSent, GiveUp, Break
  <2>2. o \in Outcomes /\ Told(o) = "unknown"
    BY DEF Outcomes, Told, Definite
  <2>3. client # "returned" /\ UNCHANGED <<connection, attempt, wire, stored>>
    BY <1>2 DEF NotSent, GiveUp, Break
  <2>. QED  BY <2>1, <2>2, <2>3, FinishStep
<1>3. CASE Receive
  <2>1. /\ client = "waiting" /\ reply \in Answers /\ Finish(Decoded(reply))
        /\ UNCHANGED <<connection, attempt, wire, stored>>
    BY <1>3 DEF Receive, TypeOK
  <2>2. Told(Decoded(reply)) = "refused" => wire[attempt] \in {"unsent", "refused"}
    BY <2>1, DecodedFate DEF FateInv
  <2>3. Told(Decoded(reply)) = "done" => wire[attempt] = "executed"
    BY <2>1, DecodedFate DEF FateInv
  <2>. QED  BY <2>1, <2>2, <2>3, DecodedFate, FinishStep
<1>. QED  BY <1>1, <1>2, <1>3

(* Every step preserves the invariant. *)
LEMMA NextInv == TransportInv /\ [Next]_vars => TransportInv'
<1>. SUFFICES ASSUME TransportInv, [Next]_vars PROVE TransportInv'
  OBVIOUS
<1>1. CASE Send
  BY <1>1, SendStep
<1>2. CASE Decline \/ NotSent \/ Receive \/ GiveUp \/ Break
  BY <1>2, ReturnStep
<1>3. ASSUME NEW a \in Attempts, Execute(a) \/ Refuse(a) \/ Lose(a) PROVE TransportInv'
  BY <1>3, ExecuteStep, RefuseStep
<1>4. CASE Interject
  <2>1. reply' \in Interjections /\ (reply' = "alien" => captive)
    BY <1>4 DEF Interject, Interjected
  <2>2. reply' \in Answers /\ reply' \notin Results \cup Refusals /\ reply' # "none"
    BY <2>1 DEF Answers, Interjections, Results, Refusals
  <2>. QED  BY <1>4, <2>1, <2>2, QuietStep DEF Interject
<1>5. CASE Retry
  <2>1. reply' = "none"
    BY <1>5 DEF Retry, TransportInv, TypeOK
  <2>. QED  BY <1>5, <2>1, QuietStep DEF Retry, TransportInv, TypeOK, Results, Refusals
<1>6. CASE UNCHANGED vars
  BY <1>6, QuietStep DEF vars, connection, TransportInv, TypeOK, FateInv
<1>. QED  BY <1>1, <1>2, <1>3, <1>4, <1>5, <1>6 DEF Next, Caller, Service

(* TypeOK: the fields keep their types, requests are only on their way for *)
(* attempts made, and an answer only for a call that waits.                *)
THEOREM TransportTypes == Spec => []TypeOK
<1>1. TransportInv => TypeOK
  BY DEF TransportInv
<1>. QED  BY <1>1, InitInv, NextInv, PTL DEF Spec

(* What is stored was allowed: only a message of a call that passed every  *)
(* check is ever executed.                                                 *)
LEMMA StoredWasAllowed ==
  ASSUME TransportInv, NEW a \in Attempts, NEW i \in Positions, stored[a][i] > 0
  PROVE  Changing(i) /\ Allowed(request.ops[i]) /\ Sendable /\ wire[a] = "executed"
<1>1. wire[a] = "executed" /\ stored[a] = Work
  <2>1. Zero[i] = 0
    BY DEF Zero
  <2>. QED  BY <2>1 DEF TransportInv, FateInv
<1>2. Changing(i)
  BY <1>1 DEF Work
<1>. QED  BY <1>1, <1>2 DEF TransportInv, FateInv, Changing

LEMMA OperationType ==
  ASSUME TypeOK, NEW i \in DOMAIN request.ops PROVE request.ops[i] \in Operations
<1>1. CASE request \in [path : {"query"}, ops : [1..1 -> Operations], fits : BOOLEAN]
  BY <1>1
<1>2. CASE request \in [path : {"batch"}, ops : Batches, fits : BOOLEAN]
  <2>1. PICK n \in 0..MaxOperations : request.ops \in [1..n -> Operations]
    BY <1>2 DEF Batches
  <2>. QED  BY <2>1
<1>. QED  BY <1>1, <1>2 DEF TypeOK, Requests

(* OnlyWritesStored: read() and read-only connections never change data,   *)
(* and on Supabase no parameter is stored that JSON can not carry, however *)
(* late a request is executed.                                             *)
THEOREM ReadsStoreNothing == Spec => []OnlyWritesStored
<1>1. TransportInv => OnlyWritesStored
  <2>. SUFFICES ASSUME TransportInv, NEW a \in Attempts, NEW i \in Positions, stored[a][i] > 0
                PROVE  /\ mode = "ReadWrite"
                       /\ route = "supabase" => request.ops[i].kind = "write" /\ request.ops[i].finite
    BY DEF OnlyWritesStored
  <2>1. i \in DOMAIN request.ops /\ request.ops[i].changes /\ Allowed(request.ops[i]) /\ Sendable
    BY StoredWasAllowed DEF Changing
  <2>2. request.ops[i].kind \in {"read", "write"} /\ request.ops[i].finite \in BOOLEAN
    BY <2>1, OperationType DEF TransportInv, Operations
  <2>3. ForwardedMode = "ReadWrite"
    BY <2>1 DEF Allowed
  <2>4. mode = "ReadWrite"
    BY <2>3 DEF ForwardedMode
  <2>5. ASSUME route = "supabase" PROVE request.ops[i].kind = "write"
    <3>1. CASE request.path = "batch"
      BY <2>1, <2>5, <3>1 DEF Allowed
    <3>2. CASE request.path = "query"
      BY <2>1, <2>2, <2>3, <2>5, <3>2 DEF ForwardedMode, HasKind
    <3>3. request.path \in {"query", "batch"}
      BY DEF TransportInv, TypeOK, Requests
    <3>. QED  BY <3>1, <3>2, <3>3
  <2>6. ASSUME route = "supabase" PROVE request.ops[i].finite
    <3>1. Verdict("parameters") = "send"
      <4>1. 4 \in DOMAIN Checks /\ Checks[4] = "parameters"
        BY <2>6 DEF Checks
      <4>. QED  BY <2>1, <4>1 DEF Sendable, Failing
    <3>2. CASE ~request.ops[i].finite
      <4>1. Verdict("parameters") = "Value"
        BY <2>1, <3>2 DEF Verdict
      <4>. QED  BY <3>1, <4>1
    <3>. QED  BY <2>2, <3>2
  <2>. QED  BY <2>4, <2>5, <2>6
<1>. QED  BY <1>1, InitInv, NextInv, PTL DEF Spec

(* DoubledOnlyIfOpen: a caller that retries what is_retryable names has    *)
(* its work stored twice only after a Timeout or an Unavailable.           *)
THEOREM RetriesDoubleOnlyIfOpen == Spec => []DoubledOnlyIfOpen
<1>1. TransportInv => DoubledOnlyIfOpen
  <2>. SUFFICES ASSUME TransportInv, NEW a \in Attempts, NEW b \in Attempts, NEW i \in Positions,
                       a < b, stored[a][i] > 0, stored[b][i] > 0
                PROVE  outcome[a] \in {"Timeout", "Unavailable"}
    BY DEF DoubledOnlyIfOpen
  <2>1. wire[a] = "executed" /\ wire[b] = "executed"
    BY StoredWasAllowed
  <2>2. b <= attempt
    BY <2>1 DEF TransportInv, TypeOK, Attempts
  <2>3. IsRetryable(outcome[a])
    BY <2>2 DEF TransportInv, TypeOK, FateInv, Attempts
  <2>4. outcome[a] # "Busy"
    <3>1. Told("Busy") = "refused"
      BY DEF Told, Definite
    <3>. QED  BY <2>1, <3>1 DEF TransportInv, FateInv
  <2>. QED  BY <2>3, <2>4 DEF IsRetryable
<1>. QED  BY <1>1, InitInv, NextInv, PTL DEF Spec

-----------------------------------------------------------------------------
(* The refinement. *)

ToldOf == [a \in Attempts |-> Told(outcome[a])]

(* The outcomes a returning call can have were told, and fit its message. *)
LEMMA FinishTells ==
  ASSUME TransportInv, Decline \/ NotSent \/ Receive \/ GiveUp \/ Break
  PROVE  \E r \in {"done", "refused", "unknown"} : Promise!Tell(attempt, r)
<1>. USE DEF TransportInv
<1>1. /\ client # "returned" /\ UNCHANGED <<connection, attempt, wire, stored>>
      /\ attempt \in Attempts
  BY DEF Decline, NotSent, Receive, GiveUp, Break, TypeOK
<1>2. PICK o \in Outcomes : outcome' = [outcome EXCEPT ![attempt] = o]
  <2>1. CASE Decline
    BY <2>1, VerdictFate DEF Decline, Failing, Finish
  <2>2. CASE NotSent \/ GiveUp \/ Break
    BY <2>2 DEF NotSent, GiveUp, Break, Finish, Outcomes
  <2>3. CASE Receive
    BY <2>3, DecodedFate DEF Receive, Finish, TypeOK
  <2>. QED  BY <2>1, <2>2, <2>3
<1>3. outcome[attempt] = "none" /\ outcome'[attempt] = o
  BY <1>1, <1>2 DEF FateInv, TypeOK
<1>4. FateInv' /\ TypeOK'
  BY ReturnStep
<1>5. Told(o) \in {"done", "refused", "unknown"}
  BY DEF Told, Definite, Outcomes
<1>6. Told(outcome[attempt]) = "waiting"
  BY <1>3 DEF Told, Definite
<1>7. Told(o) = "done" => stored[attempt] = Work
  <2>1. (Told(outcome[attempt]) = "done" => wire[attempt] = "executed" \/ Work = Zero)'
    BY <1>1, <1>4 DEF FateInv
  <2>2. Told(o) = "done" => wire[attempt] = "executed" \/ Work = Zero
    BY <2>1, <1>1, <1>3, SameConnection DEF Zero
  <2>. QED  BY <2>2, <1>1 DEF FateInv
<1>8. Told(o) = "refused" => stored[attempt] = Zero
  <2>1. (Told(outcome[attempt]) = "refused" => wire[attempt] \in {"unsent", "refused"})'
    BY <1>1, <1>4 DEF FateInv
  <2>2. Told(o) = "refused" => wire[attempt] \in {"unsent", "refused"}
    BY <2>1, <1>1, <1>3, SameConnection
  <2>. QED  BY <2>2, <1>1 DEF FateInv
<1>9. ToldOf' = [ToldOf EXCEPT ![attempt] = Told(o)]
  <2>1. \A a \in Attempts : (Told(outcome[a]))' = Told(outcome'[a])
    BY <1>1, SameConnection
  <2>. QED  BY <1>1, <1>2, <2>1 DEF ToldOf, TypeOK
<1>10. Promise!Tell(attempt, Told(o))
  BY <1>1, <1>6, <1>7, <1>8, <1>9, SameConnection DEF Promise!Tell, Promise!Nothing,
     Zero, ToldOf
<1>. QED  BY <1>5, <1>10

(* A step that returns no call tells nothing. *)
LEMMA TellsNothing ==
  ASSUME UNCHANGED <<connection, outcome>> PROVE ToldOf' = ToldOf /\ Work' = Work
BY SameConnection DEF ToldOf

(* ImplementsDelivery: outcomes tell the truth about the work for good,    *)
(* and the work of a call happens once at most and as a whole.             *)
THEOREM TransportKeepsPromise == Spec => ImplementsDelivery
<1>1. Init => Promise!Init
  <2>. SUFFICES ASSUME Init PROVE Promise!Init
    OBVIOUS
  <2>1. Told("none") = "waiting"
    BY DEF Told, Definite
  <2>2. ToldOf = [a \in Attempts |-> "waiting"]
    BY <2>1 DEF ToldOf, Init
  <2>. QED  BY <2>2, WorkType DEF Init, Promise!Init, Promise!Nothing, ToldOf
<1>2. TransportInv /\ [Next]_vars => [Promise!Next]_(Promise!vars)
  <2>. SUFFICES ASSUME TransportInv, [Next]_vars PROVE [Promise!Next]_(Promise!vars)
    OBVIOUS
  <2>1. CASE Decline \/ NotSent \/ Receive \/ GiveUp \/ Break
    BY <2>1, FinishTells DEF Promise!Next, TransportInv, TypeOK
  <2>2. ASSUME NEW a \in Attempts, Execute(a) PROVE [Promise!Next]_(Promise!vars)
    <3>1. stored[a] = Zero /\ wire[a] = "travelling" /\ stored' = [stored EXCEPT ![a] = Work]
      BY <2>2, AddToZero DEF Execute, TransportInv, FateInv, TypeOK
    <3>2. ToldOf' = ToldOf /\ Work' = Work
      BY <2>2, TellsNothing DEF Execute
    <3>3. CASE Work = Zero
      <4>1. stored' = stored
        BY <3>1, <3>3 DEF TransportInv, TypeOK
      <4>. QED  BY <3>2, <4>1 DEF Promise!vars, ToldOf
    <3>4. CASE Work # Zero
      <4>1. Told(outcome[a]) \in {"waiting", "unknown"}
        <5>1. Told(outcome[a]) \in {"waiting", "done", "refused", "unknown"}
          BY DEF Told, Definite
        <5>. QED  BY <3>1, <3>4, <5>1 DEF TransportInv, FateInv
      <4>2. Promise!Store(a)
        BY <3>1, <3>2, <4>1 DEF Promise!Store, Promise!Nothing, ToldOf, Zero
      <4>. QED  BY <4>2 DEF Promise!Next
    <3>. QED  BY <3>3, <3>4
  <2>3. ASSUME UNCHANGED <<connection, outcome, stored>> PROVE UNCHANGED Promise!vars
    BY <2>3, TellsNothing DEF Promise!vars, ToldOf
  <2>4. CASE Send \/ Interject \/ Retry \/ UNCHANGED vars \/ \E a \in Attempts : Refuse(a) \/ Lose(a)
    BY <2>3, <2>4 DEF Send, Interject, Retry, Refuse, Lose, vars, connection
  <2>. QED  BY <2>1, <2>2, <2>4 DEF Next, Caller, Service
<1>. QED  BY <1>1, <1>2, InitInv, NextInv, PTL DEF Spec, ImplementsDelivery, Promise!Spec
=============================================================================
