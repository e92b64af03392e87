------------------------------ MODULE Transport ------------------------------
(***************************************************************************)
(* read(), write() and atomic() of the Neon and Supabase adapters: one     *)
(* call, and the calls its caller makes again when the error is retryable, *)
(* against a service whose answers may be late, lost, or someone else's.   *)
(*                                                                         *)
(* A request that was sent stays on its way when its caller has given up:  *)
(* the service may execute it during a later call.                         *)
(***************************************************************************)
EXTENDS Naturals, Sequences

CONSTANTS
  MaxOperations,  \* operations of a batch
  MaxAttempts     \* times the caller makes the call

ASSUME BoundsAssumption == MaxOperations \in Nat \ {0} /\ MaxAttempts \in Nat \ {0}

VARIABLES
  route,    \* "neon" or "supabase"
  mode,     \* access mode of the connection
  context,  \* the storage context given when opening
  captive,  \* whether something on the way answers with JSON of its own
  request,  \* the caller's call
  attempt,  \* number of the current attempt
  client,   \* "ready", "waiting" or "returned"
  wire,     \* what has become of the message of each attempt
  reply,    \* the answer on its way to the waiting call
  outcome,  \* what each attempt returned
  stored    \* how often the service stored each operation's changes, by attempt

vars == <<route, mode, context, captive, request, attempt, client, wire, reply, outcome, stored>>
connection == <<route, mode, context, captive, request>>

Attempts == 1..MaxAttempts
Positions == 1..MaxOperations

(* An operation: how the caller declares it ("write" includes schema       *)
(* operations), whether executing its SQL changes data, and whether its    *)
(* parameters exist in JSON, which has no infinity and no NaN.             *)
Operations == [kind : {"read", "write"}, changes : BOOLEAN, finite : BOOLEAN]

(* read and write post one operation to /query, atomic a list to /batch.   *)
Batches == UNION {[1..n -> Operations] : n \in 0..MaxOperations}

Requests ==
  [path : {"query"}, ops : [1..1 -> Operations], fits : BOOLEAN]
    \cup [path : {"batch"}, ops : Batches, fits : BOOLEAN]

-----------------------------------------------------------------------------
(* Answers.                                                                *)

(* The service executed the request and says so: completely; with a cell   *)
(* of a type outside the portable profile; with a column or a count        *)
(* missing; with the wrong number of results; with more than 4 MiB; or in  *)
(* a form the client can not decode.                                       *)
Results == {"complete", "oddCell", "partial", "miscount", "large", "garbled"}

(* The service refused the request, with a code ("busy" also stands for    *)
(* "locked") or with a status only.                                        *)
Refusals == {"read_only", "unique_violation", "busy", "timeout", "storage_unavailable",
             "unsupported_type", "payload_too_large", "denied"}

(* Something between client and service answered: a status, a redirection, *)
(* a JSON object that is no result, or headers whose body never ends.      *)
Interjections == {"http408", "http500", "http503", "http524", "redirect", "alien", "stalled"}

Answers == Results \cup Refusals \cup Interjections

HasKind(kind) == \E i \in DOMAIN request.ops : request.ops[i].kind = kind

(* The shapes a result of this request can have. *)
ResultShapes ==
  (Results \ {"oddCell", "miscount"})
    \cup {s \in {"oddCell"} : HasKind("read")}
    \cup {s \in {"miscount"} : request.path = "batch"}

(* Following a redirection is left to the HTTP library on Neon. *)
Interjected ==
  Interjections \ ({s \in {"redirect"} : route = "neon"} \cup {s \in {"alien"} : ~captive})

(* Error kinds of the statuses and codes both adapters know. *)
CommonOutcome(answer) ==
  CASE answer \in {"timeout", "http408"} -> "Timeout"
    [] answer \in {"storage_unavailable", "http503"} -> "Unavailable"
    [] answer = "unique_violation" -> "Constraint"
    [] answer = "busy" -> "Busy"
    [] answer = "payload_too_large" -> "Quota"
    [] answer = "denied" -> "Authorization"
    [] answer = "http500" -> "Storage"
    [] answer = "http524" -> "Query"
    [] OTHER -> "Protocol"

(* Neon fills missing cells with NULL and missing counts with a guess, and *)
(* takes cells of any type and results of any size.                        *)
NeonTakes == {"complete", "oddCell", "partial", "large"}

(* Neon decodes any JSON object as a result without rows and counts, and   *)
(* knows a service's read_only and unsupported_type by their status only.  *)
NeonOutcome(answer) ==
  CASE answer \in NeonTakes -> "Ok"
    [] answer = "alien" /\ request.path = "query" -> "Ok"
    [] answer = "read_only" -> "Authorization"
    [] answer = "unsupported_type" -> "Query"
    [] OTHER -> CommonOutcome(answer)

(* Supabase requires every field and limits the size. *)
SupabaseOutcome(answer) ==
  CASE answer = "complete" -> "Ok"
    [] answer = "read_only" -> "ReadOnly"
    [] answer \in {"oddCell", "unsupported_type"} -> "Capability"
    [] OTHER -> CommonOutcome(answer)

GatewayAsBusy(answer) ==
  IF answer = "http503" THEN "Busy"
  ELSE IF route = "neon" THEN NeonOutcome(answer) ELSE SupabaseOutcome(answer)

Decoded(answer) == IF route = "neon" THEN NeonOutcome(answer) ELSE SupabaseOutcome(answer)

Outcomes == {"Ok", "ReadOnly", "Authentication", "Protocol", "Value", "Quota", "Transport",
             "Timeout", "Unavailable", "Constraint", "Busy", "Authorization", "Storage",
             "Query", "Capability"}

TransportRetryable(o) == o \in {"Busy", "Timeout", "Unavailable", "Transport"}

(* DactylError::is_retryable, which also names Locked. *)
IsRetryable(o) == o \in {"Busy", "Timeout", "Unavailable"}

-----------------------------------------------------------------------------
(* The call.                                                               *)

(* What is checked before anything is sent, in order.  Supabase checks the *)
(* context, and a bearer token with it, when the connection is opened.     *)
Checks ==
  IF route = "neon" THEN <<"empty", "writable", "context">>
                    ELSE <<"context", "empty", "writable", "parameters", "size">>

ContextVerdict ==
  CASE context = "absent" -> "Authentication"
    [] context = "malformed" -> "Protocol"
    [] OTHER -> "send"

Verdict(check) ==
  CASE check = "empty" /\ request.ops = <<>> -> "Ok"
    [] check = "writable" /\ HasKind("write") /\ mode = "ReadOnly" -> "ReadOnly"
    [] check = "context" -> ContextVerdict
    [] check = "parameters" /\ (\E i \in DOMAIN request.ops : ~request.ops[i].finite) -> "Value"
    [] check = "size" /\ ~request.fits -> "Quota"
    [] OTHER -> "send"

Failing == {i \in DOMAIN Checks : Verdict(Checks[i]) # "send"}

ModeAsOpened == mode

(* The access mode in the message: a Supabase read asks for read-only on   *)
(* every connection.                                                       *)
ForwardedMode ==
  IF route = "supabase" /\ request.path = "query" /\ HasKind("read") THEN "ReadOnly" ELSE mode

FinishLeavingReply(o) ==
  client' = "returned" /\ outcome' = [outcome EXCEPT ![attempt] = o] /\ UNCHANGED reply

Finish(o) ==
  /\ client' = "returned"
  /\ outcome' = [outcome EXCEPT ![attempt] = o]
  /\ reply' = "none"

(* The call returns without sending: by its first failing check, ... *)
Decline ==
  /\ client = "ready"
  /\ \E i \in Failing : (\A j \in Failing : i <= j) /\ Finish(Verdict(Checks[i]))
  /\ UNCHANGED <<connection, attempt, wire, stored>>

(* ... or because no thread, client or connection is to be had. *)
NotSent ==
  /\ client = "ready" /\ Failing = {}
  /\ Finish("Transport")
  /\ UNCHANGED <<connection, attempt, wire, stored>>

Send ==
  /\ client = "ready" /\ Failing = {}
  /\ client' = "waiting"
  /\ wire' = [wire EXCEPT ![attempt] = "travelling"]
  /\ UNCHANGED <<connection, attempt, reply, outcome, stored>>

Receive ==
  /\ client = "waiting" /\ reply \notin {"none", "stalled"}
  /\ Finish(Decoded(reply))
  /\ UNCHANGED <<connection, attempt, wire, stored>>

DeadlineForHeaders ==
  /\ client = "waiting" /\ reply = "none"
  /\ Finish(IF route = "neon" THEN "Transport" ELSE "Timeout")
  /\ UNCHANGED <<connection, attempt, wire, stored>>

(* The deadline passes: of connecting, of waiting for an answer, or of     *)
(* reading its body, on Supabase of one read of it.                        *)
GiveUp ==
  /\ client = "waiting"
  /\ Finish(IF route = "neon" THEN "Transport" ELSE "Timeout")
  /\ UNCHANGED <<connection, attempt, wire, stored>>

(* The connection fails, before or while the answer is read. *)
Break ==
  /\ client = "waiting"
  /\ Finish("Transport")
  /\ UNCHANGED <<connection, attempt, wire, stored>>

-----------------------------------------------------------------------------
(* The service, the network and the caller.                                *)

(* The service enforces the access mode it is sent, and in a batch of the  *)
(* Supabase contract the kind of each operation.                           *)
Allowed(op) ==
  op.changes => /\ ForwardedMode = "ReadWrite"
                /\ route = "supabase" /\ request.path = "batch" => op.kind = "write"

Changing(i) == i \in DOMAIN request.ops /\ request.ops[i].changes
Work == [i \in Positions |-> IF Changing(i) THEN 1 ELSE 0]

(* An answer reaches the call if it is still waiting and has none. *)
Answer(a, shapes) ==
  IF client = "waiting" /\ a = attempt /\ reply = "none" THEN reply' \in shapes ELSE UNCHANGED reply

Execute(a) ==
  /\ wire[a] = "travelling"
  /\ \A i \in DOMAIN request.ops : Allowed(request.ops[i])
  /\ wire' = [wire EXCEPT ![a] = "executed"]
  /\ stored' = [stored EXCEPT ![a] = [i \in Positions |-> @[i] + Work[i]]]
  /\ Answer(a, ResultShapes)
  /\ UNCHANGED <<connection, attempt, client, outcome>>

Refuse(a) ==
  /\ wire[a] = "travelling"
  /\ wire' = [wire EXCEPT ![a] = "refused"]
  /\ Answer(a, Refusals)
  /\ UNCHANGED <<connection, attempt, client, outcome, stored>>

Lose(a) ==
  /\ wire[a] = "travelling"
  /\ wire' = [wire EXCEPT ![a] = "refused"]
  /\ UNCHANGED <<connection, attempt, client, reply, outcome, stored>>

Interject ==
  /\ client = "waiting" /\ reply = "none"
  /\ reply' \in Interjected
  /\ UNCHANGED <<connection, attempt, client, wire, outcome, stored>>

Retry ==
  /\ client = "returned" /\ IsRetryable(outcome[attempt])
  /\ attempt < MaxAttempts
  /\ attempt' = attempt + 1
  /\ client' = "ready"
  /\ UNCHANGED <<connection, wire, reply, outcome, stored>>

-----------------------------------------------------------------------------
Init ==
  /\ route \in {"neon", "supabase"}
  /\ mode \in {"ReadWrite", "ReadOnly"}
  /\ context \in {"valid", "absent", "malformed"} /\ captive \in BOOLEAN
  /\ request \in Requests
  /\ attempt = 1
  /\ client = "ready"
  /\ wire = [a \in Attempts |-> "unsent"]
  /\ reply = "none"
  /\ outcome = [a \in Attempts |-> "none"]
  /\ stored = [a \in Attempts |-> [i \in Positions |-> 0]]

Caller == Decline \/ NotSent \/ Send \/ Receive \/ GiveUp \/ Break
Service == Interject \/ \E a \in Attempts : Execute(a) \/ Refuse(a) \/ Lose(a)

Next == Caller \/ Service \/ Retry

(* The thread of the call runs, and its deadline passes. *)
Fairness == WF_vars(Decline) /\ WF_vars(Send) /\ WF_vars(GiveUp)

Spec == Init /\ [][Next]_vars /\ Fairness

-----------------------------------------------------------------------------
(* Types: a request is for the attempts made, and only a waiting call has  *)
(* an answer coming.                                                       *)
TypeOK ==
  /\ route \in {"neon", "supabase"} /\ mode \in {"ReadWrite", "ReadOnly"}
  /\ context \in {"valid", "absent", "malformed"} /\ captive \in BOOLEAN
  /\ request \in Requests
  /\ attempt \in Attempts
  /\ client \in {"ready", "waiting", "returned"}
  /\ wire \in [Attempts -> {"unsent", "travelling", "executed", "refused"}]
  /\ reply \in Answers \cup {"none"}
  /\ outcome \in [Attempts -> Outcomes \cup {"none"}]
  /\ stored \in [Attempts -> [Positions -> {0, 1}]]
  /\ \A a \in Attempts : a > attempt => wire[a] = "unsent" /\ outcome[a] = "none"
  /\ reply # "none" => client = "waiting"

(* Only work of a writable connection is ever stored, however late the     *)
(* service executes it, and on a Supabase route only from operations       *)
(* declared as writes and with the parameters as given: read() is no way   *)
(* around the access mode, and no NaN becomes NULL.                        *)
OnlyWritesStored ==
  \A a \in Attempts, i \in Positions : stored[a][i] > 0 =>
    /\ mode = "ReadWrite"
    /\ route = "supabase" => request.ops[i].kind = "write" /\ request.ops[i].finite

(* is_retryable: a caller that retries exactly the errors called retryable *)
(* has its work stored twice only if the earlier attempt ended with        *)
(* Timeout or Unavailable, the two that leave the outcome open; never      *)
(* after Busy, a refusal or success.                                       *)
DoubledOnlyIfOpen ==
  \A a, b \in Attempts, i \in Positions :
    a < b /\ stored[a][i] > 0 /\ stored[b][i] > 0 => outcome[a] \in {"Timeout", "Unavailable"}

(* A call that sent its request returns, even if the answer never ends.    *)
CallReturns == client = "waiting" ~> client = "returned"

(* What an outcome tells: the kinds below are only ever returned when the  *)
(* work was not and will not be done.  Transport, Timeout, Unavailable,    *)
(* Protocol, Capability, Storage and Query leave it open, and so does the  *)
(* Ok of a single Neon call behind something that answers with JSON of its *)
(* own, since any JSON object passes for its result.                       *)
Definite == {"ReadOnly", "Authentication", "Value", "Quota", "Constraint", "Busy", "Authorization"}

Told(o) ==
  CASE o = "none" -> "waiting"
    [] o = "Ok" /\ (route = "supabase" \/ request.path = "batch" \/ ~captive) -> "done"
    [] o \in Definite -> "refused"
    [] OTHER -> "unknown"

Promise == INSTANCE Delivery WITH
  work <- Work, told <- [a \in Attempts |-> Told(outcome[a])]

(* Outcomes tell the truth about the work, for good; the work of a call    *)
(* happens once at most and as a whole.                                    *)
ImplementsDelivery == Promise!Spec
=============================================================================
