----------------------------- MODULE Scheduler -----------------------------
(***************************************************************************)
(* scheduler.c: what a worker thread does with one request, from           *)
(* scheduler_execute to the response, with every worker running its own    *)
(* copy.  The workers share the registry's in-flight counters and nothing  *)
(* else; registry_acquire_candidate and registry_release are atomic (the   *)
(* registry's mutex), everything else is local to the worker.              *)
(***************************************************************************)
EXTENDS Registry, Backends, FiniteSetsExt

CONSTANTS Workers,      \* the worker threads
          Requests,     \* the parsed requests that may arrive
          GatewayPin,   \* gateway_settings->gateway_pin
          NoPin,        \* the value of GatewayPin when none is configured
          NoSequence,   \* the "sequence" of a request without one
          NoRequest,    \* what an idle worker is executing
          MaxSteps      \* MAX_SEQUENCE_STEPS

(***************************************************************************)
(* A request is a record with the operation op, the caller's pin, the      *)
(* device hint, the preference, the sequence, and what key_ref says: the   *)
(* key source (0 when there is none or it is unknown), the device_id       *)
(* keyDevice and the key_id keyId.  A sequence is a list of steps          *)
(* [op, type]; a token parse_sequence cannot make sense of is a step of    *)
(* type "unknown".                                                         *)
(***************************************************************************)

VARIABLES
  inflight,   \* inflight[s]: device_resource_t.inflight of slot s
  pc,         \* where the worker is in scheduler_execute
  req,        \* the request it executes
  step,       \* index of the current step
  dev,        \* the device it holds: a slot, or 0
  good,       \* whether translation and dispatch of this step succeeded
  selected,   \* resp->selected_device: the slots of the finished steps
  payload,    \* current_payload: the operations whose result it is
  status      \* resp->status

vars == <<inflight, pc, req, step, dev, good, selected, payload, status>>

OK == 0
BadRequest == 400
Unauthorized == 401
BackendFail == 502
NoResource == 503
Statuses == {OK, BadRequest, Unauthorized, BackendFail, NoResource}

Locations == {"idle", "acquire", "holding", "release", "reply"}

\* The values of an int of the build: what atoi makes of a field.
IntMax == 2147483647
IntMin == -IntMax - 1
CInt == IntMin .. IntMax

\* device_resource_t, without its counter.  The loader makes DEV_UNKNOWN of a
\* type that it does not know, and keeps the device.
DeviceRecords ==
  [id : Nat, max : CInt, enabled : BOOLEAN, type : {"classic", "pqc", "unknown"},
   profile : STRING, priority : CInt, security : CInt, efficiency : CInt,
   caps : SUBSET (STRING \X STRING \X STRING \X SUBSET KeySources)]

ASSUME WorkersAssumption == IsFiniteSet(Workers)
ASSUME RegistryAssumption == Devices \in Seq(DeviceRecords)

-----------------------------------------------------------------------------
CheckPinOp == <<"auth", "check_pin">>

IsCheckPin(r) == GatewayPin # NoPin /\ <<r.op[1], r.op[2]>> = CheckPinOp

\* validate_gateway_pin returns -1.
PinRejected(r) == GatewayPin # NoPin /\ r.pin # GatewayPin

\* The steps of a request; a request without a sequence is one step whose
\* device type is left open.
Steps(r) == IF r.sequence = NoSequence THEN <<[op |-> r.op, type |-> "unknown"]>>
            ELSE r.sequence

\* sequence_step_t
StepRecords ==
  [op : STRING \X STRING \X STRING, type : {"classic", "pqc", "unknown"}]

ASSUME RequestsAssumption == \A r \in Requests : Steps(r) \in Seq(StepRecords)

\* parse_sequence fails.
BadSequence(r) ==
  /\ r.sequence # NoSequence
  /\ \/ Len(r.sequence) > MaxSteps
     \/ \E i \in DOMAIN r.sequence : r.sequence[i].type = "unknown"

\* resolve_device_hint_from_key_ref fails: an internal key that is bound to
\* no device, or to two.
Unbound(r) ==
  /\ r.source = 1
  /\ IF r.keyDevice = NoId THEN r.hint = NoId ELSE r.hint \notin {NoId, r.keyDevice}

-----------------------------------------------------------------------------
(***************************************************************************)
(* Plausible errors in the code, here and further down: each is a variant  *)
(* of the definition that it is named after.  No specification uses them.  *)
(***************************************************************************)
\* The device the internal key lives on is forgotten.
EffectiveHintOfRequest(r) == r.hint

\* Only the first choice of device type is tried.
OrderNoFallback(preference, type) ==
  <<IF type # "unknown" THEN type
    ELSE IF preference \in {"pqc_first", "secure"} THEN "pqc" ELSE "classic">>
-----------------------------------------------------------------------------

\* resolve_device_hint_from_key_ref succeeds: the hint it computes.
EffectiveHint(r) == IF r.source = 1 /\ r.keyDevice # NoId THEN r.keyDevice ELSE r.hint

\* build_order
Order(preference, type) ==
  IF type # "unknown" THEN <<type>>
  ELSE IF preference \in {"pqc_first", "secure"} THEN <<"pqc", "classic">>
  ELSE <<"classic", "pqc">>

Current(w) == Steps(req[w])[step[w]]

\* The device the current step gets, if any: a set of at most one slot.
Choice(w) ==
  IF Unbound(req[w]) THEN {}
  ELSE Candidate(inflight, Current(w).op, EffectiveHint(req[w]), req[w].source,
                 req[w].preference, Order(req[w].preference, Current(w).type))

\* The status of a request one of whose steps failed.
FailStatus(r) == IF r.sequence = NoSequence THEN NoResource ELSE BackendFail

-----------------------------------------------------------------------------
Init ==
  /\ inflight = [s \in Slots |-> 0]
  /\ pc = [w \in Workers |-> "idle"]
  /\ req = [w \in Workers |-> NoRequest]
  /\ step = [w \in Workers |-> 0]
  /\ dev = [w \in Workers |-> 0]
  /\ good = [w \in Workers |-> FALSE]
  /\ selected = [w \in Workers |-> <<>>]
  /\ payload = [w \in Workers |-> <<>>]
  /\ status = [w \in Workers |-> OK]

\* The worker has its response; build_error_response clears everything the
\* finished steps had put into it.
Answer(w, code) ==
  /\ pc' = [pc EXCEPT ![w] = "reply"]
  /\ status' = [status EXCEPT ![w] = code]
  /\ step' = [step EXCEPT ![w] = 0]

\* build_error_response without its memset.
AnswerErrorKeepingResult(w, code) ==
  /\ Answer(w, code)
  /\ UNCHANGED <<selected, payload>>

AnswerError(w, code) ==
  /\ Answer(w, code)
  /\ selected' = [selected EXCEPT ![w] = <<>>]
  /\ payload' = [payload EXCEPT ![w] = <<>>]

\* scheduler_execute up to the first step, in its three ways to end early:
\* the gateway answers for itself, or the sequence is malformed, or it has
\* no step at all (">"), which the code answers like a success.
Begin(w, r) ==
  /\ pc[w] = "idle"
  /\ req' = [req EXCEPT ![w] = r]
  /\ UNCHANGED <<inflight, dev, good, selected, payload>>

Denied(w, r) ==
  /\ Begin(w, r)
  /\ PinRejected(r)
  /\ Answer(w, Unauthorized)

PinOk(w, r) ==
  /\ Begin(w, r)
  /\ ~PinRejected(r) /\ IsCheckPin(r)
  /\ Answer(w, OK)

Malformed(w, r) ==
  /\ Begin(w, r)
  /\ ~PinRejected(r) /\ ~IsCheckPin(r)
  /\ BadSequence(r)
  /\ Answer(w, BadRequest)

EmptySequence(w, r) ==
  /\ Begin(w, r)
  /\ ~PinRejected(r) /\ ~IsCheckPin(r)
  /\ Steps(r) = <<>>
  /\ Answer(w, OK)

\* The PIN is not compared.
StartUnchecked(w, r) ==
  /\ Begin(w, r)
  /\ ~IsCheckPin(r)
  /\ ~BadSequence(r) /\ Steps(r) # <<>>
  /\ pc' = [pc EXCEPT ![w] = "acquire"]
  /\ step' = [step EXCEPT ![w] = 1]
  /\ UNCHANGED status

Start(w, r) ==
  /\ Begin(w, r)
  /\ ~PinRejected(r) /\ ~IsCheckPin(r)
  /\ ~BadSequence(r) /\ Steps(r) # <<>>
  /\ pc' = [pc EXCEPT ![w] = "acquire"]
  /\ step' = [step EXCEPT ![w] = 1]
  /\ UNCHANGED status

\* execute_single_step: registry_acquire_candidate.
Acquire(w) ==
  /\ pc[w] = "acquire"
  /\ \E s \in Choice(w) :
       /\ inflight' = [inflight EXCEPT ![s] = @ + 1]
       /\ dev' = [dev EXCEPT ![w] = s]
  /\ pc' = [pc EXCEPT ![w] = "holding"]
  /\ UNCHANGED <<req, step, good, selected, payload, status>>

\* A worker that gets no device tries again.
NoDeviceRetried(w) ==
  /\ pc[w] = "acquire"
  /\ Choice(w) = {}
  /\ UNCHANGED vars

\* The key reference binds to no device, or no device is available.
NoDevice(w) ==
  /\ pc[w] = "acquire"
  /\ Choice(w) = {}
  /\ AnswerError(w, FailStatus(req[w]))
  /\ UNCHANGED <<inflight, req, dev, good>>

\* A failed call returns at once, with the device still acquired.
ExecuteEarlyReturn(w) ==
  /\ pc[w] = "holding"
  /\ \E g \in Outcomes(Devices[dev[w]], Current(w).op) :
       IF g THEN /\ pc' = [pc EXCEPT ![w] = "release"]
                 /\ good' = [good EXCEPT ![w] = TRUE]
                 /\ UNCHANGED <<step, selected, payload, status>>
       ELSE AnswerError(w, FailStatus(req[w])) /\ UNCHANGED good
  /\ UNCHANGED <<inflight, req, dev>>

\* translate_backend_call and driver_dispatch, on the device the worker holds.
Execute(w) ==
  /\ pc[w] = "holding"
  /\ \E g \in Outcomes(Devices[dev[w]], Current(w).op) : good' = [good EXCEPT ![w] = g]
  /\ pc' = [pc EXCEPT ![w] = "release"]
  /\ UNCHANGED <<inflight, req, step, dev, selected, payload, status>>

\* registry_release, which all three ways out of execute_single_step call
\* once a device was acquired, ...
GiveBack(w) ==
  /\ pc[w] = "release"
  /\ inflight' = Release(inflight, dev[w])
  /\ dev' = [dev EXCEPT ![w] = 0]
  /\ good' = [good EXCEPT ![w] = FALSE]
  /\ UNCHANGED req

\* The failing path forgets registry_release.
StepFailedLeak(w) ==
  /\ pc[w] = "release" /\ ~good[w]
  /\ dev' = [dev EXCEPT ![w] = 0]
  /\ AnswerError(w, FailStatus(req[w]))
  /\ UNCHANGED <<inflight, req, good>>

\* ... then the step failed, which ends the request, ...
StepFailed(w) ==
  /\ GiveBack(w)
  /\ ~good[w]
  /\ AnswerError(w, FailStatus(req[w]))

\* ... or its result becomes the next step's input or the response's result.
StepDone(w) ==
  /\ GiveBack(w)
  /\ good[w]
  /\ selected' = [selected EXCEPT ![w] = Append(@, dev[w])]
  /\ payload' = [payload EXCEPT ![w] = Append(@, Current(w).op)]

NextStep(w) ==
  /\ StepDone(w)
  /\ step[w] < Len(Steps(req[w]))
  /\ step' = [step EXCEPT ![w] = @ + 1]
  /\ pc' = [pc EXCEPT ![w] = "acquire"]
  /\ UNCHANGED status

LastStep(w) ==
  /\ StepDone(w)
  /\ step[w] = Len(Steps(req[w]))
  /\ Answer(w, OK)

\* worker_main has written the response and takes the next job.
Reset(w) ==
  /\ pc[w] = "reply"
  /\ pc' = [pc EXCEPT ![w] = "idle"]
  /\ req' = [req EXCEPT ![w] = NoRequest]
  /\ selected' = [selected EXCEPT ![w] = <<>>]
  /\ payload' = [payload EXCEPT ![w] = <<>>]
  /\ status' = [status EXCEPT ![w] = OK]
  /\ UNCHANGED <<inflight, step, dev, good>>

Next ==
  \/ \E w \in Workers, r \in Requests : Denied(w, r)
  \/ \E w \in Workers, r \in Requests : PinOk(w, r)
  \/ \E w \in Workers, r \in Requests : Malformed(w, r)
  \/ \E w \in Workers, r \in Requests : EmptySequence(w, r)
  \/ \E w \in Workers, r \in Requests : Start(w, r)
  \/ \E w \in Workers : Acquire(w)
  \/ \E w \in Workers : NoDevice(w)
  \/ \E w \in Workers : Execute(w)
  \/ \E w \in Workers : StepFailed(w)
  \/ \E w \in Workers : NextStep(w)
  \/ \E w \in Workers : LastStep(w)
  \/ \E w \in Workers : Reset(w)

\* A worker that executes a request goes on executing it: the thread is
\* scheduled and the adapters return.
Work(w) == \/ Acquire(w) \/ NoDevice(w) \/ Execute(w)
           \/ StepFailed(w) \/ NextStep(w) \/ LastStep(w)

SafeSpec == Init /\ [][Next]_vars

Spec == SafeSpec /\ \A w \in Workers : WF_vars(Work(w))

-----------------------------------------------------------------------------
TypeOK ==
  /\ inflight \in [Slots -> Nat]
  /\ pc \in [Workers -> Locations]
  /\ req \in [Workers -> Requests \cup {NoRequest}]
  /\ step \in [Workers -> Nat]
  /\ dev \in [Workers -> Slots \cup {0}]
  /\ good \in [Workers -> BOOLEAN]
  /\ \A w \in Workers : dev[w] # 0 <=> pc[w] \in {"holding", "release"}
  /\ selected \in [Workers -> Seq(Slots)]
  /\ status \in [Workers -> Statuses]

Holders(s) == {w \in Workers : dev[w] = s}

\* No other entry of the file of devices has the id of this one.  The loader
\* accepts a file with two entries of one id.
OwnId(s) == Namesakes(s) = {s}

\* The counters are exact: a device's inflight is the number of workers that
\* hold it, on every path through execute_single_step, the failing ones
\* included (scheduler.c:204, 214 and 218).  A path that forgot to release, or
\* released twice, would slowly close a device or overload it.  Two entries of
\* one id do mix up their counters, but no other device's (resource.c:139).
InflightExact ==
  \A s \in Slots : OwnId(s) => inflight[s] = Cardinality(Holders(s))

\* No device ever executes more requests at a time than its max_inflight,
\* whatever the hints and preferences (resource.c:98 and 117).
NeverOverbooked ==
  \A s \in Slots : OwnId(s) /\ Holders(s) # {} => Cardinality(Holders(s)) <= Devices[s].max

\* What each device may take: atoi makes a limit below zero of "-1", and such a
\* device takes as little as one with the limit zero.
Room == [t \in Slots |-> IF Devices[t].max > 0 THEN Devices[t].max ELSE 0]

Total(f, S) == MapThenSumSet(LAMBDA t : f[t], S)

\* Entries of one id together never execute more requests than all of them may:
\* a release that decrements the wrong one's counter, or none because it is at
\* zero, makes some of them look busier than they are, never all of them less
\* busy (resource.c:138-144).
NamesakesNeverOverbooked ==
  \A s \in Slots :
    Cardinality({w \in Workers : dev[w] \in Namesakes(s)}) <= Total(Room, Namesakes(s))

\* An internal key never leaves the device it is bound to: every step of the
\* request, also of a sequence that names other device types, is executed on
\* that one device (scheduler.c:132-160, 185).
InternalKeyStaysHome ==
  \A w \in Workers : req[w] # NoRequest =>
    (req[w].source = 1 =>
       \A s \in {dev[w]} \cup {selected[w][i] : i \in DOMAIN selected[w]} :
          s # 0 => /\ ~Unbound(req[w])
                   /\ Devices[s].id = IF req[w].hint # NoId THEN req[w].hint
                                      ELSE req[w].keyDevice)

\* A response tells the truth about what was executed: success means that
\* every step ran, in order and each on the result of the one before; any
\* failure reports no device and no partial result, also when the last of
\* several steps failed (scheduler.c:295-322).
ReplyMatchesWork ==
  \A w \in Workers : pc[w] = "reply" =>
    /\ status[w] = OK /\ ~IsCheckPin(req[w]) =>
         /\ Len(selected[w]) = Len(Steps(req[w]))
         /\ payload[w] = [i \in DOMAIN Steps(req[w]) |-> Steps(req[w])[i].op]
    /\ status[w] # OK => selected[w] = <<>> /\ payload[w] = <<>>

\* Whoever does not know the gateway's PIN gets no device to execute anything
\* for him and no answer but 401 (scheduler.c:332-335).
PinGuardsDevices ==
  \A w \in Workers : req[w] # NoRequest =>
    (PinRejected(req[w]) => dev[w] = 0 /\ pc[w] = "reply" /\ status[w] = Unauthorized)

\* Whether slot s could execute the current step of worker w.  A device of no
\* known type is there for those who name it only: build_order never tries it.
CouldServe(s, w) ==
  /\ ~Unbound(req[w])
  /\ Fits(s, Current(w).op, req[w].source)
  /\ IF EffectiveHint(req[w]) # NoId THEN Devices[s].id = EffectiveHint(req[w])
     ELSE /\ Devices[s].type # "unknown"
          /\ Current(w).type \in {"unknown", Devices[s].type}

\* "No available device" is never said while a device that could serve the
\* step is below its limit: each of them is then really held by as many
\* workers as it takes (resource.c:94-132).
RefusedOnlyWhenBusy ==
  [][\A w \in Workers : pc[w] = "acquire" /\ pc'[w] = "reply" =>
       \A s \in Slots : OwnId(s) /\ CouldServe(s, w) => Cardinality(Holders(s)) >= Devices[s].max]_vars

\* Every request a worker has begun is answered.
EveryRequestAnswered == \A w \in Workers : pc[w] = "acquire" ~> pc[w] = "reply"

\* The documentation has a managed key mapped to one device by its key_id;
\* so two requests with the same key never execute on two devices.
ManagedKeyOneDevice ==
  LET Used(w) == {dev[w]} \cup {selected[w][i] : i \in DOMAIN selected[w]}
  IN  \A v, w \in Workers : req[v] # NoRequest /\ req[w] # NoRequest =>
        (req[v].source = 4 /\ req[w].source = 4 /\ req[v].keyId = req[w].keyId =>
           \A s \in Used(v) \ {0}, t \in Used(w) \ {0} : s = t)

\* The adapter guide requires a supported capability to work end to end; so a
\* device that declares the operation of a step, and whose adapter is not
\* hardware, does not fail it.
DeclaredCapabilityRuns ==
  \A w \in Workers : pc[w] = "release" /\ ~good[w] => Adapter(Devices[dev[w]]) = "skf"

=============================================================================
