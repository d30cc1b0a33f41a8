-------------------------- MODULE InferenceManager --------------------------
(***************************************************************************)
(* The lifecycle of one registered inference service in                    *)
(* app/inference.py: concurrent chat and stream requests, health probes    *)
(* and the operator's stop.                                                *)
(*                                                                         *)
(* Every handler runs in a thread of the server's pool, and a stream is a  *)
(* generator that the pool resumes between two chunks.  A thread can lose  *)
(* the processor at a call, so an action is the code between two calls     *)
(* that other threads' actions can separate: the admission lock, the       *)
(* runtime's answer, and `type(exc).__name__`, which stands between        *)
(* `state = DEGRADED` and the test of the error threshold.                 *)
(*                                                                         *)
(* Token counts, timings and error names are left out: no decision of the  *)
(* manager reads them.                                                     *)
(***************************************************************************)
EXTENDS Naturals, FiniteSets

CONSTANTS
    Request,        \* requests that reach the manager, each made once
    StreamRequest,  \* those made with "stream": true (stream_chat)
    Probe,          \* calls of health_check, each made once
    MaxConcurrent,  \* service.max_concurrent_requests
    Threshold,      \* manager.auto_drain_error_threshold
    Runtimes        \* the kinds of runtime that the service may be registered with

ASSUME RequestAssumption == IsFiniteSet(Request) /\ StreamRequest \subseteq Request
ASSUME ProbeAssumption == IsFiniteSet(Probe)
ASSUME MaxConcurrentAssumption == MaxConcurrent \in Nat \ {0}
ASSUME ThresholdAssumption == Threshold \in Nat \ {0}
ASSUME RuntimesAssumption == Runtimes \subseteq {"mock", "openai", "openai_no_endpoint"}

VARIABLES
    runtime,         \* the adapter that register() chose, and whether it has an endpoint
    state,           \* service.state
    requests,        \* service.requests
    errors,          \* service.errors
    rejections,      \* service.admission_rejections
    inFlight,        \* service.in_flight_requests
    healthChecks,    \* service.health_checks
    healthFailures,  \* service.health_failures
    pc,              \* pc[r]: where the thread of request r is
    probe            \* probe[p]: where the thread of health check p is

counters == <<requests, errors, rejections>>
health   == <<healthChecks, healthFailures, probe>>
vars     == <<runtime, state, counters, inFlight, health, pc>>

ServiceState == {"ready", "degraded", "unavailable", "stopped"}
Phase ==
    { "idle",         \* not made yet
      "entered",      \* past the test for a stopped service
      "turned_away",  \* over: the service was stopped
      "rejected",     \* over: the admission limit was reached
      "admitted",     \* inside the runtime, or between two chunks of a stream
      "failing",      \* the error is counted, its consequence not yet drawn
      "leaving",      \* before its finally clause, a stream at its error event
      "succeeded", "failed", "aborted" }      \* over, slot released

AtPhase(S) == {r \in Request : pc[r] \in S}

\* The requests that have taken a slot and not given it back.
Holding == AtPhase({"admitted", "failing", "leaving"})

TypeOK ==
    /\ runtime \in Runtimes
    /\ state \in ServiceState
    /\ requests \in Nat /\ errors \in Nat /\ rejections \in Nat
    /\ inFlight \in Nat
    /\ healthChecks \in Nat /\ healthFailures \in Nat
    /\ pc \in [Request -> Phase]
    /\ probe \in [Probe -> {"idle", "probing", "skipped", "done", "raised"}]

\* register(): a new service is ready and every counter is zero.  Its runtime
\* is chosen once.
Init ==
    /\ runtime \in Runtimes
    /\ state = "ready"
    /\ requests = 0 /\ errors = 0 /\ rejections = 0
    /\ inFlight = 0
    /\ healthChecks = 0 /\ healthFailures = 0
    /\ pc = [r \in Request |-> "idle"]
    /\ probe = [p \in Probe |-> "idle"]

-----------------------------------------------------------------------------
(* Requests *)

goto(r, phase) == pc' = [pc EXCEPT ![r] = phase]

\* Deliberately wrong: released in the error handler and again in finally,
\* and without the clamp at zero.
ReleaseTwice == inFlight' = inFlight - 2

\* _release_request
Release == inFlight' = IF inFlight > 0 THEN inFlight - 1 ELSE 0

\* Deliberately wrong: the test for a stopped service is forgotten.
EnterUnchecked(r) ==
    /\ pc[r] = "idle"
    /\ goto(r, "entered")
    /\ UNCHANGED <<runtime, state, counters, inFlight, health>>

\* The first lines of chat and stream_chat: a stopped service turns away.
Enter(r) ==
    /\ pc[r] = "idle"
    /\ goto(r, IF state = "stopped" THEN "turned_away" ELSE "entered")
    /\ UNCHANGED <<runtime, state, counters, inFlight, health>>

\* Deliberately wrong: one request more than the limit is let in.
AcquireOneMore(r) ==
    /\ pc[r] = "entered"
    /\ requests' = requests + 1
    /\ IF inFlight > MaxConcurrent
         THEN rejections' = rejections + 1 /\ goto(r, "rejected") /\ UNCHANGED inFlight
         ELSE inFlight' = inFlight + 1 /\ goto(r, "admitted") /\ UNCHANGED rejections
    /\ UNCHANGED <<runtime, state, errors, health>>

\* The request is counted and asks for a slot (_acquire_request).  The count
\* is read by no other step, so it is taken together with the lock.
Acquire(r) ==
    /\ pc[r] = "entered"
    /\ requests' = requests + 1
    /\ IF inFlight >= MaxConcurrent
         THEN /\ rejections' = rejections + 1
              /\ goto(r, "rejected")
              /\ UNCHANGED inFlight
         ELSE /\ inFlight' = inFlight + 1
              /\ goto(r, "admitted")
              /\ UNCHANGED rejections
    /\ UNCHANGED <<runtime, state, errors, health>>

\* The runtime answers.  Without an endpoint it always raises.
Succeed(r) ==
    /\ pc[r] = "admitted"
    /\ runtime # "openai_no_endpoint"
    /\ Release
    /\ goto(r, "succeeded")
    /\ UNCHANGED <<runtime, state, counters, health>>

\* The runtime raises: the error is counted and the service degraded,
\* whatever its state is by now.  The mock runtime never raises.
Fail(r) ==
    /\ pc[r] = "admitted"
    /\ runtime # "mock"
    /\ errors' = errors + 1
    /\ state' = "degraded"
    /\ goto(r, "failing")
    /\ UNCHANGED <<runtime, requests, rejections, inFlight, health>>

\* Deliberately wrong: the service is stopped one error too late.
DrainLate(r) ==
    /\ pc[r] = "failing"
    /\ state' = IF errors > Threshold THEN "stopped" ELSE state
    /\ goto(r, "leaving")
    /\ UNCHANGED <<runtime, counters, inFlight, health>>

\* Deliberately wrong: the error handler releases the slot, like finally.
DrainReleasing(r) ==
    /\ pc[r] = "failing"
    /\ state' = IF errors >= Threshold THEN "stopped" ELSE state
    /\ goto(r, "leaving")
    /\ Release
    /\ UNCHANGED <<runtime, counters, health>>

\* The rest of the error handler: repeated errors stop the service.
Drain(r) ==
    /\ pc[r] = "failing"
    /\ state' = IF errors >= Threshold THEN "stopped" ELSE state
    /\ goto(r, "leaving")
    /\ UNCHANGED <<runtime, counters, inFlight, health>>

\* The finally clause after an error.  A chat reaches it at once, a stream
\* when it is resumed after its error event, or closed at it.
Leave(r) ==
    /\ pc[r] = "leaving"
    /\ Release
    /\ goto(r, "failed")
    /\ UNCHANGED <<runtime, state, counters, health>>

\* Deliberately wrong: the slot is released at the end of the stream only.
DisconnectLeaking(r) ==
    /\ pc[r] = "admitted"
    /\ r \in StreamRequest
    /\ runtime # "openai_no_endpoint"
    /\ goto(r, "aborted")
    /\ UNCHANGED <<runtime, state, counters, inFlight, health>>

\* Deliberately wrong: the handler catches GeneratorExit as an error.
DisconnectAsError(r) ==
    /\ pc[r] = "admitted"
    /\ r \in StreamRequest
    /\ errors' = errors + 1
    /\ Release
    /\ goto(r, "aborted")
    /\ UNCHANGED <<runtime, state, requests, rejections, health>>

\* The client goes away between two chunks: the generator is closed at its
\* yield.  GeneratorExit is no Exception, so this is not an error.
Disconnect(r) ==
    /\ pc[r] = "admitted"
    /\ r \in StreamRequest
    /\ runtime # "openai_no_endpoint"
    /\ Release
    /\ goto(r, "aborted")
    /\ UNCHANGED <<runtime, state, counters, health>>

-----------------------------------------------------------------------------
(* Health checks and the operator *)

\* health_check up to the call of the runtime's health().
ProbeBegin(p) ==
    /\ probe[p] = "idle"
    /\ IF state = "stopped"
         THEN /\ probe' = [probe EXCEPT ![p] = "skipped"]
              /\ UNCHANGED healthChecks
         ELSE /\ probe' = [probe EXCEPT ![p] = "probing"]
              /\ healthChecks' = healthChecks + 1
    /\ UNCHANGED <<runtime, state, counters, inFlight, healthFailures, pc>>

\* The answer overwrites the state that was tested before the call.  With an
\* endpoint, OpenAICompatibleRuntime.health falls off its end and returns
\* None, which health_check cannot unpack: it raises and decides nothing.
ProbeEnd(p) ==
    /\ probe[p] = "probing"
    /\ \/ /\ runtime = "mock"
          /\ state' = "ready"
          /\ probe' = [probe EXCEPT ![p] = "done"]
          /\ UNCHANGED healthFailures
       \/ /\ runtime = "openai_no_endpoint"
          /\ state' = "unavailable"
          /\ healthFailures' = healthFailures + 1
          /\ probe' = [probe EXCEPT ![p] = "done"]
       \/ /\ runtime = "openai"
          /\ probe' = [probe EXCEPT ![p] = "raised"]
          /\ UNCHANGED <<state, healthFailures>>
    /\ UNCHANGED <<runtime, counters, inFlight, healthChecks, pc>>

\* stop
Stop ==
    /\ state' = "stopped"
    /\ UNCHANGED <<runtime, counters, inFlight, health, pc>>

-----------------------------------------------------------------------------
\* One step of the thread of request r, once it has been made.
Proceed(r) ==
    Acquire(r) \/ Succeed(r) \/ Fail(r) \/ Drain(r) \/ Leave(r) \/ Disconnect(r)

Next ==
    \/ \E r \in Request : Enter(r) \/ Proceed(r)
    \/ \E p \in Probe : ProbeBegin(p) \/ ProbeEnd(p)
    \/ Stop

Safety == Init /\ [][Next]_vars

\* Threads that have started are scheduled and the runtime answers or times
\* out (timeout=120); nobody is obliged to make a request or to stop.
Fairness ==
    /\ \A r \in Request : WF_vars(Proceed(r))
    /\ \A p \in Probe : WF_vars(ProbeEnd(p))

Spec == Safety /\ Fairness

-----------------------------------------------------------------------------
(* Properties *)

\* in_flight_requests, which chat, stream, their errors and disconnects all
\* maintain by hand, is exactly the number of requests that hold a slot.
SlotsExact == inFlight = Cardinality(Holding)

\* Never more than max_concurrent_requests inside the runtime: the test and
\* the increment of _acquire_request are not separated.
BoundedConcurrency == Cardinality(Holding) <= MaxConcurrent

\* The counters that /metrics exports tell the truth at every step: each
\* request counted is one that asked for a slot, each rejection one that was
\* refused, each error one that failed, however the threads interleave.
CountersBalance ==
    /\ requests = Cardinality(AtPhase(Phase \ {"idle", "entered", "turned_away"}))
    /\ rejections = Cardinality(AtPhase({"rejected"}))
    /\ errors = Cardinality(AtPhase({"failing", "leaving", "failed"}))

\* README.md:164, "Repeated runtime failures automatically stop the service":
\* when as many errors as the threshold have been counted and no error handler
\* is half way, the service is stopped: a later failure, which degrades it
\* first, may not leave it running.
RepeatedFailuresStop ==
    (errors >= Threshold /\ AtPhase({"failing"}) = {}) => state = "stopped"

\* That holds of the runtimes whose probes cannot answer "unavailable".  (Of
\* the others it does not: a probe that began before the stop may answer after
\* it, health_check at inference.py:266.)
ThresholdStops == runtime # "openai_no_endpoint" => RepeatedFailuresStop

\* A stopped service whose last request and probe are over.
Retired ==
    /\ state = "stopped"
    /\ AtPhase({"entered", "admitted", "failing"}) = {}
    /\ \A p \in Probe : probe[p] # "probing"

\* Once a stopped service is quiet it stays stopped and quiet: no request and
\* no probe that arrives later can start work or bring it back.
RetirementIsFinal == [][Retired => Retired']_vars

\* Slots are never leaked: whatever ends a request, every slot comes back.
SlotsAreReturned == (inFlight > 0) ~> (inFlight = 0)

\* The view of a caller who only sees whether its request got a place.
placeOf(r) ==
    CASE pc[r] \in {"idle", "entered"} -> "waiting"
      [] pc[r] = "turned_away" -> "withdrawn"
      [] pc[r] = "rejected" -> "refused"
      [] pc[r] \in {"admitted", "failing", "leaving"} -> "admitted"
      [] pc[r] \in {"succeeded", "failed", "aborted"} -> "released"

Admission == INSTANCE AdmissionControl WITH place <- [r \in Request |-> placeOf(r)]

\* The counter under the lock, with all its error paths, implements admission
\* control: no one is refused while a place is free, no place is lost.
ImplementsAdmission == Admission!Spec
=============================================================================
