----------------------- MODULE InferenceManagerProofs -----------------------
(***************************************************************************)
(* Theorems about InferenceManager for every finite set of requests and    *)
(* probes, every limit, every threshold and every runtime.                 *)
(***************************************************************************)
EXTENDS InferenceManager, FiniteSetTheorems, TLAPS

\* Every set of requests that the manager's properties count is finite.
LEMMA PhaseFinite ==
  ASSUME NEW S
  PROVE  IsFiniteSet(AtPhase(S)) /\ Cardinality(AtPhase(S)) \in Nat
<1>1. AtPhase(S) \subseteq Request
  BY DEF AtPhase
<1>2. IsFiniteSet(AtPhase(S))
  BY <1>1, RequestAssumption, FS_Subset
<1>. QED  BY <1>2, FS_CardinalityType

\* What one thread's move from a phase to another does to the number of
\* requests at a set S of phases: it adds one, takes one away, or changes
\* nothing.
LEMMA GotoCounts ==
  ASSUME NEW S, NEW r \in Request, NEW to,
         pc \in [Request -> Phase], goto(r, to)
  PROVE  /\ Cardinality(AtPhase(S)) \in Nat
         /\ (pc[r] \in S <=> to \in S) =>
               Cardinality(AtPhase(S)') = Cardinality(AtPhase(S))
         /\ (pc[r] \notin S /\ to \in S) =>
               Cardinality(AtPhase(S)') = Cardinality(AtPhase(S)) + 1
         /\ (pc[r] \in S /\ to \notin S) =>
               /\ Cardinality(AtPhase(S)') = Cardinality(AtPhase(S)) - 1
               /\ Cardinality(AtPhase(S)) > 0
<1>1. IsFiniteSet(AtPhase(S)) /\ Cardinality(AtPhase(S)) \in Nat
  BY PhaseFinite
<1>2. \A q \in Request : pc'[q] = IF q = r THEN to ELSE pc[q]
  BY DEF goto
<1>3. ASSUME pc[r] \in S <=> to \in S
      PROVE  Cardinality(AtPhase(S)') = Cardinality(AtPhase(S))
  <2>1. AtPhase(S)' = AtPhase(S)
    BY <1>2, <1>3 DEF AtPhase
  <2>. QED  BY <2>1
<1>4. ASSUME pc[r] \notin S, to \in S
      PROVE  Cardinality(AtPhase(S)') = Cardinality(AtPhase(S)) + 1
  <2>1. AtPhase(S)' = AtPhase(S) \cup {r} /\ r \notin AtPhase(S)
    BY <1>2, <1>4 DEF AtPhase
  <2>. QED  BY <2>1, <1>1, FS_AddElement
<1>5. ASSUME pc[r] \in S, to \notin S
      PROVE  /\ Cardinality(AtPhase(S)') = Cardinality(AtPhase(S)) - 1
             /\ Cardinality(AtPhase(S)) > 0
  <2>1. AtPhase(S)' = AtPhase(S) \ {r} /\ r \in AtPhase(S)
    BY <1>2, <1>5 DEF AtPhase
  <2>2. Cardinality(AtPhase(S)') = Cardinality(AtPhase(S)) - 1
    BY <2>1, <1>1, FS_RemoveElement
  <2>3. Cardinality(AtPhase(S)) # 0
    BY <2>1, <1>1, FS_EmptySet
  <2>. QED  BY <2>2, <2>3, <1>1
<1>. QED  BY <1>1, <1>3, <1>4, <1>5

-----------------------------------------------------------------------------
\* Every variable keeps its type: no counter goes negative, no thread leaves
\* the control flow of its handler.
THEOREM TypeCorrect == Safety => []TypeOK
<1>1. Init => TypeOK
  BY DEF Init, TypeOK, ServiceState, Phase
<1>2. TypeOK /\ [Next]_vars => TypeOK'
  <2>. SUFFICES ASSUME TypeOK, [Next]_vars  PROVE TypeOK'
    OBVIOUS
  <2>. USE DEF TypeOK, ServiceState, Phase, counters, health
  <2>1. CASE UNCHANGED vars
    BY <2>1 DEF vars
  <2>2. ASSUME NEW r \in Request, Enter(r)  PROVE TypeOK'
    BY <2>2 DEF Enter, goto
  <2>3. ASSUME NEW r \in Request, Acquire(r)  PROVE TypeOK'
    BY <2>3 DEF Acquire, goto
  <2>4. ASSUME NEW r \in Request, Succeed(r)  PROVE TypeOK'
    BY <2>4 DEF Succeed, goto, Release
  <2>5. ASSUME NEW r \in Request, Fail(r)  PROVE TypeOK'
    BY <2>5 DEF Fail, goto
  <2>6. ASSUME NEW r \in Request, Drain(r)  PROVE TypeOK'
    BY <2>6 DEF Drain, goto
  <2>7. ASSUME NEW r \in Request, Leave(r)  PROVE TypeOK'
    BY <2>7 DEF Leave, goto, Release
  <2>8. ASSUME NEW r \in Request, Disconnect(r)  PROVE TypeOK'
    BY <2>8 DEF Disconnect, goto, Release
  <2>9. ASSUME NEW p \in Probe, ProbeBegin(p)  PROVE TypeOK'
    BY <2>9 DEF ProbeBegin
  <2>10. ASSUME NEW p \in Probe, ProbeEnd(p)  PROVE TypeOK'
    BY <2>10 DEF ProbeEnd
  <2>11. CASE Stop
    BY <2>11 DEF Stop
  <2>. QED
    BY <2>1, <2>2, <2>3, <2>4, <2>5, <2>6, <2>7, <2>8, <2>9, <2>10, <2>11
    DEF Next, Proceed
<1>. QED  BY <1>1, <1>2, PTL DEF Safety

-----------------------------------------------------------------------------
\* The counter that the admission lock guards and what it stands for.  The
\* bound on the requests is not inductive without the equality: Acquire tests
\* the counter, not the requests.
SlotInvariant ==
    /\ TypeOK
    /\ SlotsExact
    /\ inFlight <= MaxConcurrent

LEMMA SlotInvariantInit == Init => SlotInvariant
<1>. SUFFICES ASSUME Init  PROVE SlotInvariant
  OBVIOUS
<1>1. TypeOK
  BY DEF Init, TypeOK, ServiceState, Phase
<1>2. Holding = {}
  BY DEF Init, Holding, AtPhase
<1>3. Cardinality(Holding) = 0
  BY <1>2, FS_EmptySet
<1>. QED  BY <1>1, <1>3, MaxConcurrentAssumption DEF SlotInvariant, SlotsExact, Init

\* Every way into and out of a slot moves the counter and the set of holders
\* together; the clamp of _release_request at zero never bites.
LEMMA SlotInvariantStep == SlotInvariant /\ TypeOK' /\ [Next]_vars => SlotInvariant'
<1>. SUFFICES ASSUME SlotInvariant, TypeOK', [Next]_vars  PROVE SlotInvariant'
  OBVIOUS
<1>. DEFINE H == {"admitted", "failing", "leaving"}
<1>0. /\ pc \in [Request -> Phase] /\ inFlight \in Nat /\ inFlight <= MaxConcurrent
      /\ inFlight = Cardinality(AtPhase(H)) /\ MaxConcurrent \in Nat \ {0}
  BY MaxConcurrentAssumption DEF SlotInvariant, TypeOK, SlotsExact, Holding
<1>1. ASSUME pc' = pc, inFlight' = inFlight  PROVE SlotInvariant'
  BY <1>0, <1>1 DEF SlotInvariant, SlotsExact, Holding, AtPhase
<1>2. ASSUME NEW r \in Request, NEW to, goto(r, to), pc[r] \in H <=> to \in H,
             inFlight' = inFlight
      PROVE  SlotInvariant'
  <2>1. Cardinality(AtPhase(H)') = Cardinality(AtPhase(H))
    BY <1>0, <1>2, GotoCounts
  <2>. QED  BY <1>0, <1>2, <2>1 DEF SlotInvariant, SlotsExact, Holding
<1>3. ASSUME NEW r \in Request, NEW to, goto(r, to), pc[r] \in H, to \notin H, Release
      PROVE  SlotInvariant'
  <2>1. /\ Cardinality(AtPhase(H)') = Cardinality(AtPhase(H)) - 1
        /\ Cardinality(AtPhase(H)) > 0
    BY <1>0, <1>3, GotoCounts
  <2>2. inFlight' = inFlight - 1
    BY <1>0, <1>3, <2>1 DEF Release
  <2>. QED  BY <1>0, <2>1, <2>2 DEF SlotInvariant, SlotsExact, Holding
<1>4. ASSUME NEW r \in Request, Acquire(r)  PROVE SlotInvariant'
  <2>1. CASE inFlight >= MaxConcurrent
    BY <1>2, <1>4, <2>1 DEF Acquire
  <2>2. CASE ~ (inFlight >= MaxConcurrent)
    <3>1. goto(r, "admitted") /\ inFlight' = inFlight + 1 /\ pc[r] = "entered"
      BY <1>4, <2>2 DEF Acquire
    <3>2. Cardinality(AtPhase(H)') = Cardinality(AtPhase(H)) + 1
      BY <1>0, <3>1, GotoCounts
    <3>. QED  BY <1>0, <2>2, <3>1, <3>2 DEF SlotInvariant, SlotsExact, Holding
  <2>. QED  BY <2>1, <2>2
<1>5. ASSUME NEW r \in Request, Enter(r)  PROVE SlotInvariant'
  BY <1>2, <1>5 DEF Enter
<1>6. ASSUME NEW r \in Request, Succeed(r)  PROVE SlotInvariant'
  BY <1>3, <1>6 DEF Succeed
<1>7. ASSUME NEW r \in Request, Fail(r)  PROVE SlotInvariant'
  BY <1>2, <1>7 DEF Fail
<1>8. ASSUME NEW r \in Request, Drain(r)  PROVE SlotInvariant'
  BY <1>2, <1>8 DEF Drain
<1>9. ASSUME NEW r \in Request, Leave(r)  PROVE SlotInvariant'
  BY <1>3, <1>9 DEF Leave
<1>10. ASSUME NEW r \in Request, Disconnect(r)  PROVE SlotInvariant'
  BY <1>3, <1>10 DEF Disconnect
<1>11. ASSUME NEW p \in Probe, ProbeBegin(p) \/ ProbeEnd(p)  PROVE SlotInvariant'
  BY <1>1, <1>11 DEF ProbeBegin, ProbeEnd
<1>12. CASE Stop \/ UNCHANGED vars
  BY <1>1, <1>12 DEF Stop, vars
<1>. QED
  BY <1>4, <1>5, <1>6, <1>7, <1>8, <1>9, <1>10, <1>11, <1>12 DEF Next, Proceed

\* The inductive invariant of the slots: their number is exact and bounded.
THEOREM SlotInvariantHolds == Safety => []SlotInvariant
<1>1. Init => SlotInvariant
  BY SlotInvariantInit
<1>2. SlotInvariant /\ TypeOK' /\ [Next]_vars => SlotInvariant'
  BY SlotInvariantStep
<1>3. Safety => []TypeOK
  BY TypeCorrect
<1>. QED  BY <1>1, <1>2, <1>3, PTL DEF Safety

\* in_flight_requests is the number of requests that hold a slot, always.
THEOREM SlotsAlwaysExact == Safety => []SlotsExact
<1>1. SlotInvariant => SlotsExact
  BY DEF SlotInvariant
<1>. QED  BY <1>1, SlotInvariantHolds, PTL

\* The admission limit is never exceeded, whatever the interleaving.
THEOREM ConcurrencyBounded == Safety => []BoundedConcurrency
<1>1. SlotInvariant => BoundedConcurrency
  BY DEF SlotInvariant, SlotsExact, BoundedConcurrency
<1>. QED  BY <1>1, SlotInvariantHolds, PTL

-----------------------------------------------------------------------------
\* The exported counters balance at every step.  Given the types the equations
\* are inductive: every move of a thread changes the two sides alike.
THEOREM CountersAlwaysBalance == Safety => []CountersBalance
<1>. DEFINE Asked  == Phase \ {"idle", "entered", "turned_away"}
            Erred  == {"failing", "leaving", "failed"}
            Denied == {"rejected"}
<1>1. Init => CountersBalance
  <2>. SUFFICES ASSUME Init  PROVE CountersBalance
    OBVIOUS
  <2>1. AtPhase(Asked) = {} /\ AtPhase(Erred) = {} /\ AtPhase(Denied) = {}
    BY DEF Init, AtPhase
  <2>. QED  BY <2>1, FS_EmptySet DEF CountersBalance, Init
<1>2. TypeOK /\ CountersBalance /\ [Next]_vars => CountersBalance'
  <2>. SUFFICES ASSUME TypeOK, CountersBalance, [Next]_vars  PROVE CountersBalance'
    OBVIOUS
  <2>0. /\ pc \in [Request -> Phase]
        /\ requests = Cardinality(AtPhase(Asked))
        /\ rejections = Cardinality(AtPhase(Denied))
        /\ errors = Cardinality(AtPhase(Erred))
    BY DEF TypeOK, CountersBalance
  <2>1. ASSUME pc' = pc, UNCHANGED counters  PROVE CountersBalance'
    BY <2>0, <2>1 DEF CountersBalance, AtPhase, counters
  <2>2. ASSUME NEW r \in Request, NEW to, goto(r, to), UNCHANGED counters,
               pc[r] \in Asked <=> to \in Asked,
               pc[r] \in Denied <=> to \in Denied,
               pc[r] \in Erred <=> to \in Erred
        PROVE  CountersBalance'
    <3>1. /\ Cardinality(AtPhase(Asked)') = Cardinality(AtPhase(Asked))
          /\ Cardinality(AtPhase(Denied)') = Cardinality(AtPhase(Denied))
          /\ Cardinality(AtPhase(Erred)') = Cardinality(AtPhase(Erred))
      BY <2>0, <2>2, GotoCounts
    <3>. QED  BY <2>0, <2>2, <3>1 DEF CountersBalance, counters
  <2>3. ASSUME NEW r \in Request, Acquire(r)  PROVE CountersBalance'
    <3>1. PICK to \in {"rejected", "admitted"} :
            /\ goto(r, to)
            /\ rejections' = IF to = "rejected" THEN rejections + 1 ELSE rejections
      BY <2>3 DEF Acquire
    <3>2. pc[r] = "entered" /\ requests' = requests + 1 /\ errors' = errors
      BY <2>3 DEF Acquire
    <3>3. Cardinality(AtPhase(Asked)') = Cardinality(AtPhase(Asked)) + 1
      <4>1. pc[r] \notin Asked /\ to \in Asked
        BY <3>1, <3>2 DEF Phase
      <4>. HIDE DEF Asked
      <4>. QED  BY <2>0, <3>1, <4>1, GotoCounts
    <3>4. Cardinality(AtPhase(Erred)') = Cardinality(AtPhase(Erred))
      <4>1. pc[r] \notin Erred /\ to \notin Erred
        BY <3>1, <3>2
      <4>. HIDE DEF Erred
      <4>. QED  BY <2>0, <3>1, <4>1, GotoCounts
    <3>5. Cardinality(AtPhase(Denied)')
            = IF to = "rejected" THEN Cardinality(AtPhase(Denied)) + 1
                                 ELSE Cardinality(AtPhase(Denied))
      <4>1. CASE to = "rejected"
        BY <2>0, <3>1, <3>2, <4>1, GotoCounts
      <4>2. CASE to = "admitted"
        <5>1. Cardinality(AtPhase(Denied)') = Cardinality(AtPhase(Denied))
          BY <2>0, <3>1, <3>2, <4>2, GotoCounts
        <5>. QED  BY <5>1, <4>2
      <4>. QED  BY <4>1, <4>2
    <3>. QED  BY <2>0, <3>1, <3>2, <3>3, <3>4, <3>5 DEF CountersBalance
  <2>4. ASSUME NEW r \in Request, Fail(r)  PROVE CountersBalance'
    <3>1. /\ goto(r, "failing") /\ pc[r] = "admitted"
          /\ errors' = errors + 1 /\ UNCHANGED <<requests, rejections>>
      BY <2>4 DEF Fail
    <3>2. Cardinality(AtPhase(Asked)') = Cardinality(AtPhase(Asked))
      <4>1. pc[r] \in Asked /\ "failing" \in Asked
        BY <3>1 DEF Phase
      <4>. HIDE DEF Asked
      <4>. QED  BY <2>0, <3>1, <4>1, GotoCounts
    <3>3. Cardinality(AtPhase(Denied)') = Cardinality(AtPhase(Denied))
      <4>1. pc[r] \notin Denied /\ "failing" \notin Denied
        BY <3>1
      <4>. HIDE DEF Denied
      <4>. QED  BY <2>0, <3>1, <4>1, GotoCounts
    <3>4. Cardinality(AtPhase(Erred)') = Cardinality(AtPhase(Erred)) + 1
      <4>1. pc[r] \notin Erred /\ "failing" \in Erred
        BY <3>1
      <4>. HIDE DEF Erred
      <4>. QED  BY <2>0, <3>1, <4>1, GotoCounts
    <3>. QED  BY <2>0, <3>1, <3>2, <3>3, <3>4 DEF CountersBalance
  <2>5. ASSUME NEW r \in Request, Enter(r)  PROVE CountersBalance'
    BY <2>2, <2>5 DEF Enter, Phase
  <2>6. ASSUME NEW r \in Request, Succeed(r)  PROVE CountersBalance'
    BY <2>2, <2>6 DEF Succeed, Phase
  <2>7. ASSUME NEW r \in Request, Drain(r)  PROVE CountersBalance'
    BY <2>2, <2>7 DEF Drain, Phase
  <2>8. ASSUME NEW r \in Request, Leave(r)  PROVE CountersBalance'
    BY <2>2, <2>8 DEF Leave, Phase
  <2>9. ASSUME NEW r \in Request, Disconnect(r)  PROVE CountersBalance'
    BY <2>2, <2>9 DEF Disconnect, Phase
  <2>10. ASSUME NEW p \in Probe, ProbeBegin(p) \/ ProbeEnd(p)  PROVE CountersBalance'
    BY <2>1, <2>10 DEF ProbeBegin, ProbeEnd
  <2>11. CASE Stop \/ UNCHANGED vars
    BY <2>1, <2>11 DEF Stop, vars
  <2>. QED
    BY <2>3, <2>4, <2>5, <2>6, <2>7, <2>8, <2>9, <2>10, <2>11 DEF Next, Proceed
<1>. QED  BY <1>1, <1>2, TypeCorrect, PTL DEF Safety

-----------------------------------------------------------------------------
\* The threshold is honoured by the backends whose probes cannot answer
\* "unavailable": at rest, a service with that many errors is stopped.  The
\* mock runtime revives services, but never fails.
MockNeverFails ==
    runtime = "mock" => errors = 0 /\ \A r \in Request : pc[r] # "failing"

\* On every runtime but one without an endpoint, a service at rest that has as
\* many errors as the threshold is stopped.
THEOREM ThresholdIsHonoured == Safety => []ThresholdStops
<1>1. Init => ThresholdStops /\ MockNeverFails
  BY ThresholdAssumption DEF Init, ThresholdStops, RepeatedFailuresStop, MockNeverFails
<1>2. TypeOK /\ ThresholdStops /\ MockNeverFails /\ [Next]_vars
        => ThresholdStops' /\ MockNeverFails'
  <2>. SUFFICES ASSUME TypeOK, ThresholdStops, MockNeverFails, [Next]_vars
                PROVE  ThresholdStops' /\ MockNeverFails'
    OBVIOUS
  <2>0. /\ pc \in [Request -> Phase] /\ errors \in Nat /\ Threshold \in Nat \ {0}
        /\ runtime \in Runtimes
    BY ThresholdAssumption DEF TypeOK
  <2>1. MockNeverFails'
    <3>1. ASSUME runtime' = runtime,
                 runtime = "mock" => errors' = errors /\ \A q \in Request :
                    pc'[q] = "failing" => pc[q] = "failing"
          PROVE  MockNeverFails'
      BY <3>1 DEF MockNeverFails
    <3>2. ASSUME NEW r \in Request, Enter(r) \/ Proceed(r)  PROVE MockNeverFails'
      BY <2>0, <3>1, <3>2
      DEF Enter, Proceed, Acquire, Succeed, Fail, Drain, Leave, Disconnect, goto, counters
    <3>3. ASSUME NEW p \in Probe, ProbeBegin(p) \/ ProbeEnd(p)  PROVE MockNeverFails'
      BY <3>1, <3>3 DEF ProbeBegin, ProbeEnd, counters
    <3>4. CASE Stop \/ UNCHANGED vars
      BY <3>1, <3>4 DEF Stop, vars, counters
    <3>. QED  BY <3>2, <3>3, <3>4 DEF Next
  <2>12. runtime' = runtime
    <3>1. ASSUME NEW r \in Request, Enter(r) \/ Proceed(r)  PROVE runtime' = runtime
      BY <3>1 DEF Enter, Proceed, Acquire, Succeed, Fail, Drain, Leave, Disconnect
    <3>2. ASSUME NEW p \in Probe, ProbeBegin(p) \/ ProbeEnd(p)  PROVE runtime' = runtime
      BY <3>2 DEF ProbeBegin, ProbeEnd
    <3>3. CASE Stop \/ UNCHANGED vars
      BY <3>3 DEF Stop, vars
    <3>. QED  BY <3>1, <3>2, <3>3 DEF Next
  <2>2. SUFFICES ASSUME runtime # "openai_no_endpoint",
                        errors' >= Threshold, AtPhase({"failing"})' = {}
                 PROVE  state' = "stopped"
    BY <2>1, <2>12 DEF ThresholdStops, RepeatedFailuresStop
  <2>3. \A q \in Request : pc'[q] # "failing"
    BY <2>2 DEF AtPhase
  <2>4. ASSUME NEW r \in Request, Fail(r)  PROVE FALSE
    BY <2>0, <2>3, <2>4 DEF Fail, goto
  <2>5. ASSUME NEW r \in Request, Drain(r)  PROVE state' = "stopped"
    BY <2>2, <2>5 DEF Drain, counters
  <2>6. ASSUME UNCHANGED <<state, errors>>,
               \A q \in Request : pc[q] = "failing" => pc'[q] = "failing"
        PROVE  state' = "stopped"
    BY <2>2, <2>3, <2>6 DEF ThresholdStops, RepeatedFailuresStop, AtPhase
  <2>7. ASSUME NEW r \in Request,
               Enter(r) \/ Acquire(r) \/ Succeed(r) \/ Leave(r) \/ Disconnect(r)
        PROVE  state' = "stopped"
    BY <2>0, <2>6, <2>7 DEF Enter, Acquire, Succeed, Leave, Disconnect, goto, counters
  <2>8. ASSUME NEW p \in Probe, ProbeBegin(p)  PROVE state' = "stopped"
    BY <2>6, <2>8 DEF ProbeBegin, counters
  <2>9. ASSUME NEW p \in Probe, ProbeEnd(p)  PROVE state' = "stopped"
    <3>1. errors' = errors /\ pc' = pc
      BY <2>9 DEF ProbeEnd, counters
    <3>2. runtime # "mock"
      BY <2>0, <2>2, <3>1 DEF MockNeverFails
    <3>3. state' = state
      BY <2>0, <2>2, <2>9, <3>2, RuntimesAssumption DEF ProbeEnd
    <3>. QED  BY <2>6, <3>1, <3>3
  <2>10. CASE Stop
    BY <2>10 DEF Stop
  <2>11. CASE UNCHANGED vars
    BY <2>6, <2>11 DEF vars, counters
  <2>. QED
    BY <2>4, <2>5, <2>7, <2>8, <2>9, <2>10, <2>11 DEF Next, Proceed
<1>. QED  BY <1>1, <1>2, TypeCorrect, PTL DEF Safety

\* A service that is stopped and quiet stays so for ever.
THEOREM RetirementHolds == Safety => RetirementIsFinal
<1>1. TypeOK /\ [Next]_vars => [Retired => Retired']_vars
  <2>. SUFFICES ASSUME TypeOK, Next, Retired  PROVE Retired'
    BY DEF Retired, vars, AtPhase, health
  <2>0. /\ pc \in [Request -> Phase] /\ state = "stopped"
        /\ \A q \in Request : pc[q] \notin {"entered", "admitted", "failing"}
        /\ \A p \in Probe : probe[p] # "probing"
    BY DEF TypeOK, Retired, AtPhase
  <2>1. ASSUME NEW r \in Request, Enter(r) \/ Leave(r)  PROVE Retired'
    BY <2>0, <2>1 DEF Enter, Leave, goto, Retired, AtPhase, health
  <2>2. ASSUME NEW r \in Request,
               Acquire(r) \/ Succeed(r) \/ Fail(r) \/ Drain(r) \/ Disconnect(r)
        PROVE  FALSE
    BY <2>0, <2>2 DEF Acquire, Succeed, Fail, Drain, Disconnect
  <2>3. ASSUME NEW p \in Probe, ProbeBegin(p)  PROVE Retired'
    <3>1. probe' = [probe EXCEPT ![p] = "skipped"] /\ UNCHANGED <<state, pc>>
      BY <2>0, <2>3 DEF ProbeBegin
    <3>. QED  BY <2>0, <3>1 DEF Retired, AtPhase, TypeOK
  <2>4. ASSUME NEW p \in Probe, ProbeEnd(p)  PROVE FALSE
    BY <2>0, <2>4 DEF ProbeEnd
  <2>5. CASE Stop
    BY <2>0, <2>5 DEF Stop, Retired, AtPhase, health
  <2>. QED  BY <2>1, <2>2, <2>3, <2>4, <2>5 DEF Next, Proceed
<1>. QED  BY <1>1, TypeCorrect, PTL DEF Safety, RetirementIsFinal

-----------------------------------------------------------------------------
\* The safety part of ImplementsAdmission.  The counter appears nowhere in the
\* abstract specification: SlotInvariant is what lets the test of the counter
\* stand for the test of the set of admitted requests.
LEMMA AdmittedAreHolding ==
  ASSUME pc \in [Request -> Phase]
  PROVE  Admission!Cardinality(Admission!Admitted) = Cardinality(Holding)
<1>1. ASSUME NEW r \in Request
      PROVE  placeOf(r) = "admitted" <=> pc[r] \in {"admitted", "failing", "leaving"}
  <2>1. pc[r] \in Phase
    OBVIOUS
  <2>. QED  BY <2>1 DEF placeOf, Phase
<1>2. Admission!Admitted = Holding
  BY <1>1 DEF Admission!Admitted, Holding, AtPhase
<1>3. Admission!Cardinality(Holding) = Cardinality(Holding)
  BY DEF Admission!Cardinality, Cardinality
<1>. QED  BY <1>2, <1>3

\* A thread's move is, for the caller, a move of its own place only.
LEMMA PlaceMoves ==
  ASSUME NEW r \in Request, NEW to, pc \in [Request -> Phase], goto(r, to)
  PROVE  [q \in Request |-> placeOf(q)]'
           = [[q \in Request |-> placeOf(q)] EXCEPT ![r] = placeOf(r)']
<1>1. \A q \in Request : q # r => pc'[q] = pc[q]
  BY DEF goto
<1>2. \A q \in Request : q # r => placeOf(q)' = placeOf(q)
  BY <1>1 DEF placeOf
<1>. QED  BY <1>2

\* The counter, the lock and the error paths of the manager implement the
\* safety part of AdmissionControl.
THEOREM SafelyImplementsAdmission == Safety => Admission!Safety
<1>. DEFINE place == [r \in Request |-> placeOf(r)]
<1>1. Init => Admission!Init
  BY DEF Init, Admission!Init, placeOf
<1>2. SlotInvariant /\ [Next]_vars => [Admission!Next]_place
  <2>. SUFFICES ASSUME SlotInvariant, [Next]_vars  PROVE [Admission!Next]_place
    OBVIOUS
  <2>0. /\ pc \in [Request -> Phase] /\ inFlight = Admission!Cardinality(Admission!Admitted)
    BY AdmittedAreHolding DEF SlotInvariant, TypeOK, SlotsExact
  <2>1. ASSUME pc' = pc  PROVE place' = place
    BY <2>1 DEF placeOf
  <2>2. ASSUME NEW r \in Request, NEW to, goto(r, to), placeOf(r)' = placeOf(r)
        PROVE  place' = place
    <3>1. place' = [place EXCEPT ![r] = placeOf(r)']
      BY <2>0, <2>2, PlaceMoves
    <3>. QED  BY <2>2, <3>1
  <2>3. ASSUME NEW r \in Request, NEW to, goto(r, to),
               placeOf(r) = "admitted", placeOf(r)' = "released"
        PROVE  Admission!Next
    <3>1. place' = [place EXCEPT ![r] = "released"] /\ place[r] = "admitted"
      BY <2>0, <2>3, PlaceMoves
    <3>2. Admission!Release(r)
      BY <3>1 DEF Admission!Release
    <3>. QED  BY <3>2 DEF Admission!Next
  <2>4. ASSUME NEW r \in Request, Enter(r)  PROVE [Admission!Next]_place
    <3>1. pc[r] = "idle" /\ goto(r, IF state = "stopped" THEN "turned_away" ELSE "entered")
      BY <2>4 DEF Enter
    <3>2. CASE state = "stopped"
      <4>1. placeOf(r) = "waiting" /\ placeOf(r)' = "withdrawn"
        BY <2>0, <3>1, <3>2 DEF goto, placeOf
      <4>2. place' = [place EXCEPT ![r] = "withdrawn"] /\ place[r] = "waiting"
        BY <2>0, <3>1, <4>1, PlaceMoves
      <4>3. Admission!Withdraw(r)
        BY <4>2 DEF Admission!Withdraw
      <4>. QED  BY <4>3 DEF Admission!Next
    <3>3. CASE state # "stopped"
      <4>1. placeOf(r)' = placeOf(r)
        BY <2>0, <3>1, <3>3 DEF goto, placeOf
      <4>. QED  BY <2>2, <3>1, <4>1
    <3>. QED  BY <3>2, <3>3
  <2>5. ASSUME NEW r \in Request, Acquire(r)  PROVE Admission!Next
    <3>1. CASE inFlight >= MaxConcurrent
      <4>1. goto(r, "rejected") /\ pc[r] = "entered"
        BY <2>5, <3>1 DEF Acquire
      <4>2. placeOf(r) = "waiting" /\ placeOf(r)' = "refused"
        BY <2>0, <4>1 DEF goto, placeOf
      <4>3. place' = [place EXCEPT ![r] = "refused"] /\ place[r] = "waiting"
        BY <2>0, <4>1, <4>2, PlaceMoves
      <4>4. Admission!Refuse(r)
        BY <2>0, <3>1, <4>3 DEF Admission!Refuse
      <4>. QED  BY <4>4 DEF Admission!Next
    <3>2. CASE ~ (inFlight >= MaxConcurrent)
      <4>1. goto(r, "admitted") /\ pc[r] = "entered"
        BY <2>5, <3>2 DEF Acquire
      <4>2. placeOf(r) = "waiting" /\ placeOf(r)' = "admitted"
        BY <2>0, <4>1 DEF goto, placeOf
      <4>3. place' = [place EXCEPT ![r] = "admitted"] /\ place[r] = "waiting"
        BY <2>0, <4>1, <4>2, PlaceMoves
      <4>4. inFlight < MaxConcurrent
        BY <3>2, MaxConcurrentAssumption DEF SlotInvariant, TypeOK
      <4>5. Admission!Admit(r)
        BY <2>0, <4>3, <4>4 DEF Admission!Admit
      <4>. QED  BY <4>5 DEF Admission!Next
    <3>. QED  BY <3>1, <3>2
  <2>6. ASSUME NEW r \in Request, Succeed(r) \/ Leave(r) \/ Disconnect(r)
        PROVE  Admission!Next
    <3>1. PICK to \in {"succeeded", "failed", "aborted"} : goto(r, to)
      BY <2>6 DEF Succeed, Leave, Disconnect
    <3>2. pc[r] \in {"admitted", "leaving"}
      BY <2>6 DEF Succeed, Leave, Disconnect
    <3>3. placeOf(r) = "admitted" /\ placeOf(r)' = "released"
      BY <2>0, <3>1, <3>2 DEF goto, placeOf
    <3>. QED  BY <2>3, <3>1, <3>3
  <2>7. ASSUME NEW r \in Request, Fail(r)  PROVE place' = place
    <3>1. goto(r, "failing") /\ pc[r] = "admitted"
      BY <2>7 DEF Fail
    <3>2. placeOf(r)' = placeOf(r)
      BY <2>0, <3>1 DEF goto, placeOf
    <3>. QED  BY <2>2, <3>1, <3>2
  <2>8. ASSUME NEW r \in Request, Drain(r)  PROVE place' = place
    <3>1. goto(r, "leaving") /\ pc[r] = "failing"
      BY <2>8 DEF Drain
    <3>2. placeOf(r)' = placeOf(r)
      BY <2>0, <3>1 DEF goto, placeOf
    <3>. QED  BY <2>2, <3>1, <3>2
  <2>9. ASSUME NEW p \in Probe, ProbeBegin(p) \/ ProbeEnd(p)  PROVE place' = place
    BY <2>1, <2>9 DEF ProbeBegin, ProbeEnd
  <2>10. CASE Stop \/ UNCHANGED vars
    BY <2>1, <2>10 DEF Stop, vars
  <2>. QED
    BY <2>4, <2>5, <2>6, <2>7, <2>8, <2>9, <2>10 DEF Next, Proceed
<1>. QED  BY <1>1, <1>2, SlotInvariantHolds, PTL DEF Safety, Admission!Safety
=============================================================================
