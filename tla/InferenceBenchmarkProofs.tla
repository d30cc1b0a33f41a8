---------------------- MODULE InferenceBenchmarkProofs ----------------------
(***************************************************************************)
(* Theorems about InferenceBenchmark for every finite set of requests,     *)
(* every sequence of cases, every limit and both programs.                 *)
(***************************************************************************)
EXTENDS InferenceBenchmark, FiniteSetTheorems, TLAPS

RequestStep == {"queued", "sent", "open", "streaming", "ended", "done"}

\* What a request's move from a step to another does to the number of requests
\* at a set S of steps.
LEMMA GotoCounts ==
  ASSUME NEW S, NEW q \in Request, NEW to,
         pc \in [Request -> RequestStep], goto(q, to)
  PROVE  /\ Cardinality(AtStep(S)) \in Nat /\ Cardinality(AtStep(S))' \in Nat
         /\ (pc[q] \in S <=> to \in S) => Cardinality(AtStep(S))' = Cardinality(AtStep(S))
         /\ to \notin S => Cardinality(AtStep(S))' <= Cardinality(AtStep(S))
         /\ Cardinality(AtStep(S))' <= Cardinality(AtStep(S)) + 1
<1>0. IsFiniteSet(AtStep(S)) /\ Cardinality(AtStep(S)) \in Nat
  <2>1. AtStep(S) \subseteq Request
    BY DEF AtStep
  <2>. QED  BY <2>1, RequestAssumption, FS_Subset, FS_CardinalityType
<1>1. \A r \in Request : pc'[r] = IF r = q THEN to ELSE pc[r]
  BY DEF goto
<1>2. ASSUME pc[q] \in S <=> to \in S  PROVE AtStep(S)' = AtStep(S)
  BY <1>1, <1>2 DEF AtStep
<1>3. ASSUME pc[q] \notin S, to \in S  PROVE AtStep(S)' = AtStep(S) \cup {q}
  BY <1>1, <1>3 DEF AtStep
<1>4. ASSUME pc[q] \in S, to \notin S  PROVE AtStep(S)' = AtStep(S) \ {q}
  BY <1>1, <1>4 DEF AtStep
<1>5. CASE pc[q] \in S <=> to \in S
  BY <1>0, <1>2, <1>5
<1>6. CASE pc[q] \notin S /\ to \in S
  <2>1. q \notin AtStep(S)
    BY <1>6 DEF AtStep
  <2>2. Cardinality(AtStep(S) \cup {q}) = Cardinality(AtStep(S)) + 1
    BY <1>0, <2>1, FS_AddElement
  <2>3. AtStep(S)' = AtStep(S) \cup {q}
    BY <1>3, <1>6
  <2>4. Cardinality(AtStep(S))' = Cardinality(AtStep(S)) + 1
    BY <2>2, <2>3
  <2>. QED  BY <1>0, <1>6, <2>4
<1>7. CASE pc[q] \in S /\ to \notin S
  <2>1. q \in AtStep(S)
    BY <1>7 DEF AtStep
  <2>2. Cardinality(AtStep(S)) # 0
    BY <1>0, <2>1, FS_EmptySet
  <2>3. Cardinality(AtStep(S) \ {q}) = Cardinality(AtStep(S)) - 1
    BY <1>0, <2>1, FS_RemoveElement
  <2>. QED  BY <1>0, <1>4, <1>7, <2>2, <2>3
<1>. QED  BY <1>5, <1>6, <1>7

-----------------------------------------------------------------------------
(* Types *)

\* The keys of a sample, and how many samples have one.
LEMMA SamplerFacts ==
  /\ \A x \in read_prometheus_metrics \cup read_nvidia_smi \cup {{}} : x \subseteq Key
  /\ SamplerTypeOK => Len(samples) \in Nat /\ \A k : summary(k) \in Nat
<1>1. ASSUME SamplerTypeOK, NEW k  PROVE summary(k) \in Nat
  <2>1. Len(samples) \in Nat /\ DOMAIN samples = 1..Len(samples)
    BY <1>1 DEF SamplerTypeOK
  <2>2. IsFiniteSet(1..Len(samples))
    BY <2>1, FS_Interval
  <2>3. {i \in DOMAIN samples : k \in samples[i]} \subseteq 1..Len(samples)
    BY <2>1
  <2>. QED  BY <2>2, <2>3, FS_Subset, FS_CardinalityType DEF summary
<1>. QED
  BY <1>1 DEF read_prometheus_metrics, read_nvidia_smi, Key, ApiKeys, SmiKeys, SamplerTypeOK

LEMMA ColumnsType == Columns \in Seq(Column)
<1>1. <<"gpu_utilization_percent", "kv_cache_utilization", "queue_depth",
        "telemetry_samples">> \in Seq(Column)
  BY DEF Column, Key, ApiKeys
<1>2. <<"gpu_utilization_percent", "kv_cache_utilization", "queue_depth",
        "gpu_memory_used_mb", "gpu_power_watts", "telemetry_samples">> \in Seq(Column)
  BY DEF Column, Key, ApiKeys, SmiKeys
<1>. QED  BY <1>1, <1>2 DEF Columns

LEMMA InitTypes == Init => TypeOK
<1>. SUFFICES ASSUME Init  PROVE TypeOK
  OBVIOUS
<1>1. SamplerTypeOK
  <2>1. <<>> \in Seq(SUBSET Key)
    OBVIOUS
  <2>. QED  BY <2>1 DEF Init, SamplerInit, SamplerTypeOK
<1>2. case \in 0..Len(Concurrency) /\ toCalibrate \in 0..Calibrations
  BY ConcurrencyAssumption, CalibrationsAssumption DEF Init
<1>3. toSum \in Seq(Column)
  BY DEF Init
<1>. QED  BY <1>1, <1>2, <1>3 DEF Init, TypeOK

LEMMA ProgressTypes ==
  ASSUME TypeOK, NEW q \in Request, Progress(q)
  PROVE  TypeOK'
<1>. USE DEF TypeOK, SamplerTypeOK, requestFrame, samplerVars, summing, histories, goto, note
<1>1. CASE Send(q)
  BY <1>1 DEF Send
<1>2. CASE Admit(q)
  BY <1>2 DEF Admit
<1>3. CASE Refuse(q)
  BY <1>3 DEF Refuse
<1>4. CASE Reject(q)
  BY <1>4 DEF Reject
<1>5. CASE Token(q)
  BY <1>5 DEF Token
<1>6. CASE End(q)
  BY <1>6 DEF End
<1>7. CASE Collect(q)
  BY <1>7 DEF Collect
<1>8. CASE BreakOff(q)
  BY <1>8 DEF BreakOff
<1>. QED  BY <1>1, <1>2, <1>3, <1>4, <1>5, <1>6, <1>7, <1>8 DEF Progress

LEMMA MainTypes ==
  ASSUME TypeOK, Main
  PROVE  TypeOK'
<1>. USE DEF TypeOK, SamplerTypeOK, samplerVars, summing, histories, mainFrame
<1>1. CASE Calibrate
  <2>1. toCalibrate' \in 0..Calibrations
    <3>1. toCalibrate \in Int /\ 0 < toCalibrate /\ toCalibrate <= Calibrations
          /\ toCalibrate' = toCalibrate - 1
      BY <1>1, CalibrationsAssumption DEF Calibrate
    <3>. QED  BY <3>1, CalibrationsAssumption
  <2>2. orphans' \in Nat /\ brokeOff' \in BOOLEAN
    <3>1. CASE UNCHANGED <<orphans, brokeOff>>
      BY <3>1
    <3>2. CASE orphans' = orphans + 1 /\ brokeOff' = TRUE
      BY <3>2
    <3>. QED  BY <1>1, <3>1, <3>2 DEF Calibrate
  <2>. QED  BY <1>1, <2>1, <2>2 DEF Calibrate
<1>2. CASE NextCase
  <2>1. CASE case < Len(Concurrency) /\ BeginCase
    <3>1. case' \in 0..Len(Concurrency)
      BY <2>1, ConcurrencyAssumption DEF BeginCase
    <3>2. samples' \in Seq(SUBSET Key) /\ toSum' \in Seq(Column)
      BY <2>1 DEF BeginCase, start
    <3>3. report' \in [Column -> Nat]
      BY <2>1 DEF BeginCase
    <3>. QED  BY <2>1, <3>1, <3>2, <3>3 DEF BeginCase, start
  <2>2. CASE stage' = "done" /\ UNCHANGED <<samplerVars, program, case, toCalibrate, pc, result,
                                             orphans, summing, histories>>
    BY <2>2
  <2>. QED  BY <1>2, <2>1, <2>2 DEF NextCase
<1>3. CASE SetStop
  BY <1>3 DEF SetStop
<1>4. CASE Join
  BY <1>4, ColumnsType DEF Join
<1>5. CASE Sum
  <2>1. Head(toSum) \in Column /\ Tail(toSum) \in Seq(Column)
    BY <1>5 DEF Sum
  <2>2. \A k : summary(k) \in Nat /\ Len(samples) \in Nat
    BY SamplerFacts
  <2>3. report' \in [Column -> Nat]
    BY <1>5, <2>1, <2>2 DEF Sum
  <2>. QED  BY <1>5, <2>1, <2>3 DEF Sum
<1>. QED  BY <1>1, <1>2, <1>3, <1>4, <1>5 DEF Main

LEMMA SamplingTypes ==
  ASSUME TypeOK, Sampling \/ OrphanEnds \/ UNCHANGED vars
  PROVE  TypeOK'
<1>. USE DEF TypeOK, SamplerTypeOK, samplerVars, summing, histories, vars
<1>1. CASE Sampling /\ Wake
  BY <1>1 DEF Sampling, Wake
<1>2. CASE Sampling /\ Poll(program = "gpu_fixed")
  <2>1. samples' \in Seq(SUBSET Key)
    <3>1. CASE UNCHANGED samples
      BY <3>1
    <3>2. CASE ~UNCHANGED samples
      <4>1. PICK api \in read_prometheus_metrics,
                 host \in IF program = "gpu_fixed" THEN read_nvidia_smi ELSE {{}} :
                   samples' = Append(samples, api \cup host)
        BY <1>2, <3>2 DEF Poll
      <4>2. api \cup host \in SUBSET Key
        BY <4>1, SamplerFacts
      <4>. QED  BY <4>1, <4>2
    <3>. QED  BY <3>1, <3>2
  <2>2. sampler' \in {"waiting", "ended"} /\ slow' \in BOOLEAN /\ UNCHANGED stopping
    BY <1>2 DEF Poll
  <2>. QED  BY <1>2, <2>1, <2>2 DEF Sampling
<1>3. CASE OrphanEnds
  BY <1>3 DEF OrphanEnds
<1>4. CASE UNCHANGED vars
  BY <1>4
<1>. QED  BY <1>1, <1>2, <1>3, <1>4 DEF Sampling

\* Every variable of the benchmark keeps its type; no slot is given back twice.
THEOREM BenchmarkTypeCorrect == Safety => []TypeOK
<1>1. TypeOK /\ [Next]_vars => TypeOK'
  BY ProgressTypes, MainTypes, SamplingTypes DEF Next
<1>. QED  BY <1>1, InitTypes, PTL DEF Safety

-----------------------------------------------------------------------------
(* Refusals *)

Busy == AtStep({"sent", "open", "streaming", "ended"})

\* No more requests are under way than there are workers, and only clients
\* that broke off leave slots behind.
RefusalInvariant ==
    /\ case = 0 => AtStep({"done"}) = Request
    /\ case > 0 => Cardinality(Busy) <= Concurrency[case]
    /\ orphans > 0 => brokeOff
    /\ RefusalsAreExplained

\* A full service without orphans is full of requests of this case, and the
\* one that is refused is not among them.
LEMMA FullMeansCrowded ==
  ASSUME NEW q \in Request, pc[q] = "sent", orphans = 0, Taken >= Limit
  PROVE  Cardinality(Busy) > Limit
<1>. DEFINE O == AtStep({"open", "streaming"})
<1>1. O \subseteq Request /\ Busy \subseteq Request
  BY DEF AtStep, Busy
<1>2. /\ IsFiniteSet(O) /\ Cardinality(O) \in Nat
      /\ IsFiniteSet(Busy) /\ Cardinality(Busy) \in Nat
  BY <1>1, RequestAssumption, FS_Subset, FS_CardinalityType
<1>3. q \notin O /\ O \cup {q} \subseteq Busy
  BY DEF AtStep, Busy
<1>4. Cardinality(O \cup {q}) = Cardinality(O) + 1
  BY <1>2, <1>3, FS_AddElement
<1>5. Cardinality(O \cup {q}) <= Cardinality(Busy)
  BY <1>2, <1>3, FS_Subset
<1>6. Cardinality(O) >= Limit
  BY <1>2 DEF Taken
<1>. QED  BY <1>2, <1>4, <1>5, <1>6, LimitAssumption

\* Once a case has begun its workers bound the requests that are under way.
LEMMA ProgressRefusals ==
  ASSUME TypeOK, RefusalInvariant, NEW q \in Request, Progress(q)
  PROVE  RefusalInvariant'
<1>0. /\ pc \in [Request -> RequestStep] /\ orphans \in Nat /\ refusals \in Nat
      /\ case \in Nat /\ case' = case
  <2>1. case \in Nat
    BY ConcurrencyAssumption DEF TypeOK
  <2>. QED
    BY <2>1 DEF TypeOK, RequestStep, Progress, Send, Admit, Refuse, Reject, Token, End, Collect, BreakOff,
           requestFrame
<1>1. case > 0
  <2>1. pc[q] # "done"
    BY DEF Progress, Send, Admit, Refuse, Reject, Token, End, Collect, BreakOff
  <2>2. AtStep({"done"}) # Request
    BY <2>1 DEF AtStep
  <2>. QED  BY <1>0, <2>2 DEF RefusalInvariant
<1>2. Concurrency[case] \in Nat
  BY <1>0, <1>1, ConcurrencyAssumption DEF TypeOK
<1>3. ASSUME Cardinality(Busy)' <= Concurrency[case], orphans' > 0 => brokeOff',
             brokeOff => brokeOff', UNCHANGED refusals
      PROVE  RefusalInvariant'
  BY <1>0, <1>1, <1>3 DEF RefusalInvariant, RefusalsAreExplained
<1>4. Cardinality(Busy) \in Nat /\ Cardinality(Busy) <= Concurrency[case]
  <2>1. Busy \subseteq Request
    BY DEF Busy, AtStep
  <2>2. Cardinality(Busy) \in Nat
    BY <2>1, RequestAssumption, FS_Subset, FS_CardinalityType
  <2>. QED  BY <1>1, <2>2 DEF RefusalInvariant
<1>5. CASE Send(q)
  <2>1. goto(q, "sent") /\ UNCHANGED histories /\ UNCHANGED orphans
        /\ Cardinality(Busy) < Concurrency[case]
    BY <1>5 DEF Send, Busy
  <2>2. Cardinality(Busy)' \in Nat /\ Cardinality(Busy)' <= Cardinality(Busy) + 1
    BY <1>0, <2>1, GotoCounts DEF Busy
  <2>3. Cardinality(Busy)' <= Concurrency[case]
    BY <1>2, <1>4, <2>1, <2>2
  <2>. QED  BY <1>3, <2>1, <2>3 DEF histories, RefusalInvariant
<1>6. ASSUME NEW to, goto(q, to),
             pc[q] \in {"sent", "open", "streaming", "ended"},
             to \in {"open", "streaming", "ended", "done"}
      PROVE  Cardinality(Busy)' <= Concurrency[case]
  <2>1. Cardinality(Busy)' \in Nat /\ Cardinality(Busy)' <= Cardinality(Busy)
    <3>1. CASE to = "done"
      BY <1>0, <1>6, <3>1, GotoCounts DEF Busy
    <3>2. CASE to # "done"
      BY <1>0, <1>4, <1>6, <3>2, GotoCounts DEF Busy
    <3>. QED  BY <3>1, <3>2
  <2>. QED  BY <1>2, <1>4, <2>1
<1>7. CASE Admit(q) \/ Reject(q) \/ Token(q) \/ End(q) \/ Collect(q)
  <2>1. Cardinality(Busy)' <= Concurrency[case]
    BY <1>6, <1>7 DEF Admit, Reject, Token, End, Collect
  <2>2. UNCHANGED <<orphans, brokeOff, refusals>>
    BY <1>7 DEF Admit, Reject, Token, End, Collect, histories
  <2>. QED  BY <1>3, <2>1, <2>2 DEF RefusalInvariant
<1>8. CASE Refuse(q)
  <2>1. Cardinality(Busy)' <= Concurrency[case] /\ UNCHANGED <<orphans, brokeOff>>
    BY <1>6, <1>8 DEF Refuse
  <2>2. brokeOff \/ Concurrency[case] > Limit
    <3>1. SUFFICES ASSUME ~brokeOff  PROVE Concurrency[case] > Limit
      OBVIOUS
    <3>2. orphans = 0
      BY <1>0, <3>1 DEF RefusalInvariant
    <3>3. Cardinality(Busy) > Limit
      BY <1>8, <3>2, FullMeansCrowded DEF Refuse
    <3>. QED  BY <1>2, <1>4, <3>3, LimitAssumption
  <2>. QED  BY <1>0, <1>1, <2>1, <2>2 DEF RefusalInvariant, RefusalsAreExplained
<1>9. CASE BreakOff(q)
  <2>1. Cardinality(Busy)' <= Concurrency[case]
    BY <1>6, <1>9 DEF BreakOff
  <2>2. brokeOff' = TRUE /\ UNCHANGED refusals
    BY <1>9 DEF BreakOff
  <2>. QED  BY <1>3, <2>1, <2>2
<1>. QED  BY <1>5, <1>7, <1>8, <1>9 DEF Progress

LEMMA RefusalsStay == TypeOK /\ RefusalInvariant /\ [Next]_vars => RefusalInvariant'
<1>. SUFFICES ASSUME TypeOK, RefusalInvariant, [Next]_vars  PROVE RefusalInvariant'
  OBVIOUS
<1>1. ASSUME UNCHANGED <<case, pc, refusals>>, brokeOff => brokeOff',
             orphans' > 0 => brokeOff'
      PROVE  RefusalInvariant'
  BY <1>1 DEF RefusalInvariant, RefusalsAreExplained, Busy, AtStep
<1>2. CASE Calibrate
  <2>1. UNCHANGED <<case, pc, refusals>>
    BY <1>2 DEF Calibrate
  <2>2. CASE UNCHANGED <<orphans, brokeOff>>
    BY <1>1, <2>1, <2>2 DEF RefusalInvariant
  <2>3. CASE brokeOff' = TRUE
    BY <1>1, <2>1, <2>3
  <2>. QED  BY <1>2, <2>2, <2>3 DEF Calibrate
<1>3. CASE BeginCase /\ case < Len(Concurrency)
  <2>1. case \in Nat /\ case' > 0 /\ Concurrency[case'] \in Nat
    BY <1>3, ConcurrencyAssumption DEF BeginCase, TypeOK
  <2>2. Busy' = {}
    BY <1>3 DEF BeginCase, Busy, AtStep
  <2>3. Cardinality(Busy)' <= Concurrency[case']
    BY <2>1, <2>2, FS_EmptySet
  <2>4. UNCHANGED <<orphans, brokeOff>> /\ refusals' = 0
    BY <1>3 DEF BeginCase
  <2>. QED  BY <2>1, <2>3, <2>4 DEF RefusalInvariant, RefusalsAreExplained
<1>4. CASE OrphanEnds
  <2>1. UNCHANGED <<case, pc, refusals, brokeOff>> /\ orphans > 0
    BY <1>4 DEF OrphanEnds, histories
  <2>. QED  BY <1>1, <2>1 DEF RefusalInvariant
<1>5. ASSUME UNCHANGED <<case, pc, orphans, histories>>  PROVE RefusalInvariant'
  BY <1>1, <1>5 DEF histories, RefusalInvariant
<1>6. CASE NextCase
  BY <1>3, <1>5, <1>6 DEF NextCase
<1>7. CASE SetStop \/ Join \/ Sum
  BY <1>5, <1>7 DEF SetStop, Join, Sum, mainFrame
<1>8. CASE Sampling \/ UNCHANGED vars
  BY <1>5, <1>8 DEF Sampling, vars
<1>. QED  BY <1>2, <1>4, <1>6, <1>7, <1>8, ProgressRefusals DEF Next, Main

\* With no more workers than the service admits, a request is refused only
\* after some client broke off, for any number of requests and cases.
THEOREM RefusalsAreAlwaysExplained == Safety => []RefusalsAreExplained
<1>1. Init => RefusalInvariant
  BY DEF Init, RefusalInvariant, RefusalsAreExplained, AtStep
<1>2. RefusalInvariant => RefusalsAreExplained
  BY DEF RefusalInvariant
<1>. QED  BY <1>1, <1>2, RefusalsStay, BenchmarkTypeCorrect, PTL DEF Safety

-----------------------------------------------------------------------------
(* Missing TTFTs *)

Answered == {q \in Request : result[q] = "answered"}
MissingInvariant == Cardinality(Answered) <= refusals + silent

\* A request that is noted adds at most itself to the answered ones.
LEMMA NoteCounts ==
  ASSUME NEW q \in Request, NEW sample, TypeOK, note(q, sample)
  PROVE  /\ Cardinality(Answered) \in Nat /\ Cardinality(Answered)' \in Nat
         /\ Cardinality(Answered)' <= Cardinality(Answered) + 1
         /\ sample # "answered" \/ sample = result[q] =>
              Cardinality(Answered)' <= Cardinality(Answered)
<1>0. IsFiniteSet(Answered) /\ Cardinality(Answered) \in Nat
  <2>1. Answered \subseteq Request
    BY DEF Answered
  <2>. QED  BY <2>1, RequestAssumption, FS_Subset, FS_CardinalityType
<1>1. \A r \in Request : result'[r] = IF r = q THEN sample ELSE result[r]
  BY DEF note, TypeOK
<1>2. Answered' \subseteq Answered \cup {q}
  BY <1>1 DEF Answered
<1>3. IsFiniteSet(Answered \cup {q}) /\ Cardinality(Answered \cup {q}) \in Nat
      /\ Cardinality(Answered \cup {q}) <= Cardinality(Answered) + 1
  <2>1. IsFiniteSet(Answered \cup {q})
    BY <1>0, FS_AddElement
  <2>2. Cardinality(Answered \cup {q}) = IF q \in Answered THEN Cardinality(Answered)
                                         ELSE Cardinality(Answered) + 1
    BY <1>0, FS_AddElement
  <2>. QED  BY <1>0, <2>1, <2>2
<1>4. IsFiniteSet(Answered') /\ Cardinality(Answered') <= Cardinality(Answered \cup {q})
      /\ Cardinality(Answered') \in Nat
  BY <1>2, <1>3, FS_Subset, FS_CardinalityType
<1>5. Cardinality(Answered)' = Cardinality(Answered')
  OBVIOUS
<1>6. ASSUME sample # "answered" \/ sample = result[q]
      PROVE  Cardinality(Answered)' <= Cardinality(Answered)
  <2>1. Answered' \subseteq Answered
    BY <1>1, <1>6 DEF Answered
  <2>. QED  BY <1>0, <2>1, FS_Subset
<1>. QED  BY <1>0, <1>3, <1>4, <1>5, <1>6

LEMMA MissingStays == TypeOK /\ MissingInvariant /\ [Next]_vars => MissingInvariant'
<1>. SUFFICES ASSUME TypeOK, MissingInvariant, [Next]_vars  PROVE MissingInvariant'
  OBVIOUS
<1>0. refusals \in Nat /\ silent \in Nat /\ Cardinality(Answered) <= refusals + silent
  BY DEF TypeOK, MissingInvariant
<1>1. ASSUME UNCHANGED <<result, refusals, silent>>  PROVE MissingInvariant'
  BY <1>1 DEF MissingInvariant, Answered
<1>2. ASSUME NEW q \in Request, Send(q) \/ Admit(q) \/ Collect(q)  PROVE MissingInvariant'
  BY <1>1, <1>2 DEF Send, Admit, Collect, histories
<1>3. ASSUME NEW q \in Request, Refuse(q)  PROVE MissingInvariant'
  <2>1. note(q, "answered") /\ refusals' = refusals + 1 /\ silent' = silent
    BY <1>3 DEF Refuse
  <2>2. Cardinality(Answered) \in Nat /\ Cardinality(Answered)' \in Nat
        /\ Cardinality(Answered)' <= Cardinality(Answered) + 1
    BY <2>1, NoteCounts
  <2>. QED  BY <1>0, <2>1, <2>2 DEF MissingInvariant
<1>4. ASSUME NEW q \in Request, Reject(q) \/ Token(q) \/ BreakOff(q)  PROVE MissingInvariant'
  <2>1. UNCHANGED <<refusals, silent>>
    BY <1>4 DEF Reject, Token, BreakOff, histories
  <2>2. PICK sample \in {"failed", "timed"} : note(q, sample)
    BY <1>4 DEF Reject, Token, BreakOff
  <2>3. Cardinality(Answered) \in Nat /\ Cardinality(Answered)' \in Nat
        /\ Cardinality(Answered)' <= Cardinality(Answered)
    BY <2>2, NoteCounts
  <2>. QED  BY <1>0, <2>1, <2>3 DEF MissingInvariant
<1>5. ASSUME NEW q \in Request, End(q)  PROVE MissingInvariant'
  <2>1. CASE pc[q] = "open"
    <3>1. note(q, "answered") /\ refusals' = refusals /\ silent' = silent + 1
      BY <1>5, <2>1 DEF End
    <3>2. Cardinality(Answered) \in Nat /\ Cardinality(Answered)' \in Nat
          /\ Cardinality(Answered)' <= Cardinality(Answered) + 1
      BY <3>1, NoteCounts
    <3>. QED  BY <1>0, <3>1, <3>2 DEF MissingInvariant
  <2>2. CASE pc[q] # "open"
    <3>1. note(q, result[q]) /\ refusals' = refusals /\ silent' = silent
      BY <1>5, <2>2 DEF End
    <3>2. Cardinality(Answered) \in Nat /\ Cardinality(Answered)' \in Nat
          /\ Cardinality(Answered)' <= Cardinality(Answered)
      BY <3>1, NoteCounts
    <3>. QED  BY <1>0, <3>1, <3>2 DEF MissingInvariant
  <2>. QED  BY <2>1, <2>2
<1>6. CASE NextCase
  <2>1. CASE BeginCase
    <3>1. Answered' = {} /\ refusals' = 0 /\ silent' = 0
      BY <2>1 DEF BeginCase, Answered
    <3>2. Cardinality(Answered)' = 0
      BY <3>1, FS_EmptySet
    <3>. QED  BY <3>1, <3>2 DEF MissingInvariant
  <2>2. CASE UNCHANGED <<result, histories>>
    BY <1>1, <2>2 DEF histories
  <2>. QED  BY <1>6, <2>1, <2>2 DEF NextCase
<1>7. CASE Calibrate \/ SetStop \/ Join \/ Sum
  BY <1>1, <1>7 DEF Calibrate, SetStop, Join, Sum, mainFrame, histories
<1>8. CASE Sampling \/ OrphanEnds \/ UNCHANGED vars
  BY <1>1, <1>8 DEF Sampling, OrphanEnds, vars, histories
<1>. QED  BY <1>2, <1>3, <1>4, <1>5, <1>6, <1>7, <1>8 DEF Next, Main, Progress

\* Every successful request without a TTFT was refused or ended before its
\* first token.
THEOREM MissingTtftIsAlwaysExplained == Safety => []MissingTtftIsExplained
<1>1. Init => MissingInvariant
  <2>1. Init => Answered = {} /\ refusals = 0 /\ silent = 0
    BY DEF Init, Answered
  <2>. QED  BY <2>1, FS_EmptySet DEF MissingInvariant
<1>2. MissingInvariant /\ TypeOK => MissingTtftIsExplained
  <2>. SUFFICES ASSUME MissingInvariant, TypeOK  PROVE MissingTtftIsExplained
    OBVIOUS
  <2>. DEFINE D == {q \in Request : pc[q] = "done" /\ result[q] = "answered"}
  <2>1. D \subseteq Answered /\ Answered \subseteq Request
    BY DEF Answered
  <2>2. IsFiniteSet(Answered) /\ Cardinality(Answered) \in Nat
    BY <2>1, RequestAssumption, FS_Subset, FS_CardinalityType
  <2>3. Cardinality(D) <= Cardinality(Answered) /\ Cardinality(D) \in Nat
    BY <2>1, <2>2, FS_Subset, FS_CardinalityType
  <2>4. Cardinality(D) <= refusals + silent
    BY <2>2, <2>3 DEF MissingInvariant, TypeOK
  <2>. QED  BY <2>4 DEF MissingTtftIsExplained
<1>. QED  BY <1>1, <1>2, MissingStays, BenchmarkTypeCorrect, PTL DEF Safety

-----------------------------------------------------------------------------
(* The columns of a case *)

\* What a summary says of key k, those still to be made, and the columns that
\* the first program does not have.
Summary(k) == IF k = "telemetry_samples" THEN Len(samples) ELSE summary(k)
Pending(k) == \E i \in DOMAIN toSum : toSum[i] = k
Absent(k) == program = "base" /\ k \in {"gpu_memory_used_mb", "gpu_power_watts"}

\* A sample has all the keys of a source or none of them.
SamplesAreWhole ==
    \A i \in DOMAIN samples :
        /\ samples[i] \in {ApiKeys, SmiKeys, ApiKeys \cup SmiKeys}
        /\ program = "base" => samples[i] = ApiKeys

\* A summary is of the samples that there are, or of all but the last, which a
\* slow poll has brought since.
Current(k) ==
    \/ report[k] = Summary(k)
    \/ slow /\ sampler # "polling" /\ report[k] + 1 = Summary(k)

\* While the case is summed up the sampler has ended, unless its last poll is
\* slow; and after that poll it does not begin another.
ColumnsInvariant ==
    /\ SamplesAreWhole
    /\ stage \in {"calibrating", "running", "stopping"} => report = [k \in Column |-> 0]
    /\ stage \in {"stopping", "summing"} => stopping
    /\ stage = "summing" =>
         /\ slow \/ sampler = "ended"
         /\ \A k \in Column : Pending(k) \/ (Absent(k) /\ report[k] = 0) \/ Current(k)

LEMMA EveryColumn ==
  ASSUME NEW k \in Column
  PROVE  (\E i \in DOMAIN Columns : Columns[i] = k) \/ Absent(k)
<1>0. k \in {"gpu_utilization_percent", "kv_cache_utilization", "queue_depth",
             "gpu_memory_used_mb", "gpu_power_watts", "telemetry_samples"}
  BY DEF Column, Key, ApiKeys, SmiKeys
<1>1. CASE program = "base"
  <2>1. Columns = <<"gpu_utilization_percent", "kv_cache_utilization", "queue_depth",
                    "telemetry_samples">>
    BY <1>1 DEF Columns
  <2>2. /\ DOMAIN Columns = 1..4
        /\ Columns[1] = "gpu_utilization_percent" /\ Columns[2] = "kv_cache_utilization"
        /\ Columns[3] = "queue_depth" /\ Columns[4] = "telemetry_samples"
    BY <2>1
  <2>. QED  BY <1>0, <1>1, <2>2 DEF Absent
<1>2. CASE program # "base"
  <2>1. Columns = <<"gpu_utilization_percent", "kv_cache_utilization", "queue_depth",
                    "gpu_memory_used_mb", "gpu_power_watts", "telemetry_samples">>
    BY <1>2 DEF Columns
  <2>2. /\ DOMAIN Columns = 1..6
        /\ Columns[1] = "gpu_utilization_percent" /\ Columns[2] = "kv_cache_utilization"
        /\ Columns[3] = "queue_depth" /\ Columns[4] = "gpu_memory_used_mb"
        /\ Columns[5] = "gpu_power_watts" /\ Columns[6] = "telemetry_samples"
    BY <2>1
  <2>. QED  BY <1>0, <2>2
<1>. QED  BY <1>1, <1>2

LEMMA SumColumns == TypeOK /\ ColumnsInvariant /\ Sum => ColumnsInvariant'
<1>. SUFFICES ASSUME TypeOK, ColumnsInvariant, Sum  PROVE ColumnsInvariant'
  OBVIOUS
<1>1. /\ stage = "summing" /\ stage' = "summing" /\ toSum' = Tail(toSum) /\ toSum # <<>>
      /\ UNCHANGED <<samples, sampler, stopping, slow, program>>
      /\ report' = [report EXCEPT ![Head(toSum)] = Summary(Head(toSum))]
  BY DEF Sum, mainFrame, samplerVars, Summary
<1>2. toSum \in Seq(Column) /\ report \in [Column -> Nat]
  BY DEF TypeOK
<1>3. ASSUME NEW k \in Column
      PROVE  Pending(k)' \/ (Absent(k)' /\ report'[k] = 0) \/ Current(k)'
  <2>1. Summary(k)' = Summary(k) /\ Absent(k)' = Absent(k)
    BY <1>1 DEF Summary, summary, Absent
  <2>2. CASE k = Head(toSum)
    BY <1>1, <1>2, <2>1, <2>2 DEF Current
  <2>3. CASE k # Head(toSum) /\ Pending(k)
    <3>1. PICK i \in DOMAIN toSum : toSum[i] = k
      BY <2>3 DEF Pending
    <3>2. i # 1 /\ i \in 1..Len(toSum) /\ Len(toSum) \in Nat
      BY <1>1, <1>2, <2>3, <3>1
    <3>3. i - 1 \in DOMAIN toSum' /\ toSum'[i - 1] = k
      BY <1>1, <1>2, <3>1, <3>2
    <3>. QED  BY <3>3 DEF Pending
  <2>4. CASE k # Head(toSum) /\ ~Pending(k)
    <3>1. report'[k] = report[k]
      BY <1>1, <1>2, <2>4
    <3>. QED  BY <1>1, <2>1, <2>4, <3>1 DEF ColumnsInvariant, Current
  <2>. QED  BY <2>2, <2>3, <2>4
<1>4. SamplesAreWhole'
  BY <1>1 DEF ColumnsInvariant, SamplesAreWhole
<1>. QED  BY <1>1, <1>3, <1>4 DEF ColumnsInvariant

\* A new sample counts at most once in a summary.
LEMMA AppendCounts ==
  ASSUME NEW x \in SUBSET Key, NEW k, SamplerTypeOK, samples' = Append(samples, x)
  PROVE  Summary(k)' \in {Summary(k), Summary(k) + 1}
<1>1. /\ samples \in Seq(SUBSET Key) /\ Len(samples) \in Nat
      /\ DOMAIN samples = 1..Len(samples)
      /\ Len(samples') = Len(samples) + 1 /\ DOMAIN samples' = 1..Len(samples) + 1
      /\ \A i \in 1..Len(samples) : samples'[i] = samples[i]
  BY DEF SamplerTypeOK
<1>. DEFINE Old == {i \in DOMAIN samples : k \in samples[i]}
            New == {i \in DOMAIN samples' : k \in samples'[i]}
            last == Len(samples) + 1
<1>2. IsFiniteSet(Old) /\ last \notin Old
  <2>1. Old \subseteq 1..Len(samples) /\ IsFiniteSet(1..Len(samples))
    BY <1>1, FS_Interval
  <2>2. last \notin 1..Len(samples)
    BY <1>1
  <2>. QED  BY <2>1, <2>2, FS_Subset
<1>3. New = Old \/ New = Old \cup {last}
  <2>1. \A i \in DOMAIN samples' : i = last \/ i \in 1..Len(samples)
    BY <1>1
  <2>2. \A i \in 1..Len(samples) : i \in DOMAIN samples' /\ i # last
    BY <1>1
  <2>3. \A i : i # last => (i \in New <=> i \in Old)
    BY <1>1, <2>1, <2>2
  <2>4. Old \subseteq New
    BY <1>1, <1>2, <2>3
  <2>5. New \subseteq Old \cup {last}
    BY <2>1, <2>3
  <2>. QED  BY <2>4, <2>5
<1>4. Cardinality(New) \in {Cardinality(Old), Cardinality(Old) + 1}
  <2>1. Cardinality(Old \cup {last}) = Cardinality(Old) + 1
    BY <1>2, FS_AddElement
  <2>. QED  BY <1>3, <2>1
<1>5. summary(k) = Cardinality(Old) /\ summary(k)' = Cardinality(New)
  BY DEF summary
<1>. QED  BY <1>1, <1>4, <1>5 DEF Summary

\* What a step of the sampler may do to the list of samples.
LEMMA SamplingAppends ==
  ASSUME SamplerTypeOK, Sampling, ~UNCHANGED samples
  PROVE  /\ sampler = "polling"
         /\ \E x \in {ApiKeys, SmiKeys, ApiKeys \cup SmiKeys} :
              /\ program = "base" => x = ApiKeys
              /\ samples' = Append(samples, x)
<1>1. PICK api \in read_prometheus_metrics,
           host \in IF program = "gpu_fixed" THEN read_nvidia_smi ELSE {{}} :
             api \cup host # {} /\ samples' = Append(samples, api \cup host)
  BY DEF Sampling, Wake, Poll
<1>2. /\ api \cup host \in {ApiKeys, SmiKeys, ApiKeys \cup SmiKeys}
      /\ program = "base" => api \cup host = ApiKeys
  BY <1>1 DEF read_prometheus_metrics, read_nvidia_smi
<1>. QED  BY <1>1, <1>2 DEF Sampling, Wake, Poll

LEMMA SamplingKeepsWhole ==
  TypeOK /\ SamplesAreWhole /\ Sampling => SamplesAreWhole'
<1>. SUFFICES ASSUME TypeOK, SamplesAreWhole, Sampling  PROVE SamplesAreWhole'
  OBVIOUS
<1>1. UNCHANGED program
  BY DEF Sampling
<1>2. CASE UNCHANGED samples
  BY <1>1, <1>2 DEF SamplesAreWhole
<1>3. CASE ~UNCHANGED samples
  <2>1. PICK x \in {ApiKeys, SmiKeys, ApiKeys \cup SmiKeys} :
          (program = "base" => x = ApiKeys) /\ samples' = Append(samples, x)
    BY <1>3, SamplingAppends DEF TypeOK
  <2>2. samples \in Seq(SUBSET Key) /\ Len(samples) \in Nat
    BY DEF TypeOK, SamplerTypeOK
  <2>3. /\ DOMAIN samples' = 1..Len(samples) + 1
        /\ \A i \in 1..Len(samples) : i \in DOMAIN samples /\ samples'[i] = samples[i]
        /\ samples'[Len(samples) + 1] = x
    BY <2>1, <2>2
  <2>4. ASSUME NEW i \in DOMAIN samples'
        PROVE  /\ samples'[i] \in {ApiKeys, SmiKeys, ApiKeys \cup SmiKeys}
               /\ program' = "base" => samples'[i] = ApiKeys
    <3>1. CASE i = Len(samples) + 1
      BY <1>1, <2>1, <2>3, <3>1
    <3>2. CASE i # Len(samples) + 1
      <4>1. i \in 1..Len(samples)
        BY <2>2, <2>3, <3>2
      <4>. QED  BY <1>1, <2>3, <4>1 DEF SamplesAreWhole
    <3>. QED  BY <3>1, <3>2
  <2>. QED  BY <2>4 DEF SamplesAreWhole
<1>. QED  BY <1>2, <1>3

LEMMA SamplingColumns ==
  TypeOK /\ ColumnsInvariant /\ Sampling => ColumnsInvariant'
<1>. SUFFICES ASSUME TypeOK, ColumnsInvariant, Sampling  PROVE ColumnsInvariant'
  OBVIOUS
<1>1. UNCHANGED <<program, stage, report, toSum, stopping>>
  BY DEF Sampling, summing, Wake, Poll
<1>2. SamplesAreWhole'
  BY SamplingKeepsWhole DEF ColumnsInvariant
<1>3. ASSUME stage = "summing"
      PROVE  /\ slow \/ sampler = "ended"
             /\ slow' = slow /\ sampler' # "polling"
             /\ slow' \/ sampler' = "ended"
  BY <1>3 DEF Sampling, Wake, Poll, ColumnsInvariant, TypeOK, SamplerTypeOK
<1>4. ASSUME stage = "summing", NEW k \in Column, Current(k)  PROVE Current(k)'
  <2>1. CASE UNCHANGED samples
    <3>1. Summary(k)' = Summary(k)
      BY <2>1 DEF Summary, summary
    <3>. QED  BY <1>1, <1>3, <1>4, <3>1 DEF Current
  <2>2. CASE ~UNCHANGED samples
    <3>1. sampler = "polling"
      BY <2>2, SamplingAppends DEF TypeOK
    <3>2. slow' /\ sampler' # "polling"
      BY <1>3, <1>4, <3>1
    <3>3. report'[k] = Summary(k)
      BY <1>1, <1>4, <3>1 DEF Current
    <3>4. Summary(k)' \in {Summary(k), Summary(k) + 1}
      <4>1. PICK x \in {ApiKeys, SmiKeys, ApiKeys \cup SmiKeys} : samples' = Append(samples, x)
        BY <2>2, SamplingAppends DEF TypeOK
      <4>2. x \in SUBSET Key
        BY DEF Key
      <4>. QED  BY <4>1, <4>2, AppendCounts DEF TypeOK
    <3>. QED  BY <3>2, <3>3, <3>4 DEF Current
  <2>. QED  BY <2>1, <2>2
<1>5. ASSUME NEW k \in Column
      PROVE  Pending(k)' = Pending(k) /\ Absent(k)' = Absent(k) /\ report'[k] = report[k]
  BY <1>1 DEF Pending, Absent
<1>. QED  BY <1>1, <1>2, <1>3, <1>4, <1>5 DEF ColumnsInvariant

LEMMA ColumnsStay == TypeOK /\ ColumnsInvariant /\ [Next]_vars => ColumnsInvariant'
<1>. SUFFICES ASSUME TypeOK, ColumnsInvariant, [Next]_vars  PROVE ColumnsInvariant'
  OBVIOUS
<1>. USE DEF samplerVars, summing
<1>0. CASE UNCHANGED <<samplerVars, summing, program, stage>>
  BY <1>0 DEF ColumnsInvariant, SamplesAreWhole, Pending, Absent, Current, Summary, summary
<1>1. ASSUME NEW q \in Request, Progress(q)  PROVE ColumnsInvariant'
  <2>1. UNCHANGED requestFrame
    BY <1>1 DEF Progress, Send, Admit, Refuse, Reject, Token, End, Collect, BreakOff
  <2>. QED  BY <1>0, <2>1 DEF requestFrame
<1>2. CASE Calibrate \/ OrphanEnds \/ UNCHANGED vars
  BY <1>0, <1>2 DEF Calibrate, OrphanEnds, vars
<1>3. CASE NextCase
  <2>1. CASE BeginCase
    <3>1. samples' = <<>> /\ stage' = "running" /\ report' = [k \in Column |-> 0]
      BY <2>1 DEF BeginCase, start
    <3>2. DOMAIN samples' = {}
      BY <3>1
    <3>. QED  BY <3>1, <3>2 DEF ColumnsInvariant, SamplesAreWhole
  <2>2. CASE stage' = "done" /\ UNCHANGED <<samplerVars, program>>
    BY <2>2 DEF ColumnsInvariant, SamplesAreWhole
  <2>. QED  BY <1>3, <2>1, <2>2 DEF NextCase
<1>4. CASE SetStop
  BY <1>4 DEF SetStop, mainFrame, ColumnsInvariant, SamplesAreWhole
<1>5. CASE Join
  <2>1. /\ stage = "stopping" /\ stage' = "summing" /\ toSum' = Columns
        /\ UNCHANGED <<samples, sampler, stopping, slow, program, report>>
        /\ slow \/ sampler = "ended"
    BY <1>5 DEF Join, mainFrame
  <2>2. report = [k \in Column |-> 0] /\ stopping
    BY <2>1 DEF ColumnsInvariant
  <2>3. ASSUME NEW k \in Column  PROVE Pending(k)' \/ (Absent(k)' /\ report'[k] = 0)
    BY <2>1, <2>2, EveryColumn DEF Pending, Absent
  <2>4. SamplesAreWhole'
    BY <2>1 DEF ColumnsInvariant, SamplesAreWhole
  <2>. QED  BY <2>1, <2>2, <2>3, <2>4 DEF ColumnsInvariant
<1>6. CASE Sum
  BY <1>6, SumColumns
<1>7. CASE Sampling
  BY <1>7, SamplingColumns
<1>. QED  BY <1>1, <1>2, <1>3, <1>4, <1>5, <1>6, <1>7 DEF Next, Main

\* The columns from one source are of the same samples, but for one that a slow
\* poll brings too late, whatever the endpoints answer and however long they take.
THEOREM ColumnsAlwaysAgree == Safety => []ColumnsAgree
<1>1. Init => ColumnsInvariant
  BY DEF Init, SamplerInit, ColumnsInvariant, SamplesAreWhole
<1>2. ColumnsInvariant /\ TypeOK => ColumnsAgree
  <2>. SUFFICES ASSUME ColumnsInvariant, TypeOK, stage = "summing", toSum = <<>>
                PROVE  ColumnsAgree
    BY DEF ColumnsAgree
  <2>1. \A k \in Column : (Absent(k) /\ report[k] = 0) \/ Current(k)
    BY DEF ColumnsInvariant, Pending
  <2>2. /\ {"gpu_utilization_percent", "kv_cache_utilization", "queue_depth",
            "gpu_memory_used_mb", "gpu_power_watts", "telemetry_samples"} \subseteq Column
        /\ \A k \in Column : report[k] \in Nat
    BY DEF Column, Key, ApiKeys, SmiKeys, TypeOK
  <2>3. DOMAIN samples = 1..Len(samples) /\ Len(samples) \in Nat
    BY DEF TypeOK, SamplerTypeOK
  <2>4. \A i \in DOMAIN samples :
          /\ "gpu_utilization_percent" \in samples[i]
          /\ "queue_depth" \in samples[i] <=> "kv_cache_utilization" \in samples[i]
          /\ "gpu_memory_used_mb" \in samples[i] <=> "gpu_power_watts" \in samples[i]
          /\ program = "base" => "gpu_memory_used_mb" \notin samples[i]
    BY DEF ColumnsInvariant, SamplesAreWhole, ApiKeys, SmiKeys
  <2>5. summary("gpu_utilization_percent") = Len(samples)
    <3>1. {i \in DOMAIN samples : "gpu_utilization_percent" \in samples[i]} = 1..Len(samples)
      BY <2>3, <2>4
    <3>2. Cardinality(1..Len(samples)) = Len(samples)
      BY <2>3, FS_Interval
    <3>. QED  BY <3>1, <3>2 DEF summary
  <2>6. summary("queue_depth") = summary("kv_cache_utilization")
    <3>1. {i \in DOMAIN samples : "queue_depth" \in samples[i]}
            = {i \in DOMAIN samples : "kv_cache_utilization" \in samples[i]}
      BY <2>4
    <3>. QED  BY <3>1 DEF summary
  <2>7. summary("gpu_memory_used_mb") = summary("gpu_power_watts")
    <3>1. {i \in DOMAIN samples : "gpu_memory_used_mb" \in samples[i]}
            = {i \in DOMAIN samples : "gpu_power_watts" \in samples[i]}
      BY <2>4
    <3>. QED  BY <3>1 DEF summary
  <2>8. program = "base" => summary("gpu_memory_used_mb") = 0
    <3>. SUFFICES ASSUME program = "base"  PROVE summary("gpu_memory_used_mb") = 0
      OBVIOUS
    <3>1. {i \in DOMAIN samples : "gpu_memory_used_mb" \in samples[i]} = {}
      BY <2>4
    <3>. QED  BY <3>1, FS_EmptySet DEF summary
  \* Two summaries of the same samples.
  <2>9. ASSUME NEW k \in Column, NEW l \in Column, Summary(k) = Summary(l),
               Absent(k) <=> Absent(l), Absent(k) => Summary(k) = 0
        PROVE  SameButLate(report[k], report[l])
    <3>1. Absent(k) \/ (Current(k) /\ Current(l))
      BY <2>1, <2>9
    <3>2. Absent(k) => report[k] = 0 /\ report[l] = 0
      BY <2>1, <2>2, <2>9 DEF Current
    <3>3. report[k] \in Nat /\ report[l] \in Nat
      BY <2>2
    <3>4. CASE Absent(k)
      BY <3>2, <3>4 DEF SameButLate
    <3>5. CASE Current(k) /\ Current(l) /\ slow
      BY <2>9, <3>3, <3>5 DEF Current, SameButLate
    <3>6. CASE Current(k) /\ Current(l) /\ ~slow
      BY <2>9, <3>3, <3>6 DEF Current, SameButLate
    <3>. QED  BY <3>1, <3>4, <3>5, <3>6
  <2>10. SameButLate(report["telemetry_samples"], Len(samples))
    <3>1. Current("telemetry_samples") /\ Summary("telemetry_samples") = Len(samples)
      BY <2>1, <2>2 DEF Absent, Summary
    <3>. QED  BY <2>2, <2>3, <3>1 DEF Current, SameButLate
  <2>11. SameButLate(report["telemetry_samples"], report["gpu_utilization_percent"])
    BY <2>2, <2>5, <2>9 DEF Absent, Summary
  <2>12. SameButLate(report["queue_depth"], report["kv_cache_utilization"])
    BY <2>2, <2>6, <2>9 DEF Absent, Summary
  <2>13. SameButLate(report["gpu_memory_used_mb"], report["gpu_power_watts"])
    BY <2>2, <2>7, <2>8, <2>9 DEF Absent, Summary
  <2>. QED  BY <2>10, <2>11, <2>12, <2>13 DEF ColumnsAgree
<1>. QED  BY <1>1, <1>2, ColumnsStay, BenchmarkTypeCorrect, PTL DEF Safety
=============================================================================
