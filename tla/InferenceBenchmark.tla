------------------------- MODULE InferenceBenchmark -------------------------
(***************************************************************************)
(* The inference benchmark: app/inference_benchmark.py and its variant     *)
(* inference_benchmark_gpu_fixed.py, against one service that admits a     *)
(* limited number of requests (InferenceManager) and that nobody else uses.*)
(*                                                                         *)
(* The main thread runs one case after the other.  In a case a pool of     *)
(* workers sends the requests, a sampler polls telemetry, and at the end   *)
(* the case is summed up, one key of the telemetry after the other.  A     *)
(* client that breaks off leaves its slot taken until the server notices.  *)
(* Of a RequestSample there is left whether it is ok and has a TTFT.       *)
(***************************************************************************)
EXTENDS TelemetrySampler

CONSTANTS
    Request,        \* the requests of a case
    Concurrency,    \* the numbers of workers of the cases, in their order
    Calibrations,   \* calibration requests of the second program
    Limit,          \* service.max_concurrent_requests
    Programs        \* which of the two programs may run

ASSUME RequestAssumption == IsFiniteSet(Request)
ASSUME ConcurrencyAssumption == Concurrency \in Seq(Nat \ {0})
ASSUME CalibrationsAssumption == Calibrations \in Nat
ASSUME LimitAssumption == Limit \in Nat \ {0}
ASSUME ProgramsAssumption == Programs \subseteq {"base", "gpu_fixed"}

VARIABLES
    program,    \* the program that runs
    stage,      \* where its main thread is
    case,       \* the number of the case
    toCalibrate,\* calibration requests still to be made
    pc,         \* pc[q]: where request q of the case is
    result,     \* result[q]: its RequestSample
    orphans,    \* slots of the service held for clients that broke off
    report,     \* report[k]: from how many samples the summary of k was made
    toSum,      \* the summaries still to be made
    brokeOff,   \* history: some client has broken off
    refusals,   \* history: refusals in this case
    silent      \* history: streams of this case that ended before a token

histories == <<brokeOff, refusals, silent>>
summing == <<report, toSum>>
vars == <<samplerVars, program, stage, case, toCalibrate, pc, result, orphans,
          summing, histories>>

Column == Key \cup {"telemetry_samples"}
Columns ==
    IF program = "base"
      THEN <<"gpu_utilization_percent", "kv_cache_utilization", "queue_depth",
             "telemetry_samples">>
      ELSE <<"gpu_utilization_percent", "kv_cache_utilization", "queue_depth",
             "gpu_memory_used_mb", "gpu_power_watts", "telemetry_samples">>

TypeOK ==
    /\ SamplerTypeOK
    /\ program \in Programs
    /\ stage \in {"calibrating", "running", "stopping", "summing", "done"}
    /\ case \in 0..Len(Concurrency)
    /\ toCalibrate \in 0..Calibrations
    /\ pc \in [Request -> {"queued", "sent", "open", "streaming", "ended", "done"}]
    /\ result \in [Request -> {"none", "answered", "timed", "failed"}]
    /\ orphans \in Nat
    /\ report \in [Column -> Nat]
    /\ toSum \in Seq(Column)
    /\ brokeOff \in BOOLEAN
    /\ refusals \in Nat /\ silent \in Nat

Init ==
    /\ SamplerInit
    /\ program \in Programs
    /\ stage = "calibrating"
    /\ case = 0
    /\ toCalibrate = IF program = "base" THEN 0 ELSE Calibrations
    /\ pc = [q \in Request |-> "done"]
    /\ result = [q \in Request |-> "none"]
    /\ orphans = 0
    /\ report = [k \in Column |-> 0]
    /\ toSum = <<>>
    /\ brokeOff = FALSE /\ refusals = 0 /\ silent = 0

-----------------------------------------------------------------------------
(* The service *)

AtStep(S) == {q \in Request : pc[q] \in S}

\* Slots taken in the service.
Taken == Cardinality(AtStep({"open", "streaming"})) + orphans

\* Deliberately wrong: such a slot is given back twice.
OrphanEndsTwice ==
    /\ orphans > 0
    /\ orphans' = orphans - 2
    /\ UNCHANGED <<samplerVars, program, stage, case, toCalibrate, pc, result,
                   summing, histories>>

\* A slot whose client is gone comes back.
OrphanEnds ==
    /\ orphans > 0
    /\ orphans' = orphans - 1
    /\ UNCHANGED <<samplerVars, program, stage, case, toCalibrate, pc, result,
                   summing, histories>>

-----------------------------------------------------------------------------
(* Calibration and the start of a case *)

\* calibrate_prompt_tokens: a number or None, whatever happens.  A client that
\* times out (its 120 s begin before those of the backend) leaves its slot.
Calibrate ==
    /\ stage = "calibrating" /\ toCalibrate > 0
    /\ toCalibrate' = toCalibrate - 1
    /\ \/ UNCHANGED <<orphans, brokeOff>>
       \/ orphans < Limit /\ orphans' = orphans + 1 /\ brokeOff' = TRUE
    /\ UNCHANGED <<samplerVars, program, stage, case, pc, result, summing, refusals, silent>>

\* run_case, up to the submission of its requests
BeginCase ==
    /\ case' = case + 1
    /\ stage' = "running"
    /\ start
    /\ pc' = [q \in Request |-> "queued"]
    /\ result' = [q \in Request |-> "none"]
    /\ report' = [k \in Column |-> 0]
    /\ toSum' = <<>>
    /\ refusals' = 0 /\ silent' = 0
    /\ UNCHANGED <<program, toCalibrate, orphans, brokeOff>>

\* The next case, or the results are written.
NextCase ==
    /\ \/ stage = "calibrating" /\ toCalibrate = 0
       \/ stage = "summing" /\ toSum = <<>>
    /\ IF case < Len(Concurrency) THEN BeginCase
       ELSE /\ stage' = "done"
            /\ UNCHANGED <<samplerVars, program, case, toCalibrate, pc, result, orphans,
                           summing, histories>>

-----------------------------------------------------------------------------
(* The requests *)

requestFrame == <<samplerVars, program, stage, case, toCalibrate, summing>>

goto(q, step) == pc' = [pc EXCEPT ![q] = step]
note(q, sample) == result' = [result EXCEPT ![q] = sample]

\* Deliberately wrong: the pool has one worker more than it was asked for.
SendOneMore(q) ==
    /\ pc[q] = "queued"
    /\ Cardinality(AtStep({"sent", "open", "streaming", "ended"})) <= Concurrency[case]
    /\ goto(q, "sent")
    /\ UNCHANGED <<requestFrame, result, orphans, histories>>

\* A free worker takes the request and sends it.
Send(q) ==
    /\ pc[q] = "queued"
    /\ Cardinality(AtStep({"sent", "open", "streaming", "ended"})) < Concurrency[case]
    /\ goto(q, "sent")
    /\ UNCHANGED <<requestFrame, result, orphans, histories>>

\* The service admits the stream.
Admit(q) ==
    /\ pc[q] = "sent" /\ Taken < Limit
    /\ goto(q, "open")
    /\ UNCHANGED <<requestFrame, result, orphans, histories>>

\* The service refuses the stream: a body that holds an error event.
Refuse(q) ==
    /\ pc[q] = "sent" /\ Taken >= Limit
    /\ refusals' = refusals + 1
    /\ goto(q, "ended")
    /\ note(q, "answered")
    /\ UNCHANGED <<requestFrame, orphans, brokeOff, silent>>

\* A status of 400 or more.
Reject(q) ==
    /\ pc[q] = "sent"
    /\ goto(q, "done")
    /\ note(q, "failed")
    /\ UNCHANGED <<requestFrame, orphans, histories>>

\* The first chunk with content.
Token(q) ==
    /\ pc[q] = "open"
    /\ goto(q, "streaming")
    /\ note(q, "timed")
    /\ UNCHANGED <<requestFrame, orphans, histories>>

\* The stream ends well or with an error event, which parse_sse does not tell
\* from each other.  The slot is free before the client sees the end.
End(q) ==
    /\ pc[q] \in {"open", "streaming"}
    /\ silent' = IF pc[q] = "open" THEN silent + 1 ELSE silent
    /\ note(q, IF pc[q] = "open" THEN "answered" ELSE result[q])
    /\ goto(q, "ended")
    /\ UNCHANGED <<requestFrame, orphans, brokeOff, refusals>>

\* Deliberately wrong: the first token is looked for in the last line only.
CollectForgetting(q) ==
    /\ pc[q] = "ended"
    /\ goto(q, "done")
    /\ note(q, "answered")
    /\ UNCHANGED <<requestFrame, orphans, histories>>

\* parse_sse returns.
Collect(q) ==
    /\ pc[q] = "ended"
    /\ goto(q, "done")
    /\ UNCHANGED <<requestFrame, result, orphans, histories>>

\* A timeout or an error of the connection.  A stream that the service has, or
\* that it may still begin, goes on without its client.
BreakOff(q) ==
    /\ pc[q] \in {"sent", "open", "streaming", "ended"}
    /\ goto(q, "done")
    /\ note(q, "failed")
    /\ brokeOff' = TRUE
    /\ \/ pc[q] \in {"open", "streaming"} /\ orphans' = orphans + 1
       \/ pc[q] = "sent" /\ Taken < Limit /\ orphans' = orphans + 1
       \/ pc[q] \in {"sent", "ended"} /\ UNCHANGED orphans
    /\ UNCHANGED <<requestFrame, refusals, silent>>

-----------------------------------------------------------------------------
(* The end of a case *)

mainFrame == <<program, case, toCalibrate, pc, result, orphans, histories>>

\* telemetry.stop() sets the event once the pool is done.
SetStop ==
    /\ stage = "running"
    /\ AtStep({"done"}) = Request
    /\ stopping' = TRUE
    /\ stage' = "stopping"
    /\ UNCHANGED <<mainFrame, sampler, slow, samples, summing>>

\* Deliberately wrong: stop() does not join.
JoinNotWaiting ==
    /\ stage = "stopping"
    /\ stage' = "summing"
    /\ toSum' = Columns
    /\ UNCHANGED <<mainFrame, samplerVars, report>>

\* Deliberately wrong: join() waits without a timeout.
JoinForever ==
    /\ stage = "stopping"
    /\ sampler = "ended"
    /\ stage' = "summing"
    /\ toSum' = Columns
    /\ UNCHANGED <<mainFrame, samplerVars, report>>

\* ... and waits until the thread has ended, or for two seconds.
Join ==
    /\ stage = "stopping"
    /\ sampler = "ended" \/ slow
    /\ stage' = "summing"
    /\ toSum' = Columns
    /\ UNCHANGED <<mainFrame, samplerVars, report>>

\* One summary after the other; the last column is the length of the list.
Sum ==
    /\ stage = "summing" /\ toSum # <<>>
    /\ LET k == Head(toSum)
       IN  report' = [report EXCEPT ![k] =
                        IF k = "telemetry_samples" THEN Len(samples) ELSE summary(k)]
    /\ toSum' = Tail(toSum)
    /\ UNCHANGED <<mainFrame, samplerVars, stage>>

-----------------------------------------------------------------------------
Progress(q) ==
    \/ Send(q) \/ Admit(q) \/ Refuse(q) \/ Reject(q)
    \/ Token(q) \/ End(q) \/ Collect(q) \/ BreakOff(q)
Main == Calibrate \/ NextCase \/ SetStop \/ Join \/ Sum
Sampling ==
    /\ Wake \/ Poll(program = "gpu_fixed")
    /\ UNCHANGED <<program, stage, case, toCalibrate, pc, result, orphans, summing, histories>>

Next == (\E q \in Request : Progress(q)) \/ Main \/ Sampling \/ OrphanEnds

Prompt == ~(sampler = "polling" /\ slow)

\* The workers, the main thread and the sampler are scheduled, every request
\* ends or runs into its timeout, and so does a poll that is not slow: that is
\* what slow means.  A slow one need not end.
Fairness ==
    /\ \A q \in Request : WF_vars(Progress(q))
    /\ WF_vars(Main)
    /\ WF_vars(Sampling /\ Prompt)

Safety == Init /\ [][Next]_vars
Spec == Safety /\ Fairness

-----------------------------------------------------------------------------
(* Properties *)

\* With no more workers than the service admits, a refusal is the doing of a
\* client that broke off before, in this case, an earlier one or a
\* calibration: the slot of a stream that was read to its end is free before
\* the next request is sent.
RefusalsAreExplained ==
    case > 0 /\ refusals > 0 => brokeOff \/ Concurrency[case] > Limit

\* README.md:424-425, "captures streaming TTFT ... success rate": a request that
\* counts as successful without a TTFT is one that the service refused or ended
\* before its first token; there are no others.
MissingTtftIsExplained ==
    Cardinality({q \in Request : pc[q] = "done" /\ result[q] = "answered"})
      <= refusals + silent

\* Numbers of samples that are the same, but for the one that a slow poll may
\* still bring while the case is summed up.
SameButLate(m, n) == LET late == IF slow THEN 1 ELSE 0 IN m <= n + late /\ n <= m + late

\* stop() waits for the sampler before the case is summed up: all the columns
\* from one source are of the same samples, and the counted ones; a poll that
\* outlasts the wait brings one sample too late at most, however long it takes.
ColumnsAgree ==
    stage = "summing" /\ toSum = <<>> =>
      /\ SameButLate(report["telemetry_samples"], Len(samples))
      /\ SameButLate(report["telemetry_samples"], report["gpu_utilization_percent"])
      /\ SameButLate(report["queue_depth"], report["kv_cache_utilization"])
      /\ SameButLate(report["gpu_memory_used_mb"], report["gpu_power_watts"])

\* The benchmark comes to its end though a telemetry endpoint never answers.
BenchmarkEnds == <>(stage = "done")
=============================================================================
