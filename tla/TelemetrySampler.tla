-------------------------- MODULE TelemetrySampler --------------------------
(***************************************************************************)
(* The thread that polls telemetry while a case of the inference benchmark *)
(* runs (app/inference_benchmark.py and inference_benchmark_gpu_fixed.py). *)
(* A sample is the set of the keys that it has; values are left out.       *)
(*                                                                         *)
(* Each case has a sampler of its own.  A thread that outlives its case    *)
(* appends to a list that nobody reads any more and is forgotten here.     *)
(***************************************************************************)
EXTENDS Naturals, Sequences, FiniteSets

CONSTANTS
    MaxSamples      \* bound: samples taken in a case

VARIABLES
    sampler,    \* where the thread is
    stopping,   \* the event _stop is set
    slow,       \* the poll takes longer than stop() waits for its end
    samples     \* the list of the samples so far

samplerVars == <<sampler, stopping, slow, samples>>

\* What the two sources of telemetry know.
ApiKeys == {"queue_depth", "kv_cache_utilization", "gpu_utilization_percent"}
SmiKeys == {"gpu_utilization_percent", "gpu_memory_used_mb", "gpu_power_watts"}
Key == ApiKeys \cup SmiKeys

SamplerTypeOK ==
    /\ sampler \in {"none", "waiting", "polling", "ended"}
    /\ stopping \in BOOLEAN
    /\ slow \in BOOLEAN
    /\ samples \in Seq(SUBSET Key)

SamplerInit == sampler = "none" /\ stopping = FALSE /\ slow = FALSE /\ samples = <<>>

\* start, with an empty list and an event that is not set
start == sampler' = "waiting" /\ stopping' = FALSE /\ slow' = FALSE /\ samples' = <<>>

\* read_prometheus_metrics: nothing when the API does not answer; all three
\* keys otherwise, those that were not found with the value 0.
read_prometheus_metrics == {{}, ApiKeys}

\* read_nvidia_smi, of the second program only: nothing when it is not there.
read_nvidia_smi == {{}, SmiKeys}

\* The test of the loop.  The timeouts of a poll are longer than stop() waits.
Wake ==
    /\ sampler = "waiting"
    /\ \/ stopping /\ sampler' = "ended" /\ UNCHANGED slow
       \/ ~stopping /\ sampler' = "polling" /\ slow' \in BOOLEAN
    /\ UNCHANGED <<stopping, samples>>

\* The poll and the append: the event may be set in between.  An error of
\* nvidia-smi other than that it is not there ends the thread.
Poll(smi) ==
    /\ sampler = "polling"
    /\ \/ /\ \E api \in read_prometheus_metrics,
                host \in IF smi THEN read_nvidia_smi ELSE {{}} :
               IF api \cup host = {} THEN UNCHANGED samples
               ELSE Len(samples) < MaxSamples /\ samples' = Append(samples, api \cup host)
          /\ sampler' = "waiting"
       \/ smi /\ sampler' = "ended" /\ UNCHANGED samples
    /\ slow' = (slow /\ stopping)
    /\ UNCHANGED stopping

\* summary(key) is of the samples that have the key; here, how many there are.
summary(key) == Cardinality({i \in DOMAIN samples : key \in samples[i]})
=============================================================================
