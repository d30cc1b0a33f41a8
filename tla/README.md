# A formal model of the GPU cluster reliability control plane

This directory holds TLA+ specifications of the control plane in `app/` and
`controllers/`, the TLC configurations that model-check them, and TLAPS proofs.
The specifications are written from the Python source. File names and line
numbers refer to the repository.

## 1. The system

| Component | Source | State | Operations |
|---|---|---|---|
| Inference manager | `app/inference.py` | per service: state, counters, in-flight slots; the admission lock | `register`, `chat`, `stream_chat`, `health_check`, `stop`, `refresh_metrics` |
| Inference router | `app/routing.py` | replicas of each service, round-robin index, decision counts | `register`, `update_replica`, `set_service_state`, `choose` |
| Simulated cluster | `app/cluster.py`, `app/models.py` | nodes, GPUs, injected faults | `inject`, `recover`, `refresh_telemetry` |
| Scheduler | `app/scheduler.py` | jobs in memory | `submit`, `reconcile`, `cancel`, `release` |
| Validator | `app/validator.py` | none | `validate` |
| AIOps agent | `app/agent.py` | incidents | `plan`, `reconcile` |
| API | `app/api.py` | registry of worker processes | one handler for each route, `startup` |
| Persistence | `app/persistence.py` | tables for jobs, workload state, services, replicas, incidents, audit | one function for each save and lookup |
| Workload controller | `controllers/workload_controller.py` | the Lease and the Jobs in Kubernetes | `is_leader`, `reconcile`, `run` |
| Reliability controller | `controllers/reliability_controller.py` | none | cordon nodes that are not ready |
| Inference benchmarks | `app/inference_benchmark.py`, `app/inference_benchmark_gpu_fixed.py` | results of a case, telemetry samples | `run_case`, `run_request`, `calibrate_prompt_tokens`, the sampler's `start`, `stop`, `summary` |
| Adapters and programs | `app/auth.py`, `slurm.py`, `kubernetes_adapter.py`, `llm_agent.py`, `gpu_worker.py`, `routing_benchmark.py`, `reliability_experiment.py`, `training/` | none that the control plane reads back | |

How they interact: the API module creates one cluster, scheduler, agent,
inference manager and router, and every handler calls them directly. They are
plain Python objects, shared without locks but for the admission lock of the
inference manager. The scheduler reads and writes the cluster's nodes; the
agent reads the validator's findings, writes nodes and jobs and calls the
scheduler; handlers call the database before or after they change memory. A
chat asks the manager for the service, passes its state to the router, lets the
router choose, and hands the request to the manager. A CUDA job runs in a child
process that handlers poll. The benchmarks are clients of the HTTP API.

What is hard:

* **Concurrency.** FastAPI runs the `def` handlers in a thread pool, and a
  streamed answer is a generator that the pool resumes between two chunks.
* **Stale decisions.** The scheduler works from a snapshot of the queue, the
  agent from a plan made before its first remediation, the health check from a
  state that it tested before a call of up to 120 seconds.
* **Failure paths.** A slot is released by hand on five paths.
* **Crashes.** Jobs are in memory and in a table, services in both; only
  services are loaded at startup.
* **Order of writes.** Submit, then record; change, then save. A save reads
  objects that other threads are changing, and saves commit in any order.
* **Time limits.** A client that gives up leaves its slot taken; a thread that is
  joined with a timeout goes on.

What makes each component correct:

* Manager: slots are counted exactly and never exceeded or leaked; repeated
  failures stop the service; a stopped service retires.
* Scheduler and agent: jobs start in order on nodes that can take them; a
  remediated node comes back empty; the cluster becomes healthy; a running job
  has a node; a job is finished by its own worker.
* Job records: an idempotency key names one job for good, across races and
  restarts.
* Router: round robin takes the replicas in turn while they stay ready; the
  other policies take a least one.
* Inference handlers: an answered creation survives; what changes is saved; no
  request count is invented by a race or a restart.
* Benchmarks: what a case reports has a cause in what happened in it, and the
  program ends.
* Controller: a leader that is within the time of its Lease is alone; a reported
  outcome is not taken back while that is so; it is reported in the end, even
  when leaders overlap.

`PROJECT.json` lists the hazards at their lines, with the properties aimed at
each.

## 2. What a step is

A thread of CPython 3.12 can lose the processor at a call or at a backward
jump, and not between two plain loads, comparisons and stores. An action is
therefore the code between two calls that another handler's action can tell
apart, and a check and the act that follows it are one action only when no such
call stands between them. `errors += 1` is one step; "test the state, call the
runtime, set the state" is two.

Two things are coarser than that. A loop over a node's GPUs or over the jobs of
the scheduler (`scheduler.cancel`, `release`, `inject`, `recover`, the agent's loop
that requeues jobs, the comprehension that collects queued jobs) is one step: the
loop bodies make no call that blocks. What another thread can do to such a loop is
add a job to the dictionary, so that the next iteration raises RuntimeError; that is
an action, `SubmitInterrupting`. Handlers that only read (`job_json`, `nodes`) have
no action, but the polling of workers that they do first has one.

## 3. The modules

| Module | Models | Relies on |
|---|---|---|
| `AdmissionControl` | what admission control promises: an abstract specification over the fates of requests | |
| `InferenceManager` | one service of `app/inference.py`; instantiates `AdmissionControl` | `AdmissionControl` |
| `InferenceManagerProofs` | theorems | `InferenceManager`, TLAPS |
| `Placement` | what scheduler and agent promise a caller who is alone: an abstract specification over the nodes that are open and the jobs' nodes | |
| `GpuControlPlane` | `cluster.py`, `scheduler.py`, `validator.py`, `agent.py` and the handlers that call them; instantiates `Placement` | `Placement` |
| `GpuControlPlaneProofs` | theorems for any clients | `GpuControlPlane`, TLAPS |
| `GpuControlPlaneSerialProofs` | theorems for one client | `GpuControlPlaneProofs` |
| `JobRegistry` | what `create_job` promises its callers: an abstract specification over entries and answers | |
| `JobRecords` | `create_job`, the saves of jobs, the table `workload_state`, a restart; instantiates `JobRegistry` | `JobRegistry` |
| `JobRecordsProofs` | theorems | `JobRecords`, TLAPS |
| `Routing` | the router: replicas, reports, the three policies | |
| `InferenceApi` | the inference handlers, the tables of services and replicas, a restart; composed with the router | `Routing` |
| `InferenceApiProofs` | theorems | `InferenceApi`, TLAPS |
| `TelemetrySampler` | the sampler thread of both benchmark programs | |
| `InferenceBenchmark` | both benchmark programs against a service with a limit; composed with the sampler | `TelemetrySampler` |
| `InferenceBenchmarkProofs` | theorems | `InferenceBenchmark`, TLAPS |
| `LeaseElection` | `LeaseElector`: the Lease, the election, clocks and time | |
| `WorkloadController` | `GpuWorkloadController`: turns, Jobs, phases, failures; composed with the election | `LeaseElection` |
| `WorkloadControllerProofs` | theorems | `WorkloadController`, TLAPS |
| `MC...` | instances for TLC: symmetry, and the sizes and priorities of jobs | the module they name |

Definitions called "deliberately wrong" in the comments are mutants. Each is a
plausible bug; `PROJECT.json` names the property that must fail when the mutant
takes the place of the definition below it.

### InferenceManager

`pc[r]` follows the thread of one request through `chat` or `stream_chat`:

    idle -> entered -> admitted -> succeeded
      |        |          |  \---> aborted            (a stream's client leaves)
      |        |          +------> failing -> leaving -> failed
      |        +-> rejected                           (admission limit)
      +-> turned_away                                 (service stopped)

`Enter` is the test for a stopped service, `Acquire` the lock, `Fail` the first
half of the error handler up to `type(exc).__name__`, `Drain` the second half,
`Leave` the finally clause. The slot is held in `admitted`, `failing` and
`leaving`. A probe is `ProbeBegin` (the test, then the call) and `ProbeEnd` (the
answer overwrites the state). `runtime` says which adapter `register` chose:

* `mock` never fails, and its probe answers healthy;
* `openai_no_endpoint` fails every request, and its probe answers unhealthy;
* `openai` may do either, and its probe *raises*: the function
  `OpenAICompatibleRuntime.health` (lines 126-132) ends after an import and
  returns None, which `health_check` cannot unpack. README.md:129-132 promises
  a call of `/health`; a single probe shows the difference, so it is noted here
  and not a run.

Token counts, durations and error names are left out: nothing decides on them.
So is the manager-wide `request_count`, which moves with `requests`.

### GpuControlPlane

Each client has one handler at a time, and `pc[c]` says where it is.
`scheduler.reconcile` is `Snapshot`, then `Choose` and `Place` for each job,
then `Return`; it is reached from `Submit`, `Release`, `CheckpointOn` and
`Recover`. `SubmitInterrupting` is a submission that adds to `scheduler.jobs` while
other handlers are in a loop over it: their loops have got to some job, and the next
iteration ends them with an error. A scheduler that is interrupted has placed nothing
yet; an agent has requeued some of the node's jobs and leaves the node draining, which
the history variable `abandoned` remembers. `agent.reconcile` is `Plan`, then for each incident `Drain`,
`RequeueAffected`, `Recover` and the scheduler's steps. `HandlerFails` is `Popen`, or
a save between two steps of a handler, that raises.

`proc[j]` is the worker that the registry `processes` has for j: none, one that is not
known to have exited, or one that a poll has found exited. `Execute` and `Launch` are the
two sides of `Popen`. `Poll` is the first half of `refresh_processes` for one worker,
`Pop` the second, which takes whatever worker the registry has by then. The worker of
another handler's `Launch` has no returncode yet, so that its job is marked failed
(`ExitStates`); the exit code of one that has exited is chosen freely. Left out is a
handler whose copy of the registry is older than a worker that two concurrent calls of
`execute_job` have replaced while it was alive: that takes three handlers.

A GPU is in `over` when its memory is above 90%, and a node is `hot` when its
GPUs are at 85 C or more: the simulated readings are set for a whole node at
once, and the two thresholds are all that is compared. A placed job sets its
GPUs to 2048 of 16384 MB, below the threshold: `Place` removes them from `over`,
and `FreeGpus` counts them as free, as `Node.free_gpus` does. `arrival` stands
for `created_at`. Retry counts and checkpoints are left out since nothing reads
them; `max_retries` is stored and never compared.

`ImplementsPlacement` maps all this to the two variables of `Placement`: the open
nodes are those in state `ready`, and a job's host is its node while it is
`running` (`hostOf`). `Drain` closes a node, `RequeueAffected` evicts all its
jobs, `Recover` opens it, `Place` starts a job, and the handlers that finish,
cancel or checkpoint a running job end it; every other step maps to none. With two
callers a node may be drained between `Choose` and `Place`, so the mapping is for
one.

### JobRecords

The same jobs, seen from the database. `Lookup`, `Submit`, `Read` and `Commit`
are the steps of `create_job`; `Change`, `Read` and `Commit` those of a handler
that changes a job and saves it (each of the saves of `checkpoint_job` is the
same pattern). `Reschedule` is a change that no save follows: a job placed by a
reconcile that another request called, or requeued by the agent, whatever has become of
it since they saw it queued or running. `Fail` is a handler
that ends with an error before its commit, because its reconcile was interrupted or
the database does not answer. The unique constraint refuses a second row with a key. The
empty string is a key of its own (`EmptyKey`): the lookup takes it for the lack of one
(persistence.py:96) and the table stores it. The final states are one, "ended". `Restart` empties the scheduler and
keeps the table, at any point. The table may therefore be out of date about a
job's state at any time; what it must get right is identity.

When it may be out of date is `RowsKeepUp`: only while a handler is about to save,
or for a job that something came between. The history variable `contested` has the
jobs that a reconcile moved without a save, that a second handler changed while one
was about to save, or whose save was refused or failed.

`ImplementsRegistry` maps the rows to the entries of `JobRegistry` (`Registered`). The
entry is made by `Commit`, by that of a handler which changed the job if it comes
before that of the creator, who is then told of an entry that exists. `Restart`
maps to no step.

### Routing and InferenceApi

One service and its replicas. `pc[c]` follows the handler that client c waits for:

    create   idle -> registering -> saving -> committing -> idle
    chat     idle -> setting -> gating -> choosing -> charging -> serving -> idle
                                            (failed) -> observing -> setting -> saving ...
    route    idle -> setting -> reporting -> choosing -> charging -> saving ...
    health   idle -> probing -> observing -> setting -> saving ...
    stop     idle -> saving ...
    metrics  idle -> gauging -> idle

`Call` and `Observe` read `service.state`; `SetServiceState` gives the router the
value that was read. `Gate` is the second read of a chat. `choose` is two steps,
`Choose` up to the selection and `Charge`, which increments the index and the
count: `min` and the property of an enumeration are calls in between. `Read`
and `Commit` are the two halves of `save_inference_service`; `Merged` is what
`db.merge` does to rows that the save does not mention. `Restart` is the process
ending at any point and `startup`.

The manager's part of a chat is abstracted to three outcomes: answered or turned
away (`Answer`), failed and saved (`Fail`), failed and not saved (`FailUnsaved`:
a stream fails in a generator, after its handler has returned; a `RuntimeError` of
the adapter is answered as a conflict). `InferenceManager` has the detail.

Decisions of the abstraction:

* `register` is one step. Its test and its store have one call between them that
  does not block; two registrations of one name that meet there would both
  succeed and leave two service objects, one of them lost.
* The queue depth and the cache utilization that `refresh_metrics` keeps with the
  service are left out: only `metrics` reads them, and passes them on at once. The
  report of a replica is one of `Reports`.
* A replica's state is "ready", "unavailable" or a word of the caller's: `update_replica`
  stores the string that `/route` was sent, and only "ready" is compared with. `Word`
  has these words.
* A replica is a number. `choose` breaks ties by name, and names sort like
  numbers up to ten replicas.
* An audit event that cannot be written (api.py:218, 267) has the effect of
  a save that fails, `CommitFails`.
* `max_concurrent_requests` is not a column: a service that is loaded again has the
  default limit. The limit is the manager's, so nothing here shows it.
* `made`, `created`, `unsaved` and `previous` are history variables. `unsaved` is
  set by `FailUnsaved`, by a commit that fails, and by a commit of a state
  that is no longer the current one.

### TelemetrySampler and InferenceBenchmark

`stage` follows the main thread: `calibrating`, then for each case `running` (the
pool is at work), `stopping` (the event is set), `summing`; then `done`. `pc[q]`
follows a request through its worker: `queued`, `sent`, `open` (admitted),
`streaming` (a token has come), `ended` (the server is done), `done`. A case has as
many workers as `Concurrency` says, and the service admits `Limit` requests;
`orphans` are slots whose client has gone. A `RequestSample` is `answered` (ok,
without a TTFT), `timed` (ok, with one) or `failed`.

The second program calibrates first and polls `nvidia-smi` as well; for the rest
the two programs are the same text, and `program` chooses. A sample is the set of
keys that it has: `read_prometheus_metrics` gives all of its three keys or
none, and `summary(key)` is the number of samples that the mean is taken over. A poll
is `slow` when it outlasts the two seconds that `stop()` waits; the timeouts in it are
longer, and nothing bounds the sum of them. `Join` returns when the thread has ended or
its poll is slow. An error of `nvidia-smi` other than its absence ends the thread. A thread that outlives its case appends to
a list of its own that nobody reads again; it is forgotten at the next `start`. The
benchmark is alone on the service, as its results require.

### LeaseElection and WorkloadController

`pc[c]` follows a replica through `is_leader`:

    asleep -> asking -> creating  -+-> leading -> asleep     (its turn)
                  |  \-> replacing -+-> asleep               (refused, or failed)
                  \-> asleep                                  (another's valid Lease)

`Ask` notes `now`; `elapsed[c]` is the time since then, and `age` the time since
the Lease's `renew_time`. A write sets `renew_time` to the `now` of its caller,
hence `age' = elapsed[c]`. The API server compares resource versions: `fresh[c]`
says that the copy which c has read is still the current one. `Expired` is
evaluated with the clock of another machine, off by at most `ClockSkew`.

In its turn the leader goes through `doing[c]`: `listing`, then for each workload
`getting` and `patching`, or `creating` and `patching`. The election knows nothing
of this: every step of `WorkloadController` is a step of `LeaseNext` or leaves
the Lease alone, which is a lemma of the proofs. Failures are separate actions:
a call without effect (`FailToAsk`, `SkipGet`, `SkipCall`), a call whose answer
is lost (`WinUnknowingly`, `CreateUnknowingly`; a patch whose answer is lost is
`Patch`, since nothing looks at the answer), and a process that ends (`Crash`). An
error of `list_workloads` is a `Crash`: nothing in `run` catches it. A request
that is still under way when its process ends is taken to be done or lost.

A Job is the set of its status counters that are above 0. `JobName` need not be
injective, since names are cut at 50 characters. The code keeps no turn shorter
than the Lease, so `Turn` may be longer; `overrun` remembers that one was.

## 4. What is checked

Passing runs:

| Run | Question | Instance |
|---|---|---|
| `Manager` | Are slots, counters, the limit, the threshold and retirement right in every interleaving, do slots come back, and does the manager implement `AdmissionControl`, liveness included? | 2 chats, 2 streams, 2 probes, limit 2, threshold 2, all three runtimes; 292k states |
| `ApiSafety` | Do answered creations survive, are handlers' changes saved and counts honest, and does round robin rotate? | 2 clients, 4 calls, 2 replicas, 1 kind of report, restarts; a state that is not the router's; symmetric; 3.8M states |
| `Benchmark` | Have refusals and missing TTFTs a cause, do the columns of a case that have one source agree, but for a sample of a slow poll, does the program end? | both programs, 3 requests, cases of 3 and 2 workers against a limit of 2, 1 calibration, 2 samples; 1.2M states |
| `ClusterSerial` | One request at a time: do jobs start in order, do nodes come back empty, is `Placement` implemented, and does reconciliation make the cluster healthy? | 2 nodes of 2 GPUs, jobs of 1 and 2 GPUs with two priorities, 2 failures of all five kinds, handlers that fail; 1.5M states |
| `ClusterConcurrent` | Two operators at once: does a running job have a node and a drained node someone to recover it, and is a job finished by its own worker only? | the same nodes, 2 jobs alike, 1 failure, submissions that interrupt, handlers that fail; symmetric; 4.9M states |
| `RecordsRaces` | Do answers for one key agree and stay recorded, do rows keep up with jobs, and is `JobRegistry` implemented? | 2 clients, 2 jobs, 1 key and the empty string, any number of changes, failed saves and restarts; 1.11M states |
| `ControllerHandover` | Is a leader in time alone, and are outcomes kept and reported? | 2 replicas, 1 workload, a Lease of 2 ticks, turns of up to 2, clocks 1 apart, 1 failure; 114k states |

Runs that must find a violation, each of a statement in the repository:

| Run | Statement | What the code does |
|---|---|---|
| `ManagerDrainUndone` | README.md:164, repeated failures stop the service | a probe that began before the stop sets the stopped service unavailable (inference.py:266), and the manager lets requests in again (line 284); the API's gate (api.py:276) goes on refusing them while the state is not `ready` |
| `ClusterOvercommit` | README.md:213, a node with sufficient free GPUs | running jobs leave their GPUs free (models.py:54) |
| `ClusterLifecycle` | architecture.md:127, cancelled is final | the worker's exit overwrites it (api.py:135); so do a checkpoint (api.py:152) and a cancellation of a finished job |
| `ClusterRequeue` | README.md:227, requeues the workload | `requeued` is a state that the scheduler does not collect (scheduler.py:9) |
| `RecordsTwoJobs` | persistence.py:26, used for idempotency | the loser of a race is refused by the table after its job was submitted (api.py:109) |

Noted without a run:

* A plan is made once, so the second incident of one memory failure drains a node
  that the first one has already recovered (agent.py:26).
* A job that is submitted while the agent goes through the jobs of a node ends the
  remediation with a RuntimeError (agent.py:30): the node stays draining, some of its
  jobs requeued, until somebody reconciles again.
* README.md:162-163 says that a failed health check removes the replicas from
  routing; a call of `/route` that reports a replica ready puts it back
  (api.py:250), and it is chosen.
* README.md:424-425 speaks of a success rate. A stream that the service refuses or
  ends with an error event has status 200, and `parse_sse` counts it as a success
  (inference_benchmark.py:68-86).
* A replica is charged twice and the next one passed over when two requests are between
  the selection and the increment of the round-robin index (routing.py:76-98).
* With two callers a job may be placed on a node that was drained after it was chosen,
  or placed twice, on two nodes (scheduler.py:10-14); both reconciles have the job in
  their snapshots.
* When `execute_job` replaces an exited worker between the poll and the pop of another
  handler, that handler takes the live worker from the registry and marks the job failed
  (api.py:129-135); nobody polls that worker again.
* The columns of a benchmark's report may be means over different numbers of samples,
  and the report does not say so (inference_benchmark_gpu_fixed.py:234-240).
* `ClusterHeals` is about one client at a time. Two operators who reconcile at
  the same time can go on draining each other's recovered nodes.

In `ClusterRequeue` the counterexample is fair: the only client finishes every
handler and keeps reconciling while there are findings, and there are none.

Why these bounds are enough. Two is the least number for every race here: two
threads for one lock, two operators for one node, two calls for one key. A limit
and a threshold of two let the counter be below, at and (in a mutant) above
them, and four requests overshoot both. Two GPUs for each node give one failure
two incidents, which is what makes a plan stale; two nodes give the scheduler a
choice. Jobs of one and two GPUs make one fit where the other does not. A failure
is drained, recovered and found again within the bound of two. In the modules of
the manager, the cluster and the records nothing is bounded but `MaxFaults` and the
numbers of requests, probes, jobs and ids. `Failing` has the steps at
which a handler may fail: all in the passing runs; none in those that look for a
counterexample, which shows what happens without. The deployment has two controllers (deploy/controller.yaml). A
turn of two ticks against a Lease of two with a skew of one is in time after one
tick and late after two, so that leaders overlap in the run; one failure is
enough for a holder that is dead, a Lease won unknowingly and a phase never set.
`MaxErrors` bounds the controllers' failures, and `Turn` is a bound in the run and no assumption in
the proofs.

In `ApiSafety` four calls are a creation, and three that race it or one another:
a save that is overtaken takes two, a third gives it something to lose, and a
rotation takes two choices, with a third call to disturb them. Two replicas make two sizes of
the ready set. In `Benchmark` three workers overshoot the limit of two, and the
second case, with two, is refused only on account of a slot left over from the
first or from the calibration. The bounds of these two modules are
`MaxCalls` and `MaxSamples`; the numbers of requests, cases and calibrations are
parameters of the programs.

Deadlock checking is on in every run but `Benchmark`, whose program ends.

### Fairness

* `InferenceManager`: weak fairness of each thread that has started
  (`Proceed(r)`) and of each probe. The pool schedules its threads, and the
  runtime's calls time out (120 s). That a client reads its stream or goes away
  is the server's connection handling. No fairness for making requests or stopping.
* `GpuControlPlane`: weak fairness of each handler that has started, and strong
  fairness of `Plan` for operators: the operators keep calling
  `/agent/reconcile`. They may be busy with other requests again and again, which
  is why it is strong. Nobody has to submit, execute or cancel.
* `JobRecords` and `InferenceApi` have safety properties only.
* `InferenceBenchmark`: weak fairness of each request (its worker is scheduled,
  and it ends or runs into the timeout of 180 s), of the main thread, and of the
  sampler but for a poll that is slow: a poll that is not slow ends within the two
  seconds of the join, which is what slow means, and the join has a timeout for those
  that are. None for slow polls, whose endpoints may hang, and none for the return of
  orphaned slots.
* `WorkloadController`: weak fairness of each step of a replica's turn (the calls
  return or fail), of waking up (`time.sleep(interval)`) and of time. Users and Kubernetes
  owe nothing: `OutcomeIsReported` is about a Job that has succeeded.

`ClusterHeals` takes more than one round for temperature: a hot node is drained
and not recovered (agent.py:36); the next plan has its state and its temperature,
so it is recovered and drained again; the third recovers it.

## 5. What is proved

All theorems are for every value of the constants that the named assumptions
allow: any finite set of requests, jobs or probes, any limit above zero, any
cluster, any number of concurrent clients, any ids and keys. The exceptions are
the theorems of `GpuControlPlaneSerialProofs`: they assume that there is one
client, because their statements are false for two, who act between the choice of a
node and the placement. One client may be any sequence of requests of every kind.

| Theorem | Statement | Argument |
|---|---|---|
| `TypeCorrect` | `Safety => []TypeOK` | inductive as it stands: the clamp of `Release` keeps the counter natural |
| `SlotsAlwaysExact`, `ConcurrencyBounded` | the slot counter is exact and bounded | `SlotInvariant`: types, exactness and `inFlight <= MaxConcurrent`. The bound on requests is not inductive alone, since `Acquire` tests the counter. `GotoCounts` says what one thread's move does to the number of requests at any set of phases |
| `CountersAlwaysBalance` | exported counters equal the requests behind them | the three equations with the types, again by `GotoCounts` |
| `ThresholdIsHonoured` | at the threshold a service at rest is stopped | with `MockNeverFails`. `ThresholdStops` leaves out the runtime without an endpoint, whose probes answer late: for it the statement is false, run `ManagerDrainUndone` |
| `RetirementHolds` | a stopped and quiet service stays so | an action property, from the types |
| `SafelyImplementsAdmission` | `Safety => Admission!Safety` | every step is a step or a stutter of `AdmissionControl`; `SlotInvariant` lets the test of the counter stand for the test of the set |
| `ClusterTypeCorrect` | types | with `NotesFit`: a handler in `requeue` has a node |
| `RunningHasNodeAlways` | a running job has a node | with `ChosenIsNode`: a handler about to place has chosen a node |
| `DrainingIsAlwaysRemediated` | a draining node has a reconcile that will recover it | with `NothingHot`; who is interrupted while it remediates leaves the node in `abandoned`, and who drains it again takes it out; assumes that no temperature failure is injected, since a hot node is left draining on purpose |
| `FinishedByItsWorkerAlways` | a job is finished by taking its worker from the registry, and succeeds only by that worker's exit | an action property, from the types: only `Pop` marks a job so, with the worker that it finds there and not the one that was polled |
| `StartsInOrderAlone`, `ComesBackEmptyAlone` | for one client: jobs start in order; nodes come back empty | `SerialInvariant`: between `Choose` and `Place` the node chosen is still one that fits; the jobs passed over before still fit nowhere, which a placement cannot change because memory failures fill all GPUs of a node or none (`AllOrNone`): a node with room has none over the threshold, and placing a job there changes nothing; a node in remediation stays closed |
| `PlacementIsImplemented` | for one client: `Safety => ImplementsPlacement` | `PlacementStep`: each action is a step of `Placement` or a stutter, by `SerialInvariant` and by what only `Place`, `RequeueAffected` and `Recover` change |
| `SameAnswerAlways`, `AnsweredAlwaysRecorded` | one key, one job; answered jobs stay recorded | `RecordInvariant`: handlers are about created jobs with the key they were called with, rows have distinct keys, answers are rows |
| `RecordsTypeCorrect` | types | a part of `RecordInvariant` |
| `RegistryIsImplemented` | `Safety => ImplementsRegistry` | `RegistryStep`: lookups tell, a commit registers or tells, all else stutters; that a new row is free of its key is the unique constraint, that no row goes or is renamed is `RecordInvariant` |
| `RowsAlwaysKeepUp` | a row lags only for a reason | `SavesAreDue`: a job that nothing came between has one handler at most, who has read what it is about to save and will save it |
| `ApiTypeCorrect` | types | with `Picked`: a handler about to charge a replica has picked one |
| `CreatedAlwaysSurvives` | an answered creation survives | `NamesExisting`: handlers work for services that exist, a save under way has read one that does, and what is in the tables is known to the process |
| `CountsAreNeverInvented` | no count exceeds the choices made | `CountsInvariant`: the same bound for every copy that a save has read; `made` only grows |
| `QuietIsSaved` | the table is current when all are done | `SavingInvariant`: while the table is behind and nothing is lost, some handler is on its way to a save of the present state. A router that does not know the service is about to be told by a creation, which saves |
| `RoundRobinAlwaysRotates` | the next choice is of the next replica | `RotationInvariant`: the last choice is the one that the index counts last, and a selection under way is the one that its index stands for. `NextTurn` is about remainders, `SuccessorIsNext` about ranks in a set of numbers |
| `BenchmarkTypeCorrect` | types | inductive as it stands |
| `RefusalsAreAlwaysExplained` | refusals have a cause | `RefusalInvariant`: orphans come from clients that broke off, and requests under way are no more than the workers. A full service without orphans is full of other requests of the case (`FullMeansCrowded`) |
| `MissingTtftIsAlwaysExplained` | so do missing TTFTs | `MissingInvariant`: requests that are `answered`, done or not, are no more than those refused or silent; `NoteCounts` says what one result adds |
| `ColumnsAlwaysAgree` | columns are of the same samples | `ColumnsInvariant`: samples have all the keys of a source or none; while the case is summed up the thread has ended or is in a slow poll, and each column is pending or a summary of the list, less one sample at most |
| `LeadersInTimeAreAlwaysAlone` | leaders in time are alone | `LeaseInvariant`: a leader in time holds a Lease as old as its turn; who is about to replace the current Lease holds it or has seen it expired, which stays true while both age |
| `OutcomeIsAlwaysKept`, `ControllerTypeCorrect` | outcomes are kept while no turn overruns; types | `OutcomeInvariant`: a phase claims no more than its Job shows, and a patch under way claims no less than the phase, since nobody else patches meanwhile |

The controllers' theorems assume clocks that differ by no more than the Lease.

Only model-checked:

* liveness: `SlotsAreReturned`, `ClusterHeals`, `RequeuedIsQueued`, `OutcomeIsReported`,
  `BenchmarkEnds`, and the liveness part of `ImplementsAdmission` (the prover has no ENABLED).

## 6. What is not modelled

Real mode of the cluster (`nvidia-smi`), authentication beyond the operator's
role, the Slurm and Kubernetes adapters, the agentic planner, the dashboard and the
deployment files: input and output. The routing benchmark and the reliability
experiment are sequential programs, each alone with objects of its own; their calls are
behaviours of `Routing` and of `GpuControlPlane` with one client. The reliability
controller cordons nodes and keeps no state. Incidents, checkpoints and audit events
are written and never read.

## 7. Plan

In this order; 1 to 6 are written, each with the abstract specification that its
part implements where it has one:

1. `AdmissionControl`, `InferenceManager` and their proofs.
2. `Placement`, `GpuControlPlane` and their proofs.
3. `JobRegistry`, `JobRecords` and their proofs.
4. `LeaseElection`, `WorkloadController` and their proofs.
5. `Routing`, `InferenceApi` and their proofs.
6. `TelemetrySampler`, `InferenceBenchmark` and their proofs.
7. `InferenceApi` over the detailed `InferenceManager` instead of the three outcomes
   of a chat, with the refinement between the two.
8. `GpuControlPlane` composed with `JobRecords`.
