--------------------------- MODULE GpuControlPlane ---------------------------
(***************************************************************************)
(* The simulated cluster, the scheduler, the validator and the AIOps agent *)
(* (app/cluster.py, scheduler.py, validator.py, agent.py) behind the job   *)
(* and failure handlers of app/api.py.                                     *)
(*                                                                         *)
(* All of them share unlocked Python objects.  Each client makes one       *)
(* request at a time, and its handler runs in a thread that can lose the   *)
(* processor at a call: scheduler.reconcile takes the queued jobs in one   *)
(* step, looks for a node for each in another and places it in a third.    *)
(*                                                                         *)
(* Simulated GPUs have so much memory that a placed job's 2048 MB leave    *)
(* them below 90%, so a GPU is either over the threshold or not.  Retry    *)
(* counts, checkpoints and incident texts are left out: nothing reads them *)
(* to decide, max_retries included.                                        *)
(***************************************************************************)
EXTENDS Naturals, FiniteSets

CONSTANTS
    NodeCount,      \* nodes, numbered in the order in which they were seeded
    GpuCount,       \* GPUs of each node, numbered in the order of node.gpus
    Job,            \* the jobs that clients may submit
    NoJob,          \* not one of them
    Need,           \* Need[j]: gpu_count of job j
    Priority,       \* Priority[j]: its priority
    Client,         \* the callers of the API
    Operator,       \* those with the role for failures and remediation
    Faults,         \* the kinds of failure that are injected
    MaxFaults,      \* bound: how many failures are injected
    Failing         \* the steps at which a call of the handler may raise

Node == 1..NodeCount
Gpu  == 1..GpuCount
NoNode == 0
FaultKind == {"node_unhealthy", "memory_high", "memory_low", "temperature_high",
              "temperature_low"}

ASSUME SizeAssumption == NodeCount \in Nat \ {0} /\ GpuCount \in Nat \ {0}
ASSUME JobAssumption ==
    IsFiniteSet(Job) /\ NoJob \notin Job /\ Need \in [Job -> Nat \ {0}] /\ Priority \in [Job -> Nat]
ASSUME ClientAssumption == Operator \subseteq Client
ASSUME FaultAssumption ==
    /\ Faults \subseteq FaultKind /\ MaxFaults \in Nat
    /\ Failing \subseteq {"launching", "releasing", "checkpointing", "preempting", "requeued"}

VARIABLES
    nodeState,  \* nodeState[n]: node.state
    over,       \* over[n]: the GPUs of n above 90% of their memory
    hot,        \* hot[n]: whether the GPUs of n are at 85 C or more
    arrival,    \* arrival[j]: j's place in scheduler.jobs, 0 when not submitted
    jobState,   \* jobState[j]: job.state
    jobNode,    \* jobNode[j]: job.node_id
    proc,       \* proc[j]: j's worker process in the processes registry
    pc,         \* pc[c]: where the handler that client c waits for is
    subject,    \* subject[c]: the job that this handler is about
    queue,      \* queue[c]: the rest of its snapshot of the queued jobs
    place,      \* place[c]: the node that it has chosen, or remediates
    plan,       \* plan[c]: the incidents that it has yet to remediate
    faults,     \* how many failures have been injected
    abandoned   \* history: the nodes that a reconcile was interrupted at
                \* draining, and that none has drained since

nodeVars == <<nodeState, over, hot>>
jobVars  == <<arrival, jobState, jobNode, proc>>
callVars == <<pc, subject, queue, place, plan>>
vars     == <<nodeVars, jobVars, callVars, faults, abandoned>>

JobState == {"queued", "running", "checkpointing", "preempting", "requeued",
             "succeeded", "failed", "cancelled"}
\* A worker in the registry, and whether poll() has returned its exit.
Worker == {"none", "started", "exited"}
\* An incident is about the node (gpu = 0) or about one of its GPUs.
Incident == [node : Node, gpu : 0..GpuCount, check : {"node_state", "memory", "temperature"}]
Step ==
    { "idle",
      "snapshot", "choose", "place",                  \* scheduler.reconcile
      "launching",                                    \* execute_job
      "popping", "releasing",                         \* refresh_processes
      "checkpointing", "preempting", "requeued",      \* checkpoint_job
      "drain", "requeue", "recover" }                 \* agent.reconcile

TypeOK ==
    /\ nodeState \in [Node -> {"ready", "draining", "unhealthy"}]
    /\ over \in [Node -> SUBSET Gpu]
    /\ hot \in [Node -> BOOLEAN]
    /\ arrival \in [Job -> Nat]
    /\ jobState \in [Job -> JobState]
    /\ jobNode \in [Job -> Node \cup {NoNode}]
    /\ proc \in [Job -> Worker]
    /\ pc \in [Client -> Step]
    /\ subject \in [Client -> Job \cup {NoJob}]
    /\ queue \in [Client -> SUBSET Job]
    /\ place \in [Client -> Node \cup {NoNode}]
    /\ plan \in [Client -> SUBSET Incident]
    /\ faults \in 0..MaxFaults
    /\ abandoned \subseteq Node

\* Cluster._seed: every node ready and unloaded; no job yet.
Init ==
    /\ nodeState = [n \in Node |-> "ready"]
    /\ over = [n \in Node |-> {}]
    /\ hot = [n \in Node |-> FALSE]
    /\ arrival = [j \in Job |-> 0]
    /\ jobState = [j \in Job |-> "queued"]
    /\ jobNode = [j \in Job |-> NoNode]
    /\ proc = [j \in Job |-> "none"]
    /\ pc = [c \in Client |-> "idle"]
    /\ subject = [c \in Client |-> NoJob]
    /\ queue = [c \in Client |-> {}]
    /\ place = [c \in Client |-> NoNode]
    /\ plan = [c \in Client |-> {}]
    /\ faults = 0
    /\ abandoned = {}

Submitted == {j \in Job : arrival[j] > 0}
FreeGpus(n) == GpuCount - Cardinality(over[n])      \* Node.free_gpus
goto(c, step) == pc' = [pc EXCEPT ![c] = step]

-----------------------------------------------------------------------------
(* scheduler.reconcile, called by four handlers *)

\* The order of the queue: by priority, then by creation.
Before(j, k) ==
    \/ Priority[j] > Priority[k]
    \/ Priority[j] = Priority[k] /\ arrival[j] < arrival[k]

\* Deliberately wrong: the lowest priority goes first.
IsFirstReversed(j, S) ==
    \A k \in S \ {j} :
        Priority[j] < Priority[k] \/ (Priority[j] = Priority[k] /\ arrival[j] < arrival[k])

IsFirst(j, S) == \A k \in S \ {j} : Before(j, k)

\* Deliberately wrong: jobs that run already are placed once more.
SnapshotUnfinished(c) ==
    /\ pc[c] = "snapshot"
    /\ queue' = [queue EXCEPT ![c] = {j \in Submitted : jobState[j] \in {"queued", "running"}}]
    /\ goto(c, "choose")
    /\ UNCHANGED <<nodeVars, jobVars, subject, place, plan, faults, abandoned>>

\* The queued jobs are collected and sorted, once.
Snapshot(c) ==
    /\ pc[c] = "snapshot"
    /\ queue' = [queue EXCEPT ![c] = {j \in Submitted : jobState[j] = "queued"}]
    /\ goto(c, "choose")
    /\ UNCHANGED <<nodeVars, jobVars, subject, place, plan, faults, abandoned>>

\* Ready nodes with enough free GPUs.  The GPUs of running jobs are free too.
Candidates(j) == {n \in Node : nodeState[n] = "ready" /\ FreeGpus(n) >= Need[j]}

\* max() returns the first of the nodes with the most free GPUs.
IsRoomiest(n, nodes) ==
    \A m \in nodes \ {n} :
        FreeGpus(n) > FreeGpus(m) \/ (FreeGpus(n) = FreeGpus(m) /\ n < m)

\* The next job of the snapshot, whatever has become of it since, gets a node
\* if there is one; otherwise the loop goes on with the next job.
Choose(c) ==
    /\ pc[c] = "choose"
    /\ \E j \in queue[c] :
         /\ IsFirst(j, queue[c])
         /\ queue' = [queue EXCEPT ![c] = @ \ {j}]
         /\ \/ Candidates(j) = {} /\ UNCHANGED <<pc, subject, place>>
            \/ \E n \in Candidates(j) :
                 /\ IsRoomiest(n, Candidates(j))
                 /\ subject' = [subject EXCEPT ![c] = j]
                 /\ place' = [place EXCEPT ![c] = n]
                 /\ goto(c, "place")
    /\ UNCHANGED <<nodeVars, jobVars, plan, faults, abandoned>>

\* The job is marked running and its first GPUs get the memory of a job,
\* which is less than the threshold.
Place(c) ==
    /\ pc[c] = "place"
    /\ jobState' = [jobState EXCEPT ![subject[c]] = "running"]
    /\ jobNode' = [jobNode EXCEPT ![subject[c]] = place[c]]
    /\ over' = [over EXCEPT ![place[c]] = {g \in @ : g > Need[subject[c]]}]
    /\ goto(c, "choose")
    /\ UNCHANGED <<nodeState, hot, arrival, proc, subject, queue, place, plan, faults, abandoned>>

\* The loop is over: the agent has incidents left, or the handler returns.
Return(c) ==
    /\ pc[c] = "choose"
    /\ queue[c] = {}
    /\ goto(c, IF plan[c] = {} THEN "idle" ELSE "drain")
    /\ subject' = [subject EXCEPT ![c] = NoJob]
    /\ place' = [place EXCEPT ![c] = NoNode]
    /\ UNCHANGED <<nodeVars, jobVars, queue, plan, faults, abandoned>>

-----------------------------------------------------------------------------
(* Jobs *)

\* create_job: scheduler.submit, up to its call of reconcile.
Submit(c, j) ==
    /\ pc[c] = "idle"
    /\ arrival[j] = 0
    /\ arrival' = [arrival EXCEPT ![j] = Cardinality(Submitted) + 1]
    /\ goto(c, "snapshot")
    /\ UNCHANGED <<nodeVars, jobState, jobNode, proc, subject, queue, place, plan, faults, abandoned>>

\* execute_job: a running job is about to get a worker, unless it has one that
\* poll() does not find exited ...
Execute(c, j) ==
    /\ pc[c] = "idle"
    /\ j \in Submitted
    /\ jobState[j] = "running"
    /\ proc' = [proc EXCEPT ![j] = IF @ = "none" THEN "none" ELSE "exited"]
    /\ subject' = [subject EXCEPT ![c] = j]
    /\ goto(c, "launching")
    /\ UNCHANGED <<nodeVars, arrival, jobState, jobNode, queue, place, plan, faults, abandoned>>

\* ... whatever has become of it when Popen returns.  The registry forgets the
\* worker that it held, be it exited or started by a concurrent call.
Launch(c) ==
    /\ pc[c] = "launching"
    /\ proc' = [proc EXCEPT ![subject[c]] = "started"]
    /\ subject' = [subject EXCEPT ![c] = NoJob]
    /\ goto(c, "idle")
    /\ UNCHANGED <<nodeVars, arrival, jobState, jobNode, queue, place, plan, faults, abandoned>>

\* refresh_processes finds that a worker has exited ...
Poll(c, j) ==
    /\ pc[c] = "idle"
    /\ proc[j] # "none"
    /\ proc' = [proc EXCEPT ![j] = "exited"]
    /\ subject' = [subject EXCEPT ![c] = j]
    /\ goto(c, "popping")
    /\ UNCHANGED <<nodeVars, arrival, jobState, jobNode, queue, place, plan, faults, abandoned>>

\* Deliberately wrong: the exit code is that of the worker that was polled.
ExitStatesPolled(worker) == {"succeeded", "failed"}

\* The state that a job gets for its worker's returncode, which is None, and
\* not 0, as long as nobody has polled the worker after its exit.
ExitStates(worker) == IF worker = "exited" THEN {"succeeded", "failed"} ELSE {"failed"}

\* ... and takes from the registry the worker that is there now: none, when
\* another handler was faster, or the one that has replaced it since.  The job
\* takes the state of that worker's exit code, whatever its state was.
Pop(c) ==
    /\ pc[c] = "popping"
    /\ \/ /\ proc[subject[c]] = "none"
          /\ subject' = [subject EXCEPT ![c] = NoJob]
          /\ goto(c, "idle")
          /\ UNCHANGED <<proc, jobState>>
       \/ /\ proc[subject[c]] # "none"
          /\ proc' = [proc EXCEPT ![subject[c]] = "none"]
          /\ \E state \in ExitStates(proc[subject[c]]) :
                jobState' = [jobState EXCEPT ![subject[c]] = state]
          /\ goto(c, "releasing")
          /\ UNCHANGED subject
    /\ UNCHANGED <<nodeVars, arrival, jobNode, queue, place, plan, faults, abandoned>>

\* Every GPU of the job's node is set to no memory used, whoever uses it.
Free(j) ==
    over' = IF jobNode[j] = NoNode THEN over ELSE [over EXCEPT ![jobNode[j]] = {}]

\* scheduler.release, up to its call of reconcile.
Release(c) ==
    /\ pc[c] = "releasing"
    /\ Free(subject[c])
    /\ goto(c, "snapshot")
    /\ UNCHANGED <<nodeState, hot, jobVars, subject, queue, place, plan, faults, abandoned>>

\* cancel_job: from any state; the worker, if any, goes on.
Cancel(c, j) ==
    /\ pc[c] = "idle"
    /\ j \in Submitted
    /\ jobState' = [jobState EXCEPT ![j] = "cancelled"]
    /\ Free(j)
    /\ UNCHANGED <<nodeState, hot, arrival, jobNode, proc, callVars, faults, abandoned>>

\* checkpoint_job, from any state: each state is saved before the next is set.
Checkpoint(c, j) ==
    /\ pc[c] = "idle"
    /\ j \in Submitted
    /\ jobState' = [jobState EXCEPT ![j] = "checkpointing"]
    /\ subject' = [subject EXCEPT ![c] = j]
    /\ goto(c, "checkpointing")
    /\ UNCHANGED <<nodeVars, arrival, jobNode, proc, queue, place, plan, faults, abandoned>>

\* Deliberately wrong: a state that is not one of JobState.
CheckpointMisspelt(c) ==
    /\ pc[c] = "checkpointing"
    /\ jobState' = [jobState EXCEPT ![subject[c]] = "preempted"]
    /\ goto(c, "preempting")
    /\ UNCHANGED <<nodeVars, arrival, jobNode, proc, subject, queue, place, plan, faults, abandoned>>

CheckpointOn(c) ==
    /\ \/ /\ pc[c] = "checkpointing"
          /\ jobState' = [jobState EXCEPT ![subject[c]] = "preempting"]
          /\ goto(c, "preempting")
       \/ /\ pc[c] = "preempting"
          /\ jobState' = [jobState EXCEPT ![subject[c]] = "requeued"]
          /\ goto(c, "requeued")
       \/ /\ pc[c] = "requeued"
          /\ jobState' = [jobState EXCEPT ![subject[c]] = "queued"]
          /\ goto(c, "snapshot")
    /\ UNCHANGED <<nodeVars, arrival, jobNode, proc, subject, queue, place, plan, faults, abandoned>>

\* Popen, or a save to the database between two steps, raises: what the
\* handler has done so far stays done.
HandlerFails(c) ==
    /\ pc[c] \in Failing
    /\ subject' = [subject EXCEPT ![c] = NoJob]
    /\ goto(c, "idle")
    /\ UNCHANGED <<nodeVars, jobVars, queue, place, plan, faults, abandoned>>

-----------------------------------------------------------------------------
(* Failures and remediation *)

\* inject: a node state, or one reading for every GPU of the node.
Inject(c, n, kind) ==
    /\ pc[c] = "idle"
    /\ faults < MaxFaults
    /\ faults' = faults + 1
    /\ nodeState' = IF kind = "node_unhealthy"
                      THEN [nodeState EXCEPT ![n] = "unhealthy"] ELSE nodeState
    /\ over' = CASE kind = "memory_high" -> [over EXCEPT ![n] = Gpu]
                 [] kind = "memory_low"  -> [over EXCEPT ![n] = {}]
                 [] OTHER                -> over
    /\ hot' = CASE kind = "temperature_high" -> [hot EXCEPT ![n] = TRUE]
                [] kind = "temperature_low"  -> [hot EXCEPT ![n] = FALSE]
                [] OTHER                     -> hot
    /\ UNCHANGED <<jobVars, callVars, abandoned>>

\* Validator.validate: what is wrong now, one incident for each finding.
Findings ==
    { i \in Incident :
        \/ i.check = "node_state"  /\ i.gpu = 0 /\ nodeState[i.node] # "ready"
        \/ i.check = "memory"      /\ i.gpu \in over[i.node]
        \/ i.check = "temperature" /\ i.gpu > 0 /\ hot[i.node] }

\* The order of the findings: by node, then by GPU, memory first.
Earlier(a, b) ==
    \/ a.node < b.node
    \/ a.node = b.node /\ a.gpu < b.gpu
    \/ a.node = b.node /\ a.gpu = b.gpu /\ a.check = "memory" /\ b.check = "temperature"

IsNext(i, S) == \A k \in S \ {i} : Earlier(i, k)

\* agent.reconcile: the plan is made once, before anything is remediated.
Plan(c) ==
    /\ pc[c] = "idle"
    /\ Findings # {}
    /\ plan' = [plan EXCEPT ![c] = Findings]
    /\ goto(c, "drain")
    /\ UNCHANGED <<nodeVars, jobVars, subject, queue, place, faults, abandoned>>

\* The node of the next incident is drained, whether or not the incident still
\* holds.  A hot node is left at that; otherwise its jobs come next.
Drain(c) ==
    /\ pc[c] = "drain"
    /\ \E i \in plan[c] :
         /\ IsNext(i, plan[c])
         /\ plan' = [plan EXCEPT ![c] = @ \ {i}]
         /\ nodeState' = [nodeState EXCEPT ![i.node] = "draining"]
         /\ abandoned' = abandoned \ {i.node}
         /\ IF i.check = "temperature"
              THEN /\ goto(c, IF plan[c] = {i} THEN "idle" ELSE "drain")
                   /\ UNCHANGED place
              ELSE /\ goto(c, "requeue")
                   /\ place' = [place EXCEPT ![c] = i.node]
    /\ UNCHANGED <<over, hot, jobVars, subject, queue, faults>>

\* Deliberately wrong: a node without running jobs is not recovered.
RequeueOrSkip(c) ==
    /\ pc[c] = "requeue"
    /\ goto(c, IF \E j \in Submitted : jobState[j] = "running" /\ jobNode[j] = place[c]
                 THEN "recover" ELSE "snapshot")
    /\ UNCHANGED <<nodeVars, jobVars, subject, queue, place, plan, faults, abandoned>>

\* Deliberately wrong: the jobs lose their node and are still running.
RequeueHalf(c) ==
    /\ pc[c] = "requeue"
    /\ jobNode' = [j \in Job |-> IF jobNode[j] = place[c] THEN NoNode ELSE jobNode[j]]
    /\ goto(c, "recover")
    /\ UNCHANGED <<nodeVars, arrival, jobState, proc, subject, queue, place, plan, faults, abandoned>>

\* Deliberately wrong: the jobs stay where they are.
RequeueNone(c) ==
    /\ pc[c] = "requeue"
    /\ goto(c, "recover")
    /\ UNCHANGED <<nodeVars, jobVars, subject, queue, place, plan, faults, abandoned>>

requeue(jobs) ==
    /\ jobState' = [j \in Job |-> IF j \in jobs THEN "requeued" ELSE jobState[j]]
    /\ jobNode' = [j \in Job |-> IF j \in jobs THEN NoNode ELSE jobNode[j]]

\* The running jobs of the node are marked requeued and lose their node.
RequeueAffected(c) ==
    /\ pc[c] = "requeue"
    /\ requeue({j \in Submitted : jobState[j] = "running" /\ jobNode[j] = place[c]})
    /\ goto(c, "recover")
    /\ UNCHANGED <<nodeVars, arrival, proc, subject, queue, place, plan, faults, abandoned>>

\* Deliberately wrong: the temperature is not reset.
RecoverHot(c) ==
    /\ pc[c] = "recover"
    /\ nodeState' = [nodeState EXCEPT ![place[c]] = "ready"]
    /\ over' = [over EXCEPT ![place[c]] = {}]
    /\ goto(c, "snapshot")
    /\ UNCHANGED <<hot, jobVars, subject, queue, place, plan, faults, abandoned>>

\* cluster.recover: the node is ready, its readings are normal.
Recover(c) ==
    /\ pc[c] = "recover"
    /\ nodeState' = [nodeState EXCEPT ![place[c]] = "ready"]
    /\ over' = [over EXCEPT ![place[c]] = {}]
    /\ hot' = [hot EXCEPT ![place[c]] = FALSE]
    /\ goto(c, "snapshot")
    /\ UNCHANGED <<jobVars, subject, queue, place, plan, faults, abandoned>>

-----------------------------------------------------------------------------
(* Loops over scheduler.jobs *)

\* A submission adds a job to the dictionary while the handlers of D are in a
\* loop over it.  Their next iteration raises RuntimeError, which ends them:
\* what the loop has done up to the last job that it has seen stays done.
SubmitInterrupting(c, j, D) ==
    /\ pc[c] = "idle"
    /\ arrival[j] = 0
    /\ D # {} /\ \A d \in D : pc[d] \in {"snapshot", "requeue"}
    /\ \E seen \in [D -> Submitted] :
          requeue({k \in Submitted : jobState[k] = "running" /\
                     \E d \in D : /\ pc[d] = "requeue" /\ place[d] = jobNode[k]
                                 /\ arrival[k] <= arrival[seen[d]]})
    /\ arrival' = [arrival EXCEPT ![j] = Cardinality(Submitted) + 1]
    /\ abandoned' = abandoned \cup {place[d] : d \in {e \in D : pc[e] = "requeue"}}
    /\ pc' = [d \in Client |-> IF d = c THEN "snapshot" ELSE IF d \in D THEN "idle" ELSE pc[d]]
    /\ subject' = [d \in Client |-> IF d \in D THEN NoJob ELSE subject[d]]
    /\ place' = [d \in Client |-> IF d \in D THEN NoNode ELSE place[d]]
    /\ plan' = [d \in Client |-> IF d \in D THEN {} ELSE plan[d]]
    /\ UNCHANGED <<nodeVars, proc, queue, faults>>

-----------------------------------------------------------------------------
\* The handler that client c waits for takes a step.
Work(c) ==
    \/ Snapshot(c) \/ Choose(c) \/ Place(c) \/ Return(c)
    \/ Launch(c) \/ Pop(c) \/ Release(c) \/ CheckpointOn(c)
    \/ Drain(c) \/ RequeueAffected(c) \/ Recover(c)

\* Any client submits and, by looking at the cluster, polls workers; the rest
\* needs the operator's role (require_role).
Request(c) ==
    \/ \E j \in Job : Submit(c, j) \/ Poll(c, j)
    \/ /\ c \in Operator
       /\ \/ \E j \in Job : Execute(c, j) \/ Cancel(c, j) \/ Checkpoint(c, j)
          \/ \E n \in Node, kind \in Faults : Inject(c, n, kind)
          \/ Plan(c)

Next ==
    \E c \in Client :
        \/ Work(c) \/ Request(c) \/ HandlerFails(c)
        \/ \E j \in Job, D \in SUBSET Client : SubmitInterrupting(c, j, D)

Safety == Init /\ [][Next]_vars

\* Handlers that have started are scheduled, and the operators keep asking for
\* reconciliation while there are findings; no one must make other requests.
Spec ==
    /\ Safety
    /\ \A c \in Client : WF_vars(Work(c))
    /\ \A c \in Operator : SF_vars(Plan(c))

-----------------------------------------------------------------------------
(* Properties *)

\* A running job is on a node, however the handlers interleave: losing the
\* node and the state are one step of the agent, gaining them one of the
\* scheduler.
RunningHasNode == \A j \in Job : jobState[j] = "running" => jobNode[j] \in Node

Started(j) == jobState[j] # "running" /\ jobState'[j] = "running"

\* No job starts while one before it in the queue would have fit somewhere.
StartsInOrder ==
    [][\A j, k \in Job :
          (Started(j) /\ k \in Submitted /\ jobState[k] = "queued" /\ Before(k, j))
             => Candidates(k) = {}]_vars

\* A node that was taken out of service comes back empty: whatever ran on it
\* when the remediation began has lost its place before the node is ready.
ComesBackEmpty ==
    [][\A n \in Node : (nodeState[n] # "ready" /\ nodeState'[n] = "ready") =>
          \A j \in Job : ~ (jobState[j] = "running" /\ jobNode[j] = n)]_vars

\* When failures are not about temperature, a draining node is one that some
\* reconcile has drained and has yet to recover, also when two of them work on
\* the same node: none is left out of service behind their backs, unless the
\* last one that drained it was interrupted there.
DrainingIsRemediated ==
    \A n \in Node \ abandoned : nodeState[n] = "draining" =>
        \E c \in Client : pc[c] \in {"requeue", "recover"} /\ place[c] = n

Becomes(j, state) == jobState[j] # state /\ jobState'[j] = state

\* A job is finished by taking a worker of its own from the registry, once for
\* each worker that handlers saw exit, and it has succeeded only if that very
\* worker has exited: not when an exited one was replaced since it was polled.
FinishedByItsWorker ==
    [][\A j \in Job :
          /\ Becomes(j, "succeeded") => proc[j] = "exited" /\ proc'[j] = "none"
          /\ Becomes(j, "failed") => proc[j] # "none" /\ proc'[j] = "none"]_vars

\* The nodes that take jobs, and where jobs run.
hostOf(j) == IF jobState[j] = "running" THEN jobNode[j] ELSE NoNode
Assignment ==
    INSTANCE Placement WITH
        open <- {n \in Node : nodeState[n] = "ready"},
        host <- [j \in Job |-> hostOf(j)]

\* For one caller at a time the scheduler, the agent and the handlers, step by
\* step, are a placement of jobs: no job starts on a closed node or moves from
\* one node to another, and no node opens or is half emptied with jobs on it.
ImplementsPlacement == Assignment!Spec

HealthyCluster == Findings = {}

\* Once failures stop coming, reconciliation makes the cluster healthy and it
\* stays so.  A hot node needs three rounds: drained for its temperature,
\* recovered for its state and drained again for the stale temperature
\* finding, and recovered at last.
ClusterHeals == <>[]HealthyCluster

-----------------------------------------------------------------------------
(* What the documents say and the code does not do *)

\* README.md:213: "selects a ready node with sufficient free GPUs": two jobs
\* that run on one node do not need more GPUs than it has.
NoOvercommit ==
    \A j, k \in Job :
        (j # k /\ jobState[j] = "running" /\ jobState[k] = "running"
           /\ jobNode[j] = jobNode[k]) => Need[j] + Need[k] <= GpuCount

\* docs/architecture.md:127-129: succeeded, failed and cancelled are final.
LifecycleEnds ==
    [][\A j \in Job : jobState[j] \in {"succeeded", "failed", "cancelled"} =>
          jobState'[j] = jobState[j]]_vars

\* README.md:227, "requeues the affected workload": a requeued job gets back
\* into the queue, or to some later state.
RequeuedIsQueued ==
    \A j \in Job : jobState[j] = "requeued" ~> jobState[j] # "requeued"
=============================================================================
