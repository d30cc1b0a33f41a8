--------------------- MODULE GpuControlPlaneSerialProofs ---------------------
(***************************************************************************)
(* Theorems about GpuControlPlane with one client, for every cluster and   *)
(* every finite set of jobs.  With several the statements are false: they  *)
(* act between the choice of a node and the placement of the job.          *)
(***************************************************************************)
EXTENDS GpuControlPlaneProofs

\* A GPU's memory is over the threshold when its node has a memory failure.
AllOrNone == \A n \in Node : over[n] \in {{}, Gpu}

RunningIsSubmitted == \A j \in Job : jobState[j] = "running" => arrival[j] > 0

\* What is left of the snapshot still is queued.
QueueIsCurrent(c) ==
    /\ \A j \in queue[c] : arrival[j] > 0 /\ jobState[j] = "queued"
    /\ pc[c] \notin {"choose", "place"} => queue[c] = {}

\* The job that is about to be placed was the first, and its node still fits.
ChosenFits(c) ==
    pc[c] = "place" =>
        /\ subject[c] \in Job \ queue[c]
        /\ arrival[subject[c]] > 0 /\ jobState[subject[c]] = "queued"
        /\ place[c] \in Candidates(subject[c])
        /\ \A k \in queue[c] : Before(subject[c], k)

\* The other queued jobs that are no longer in the snapshot fit nowhere.
PassedOverFitNowhere(c) ==
    pc[c] \in {"choose", "place"} =>
        \A k \in Job \ queue[c] :
            /\ arrival[k] > 0 /\ jobState[k] = "queued"
            /\ pc[c] = "place" => k # subject[c]
            => Candidates(k) = {}

\* A node under remediation is out of service, and empty once it was requeued.
RemediatedIsClosed(c) ==
    /\ pc[c] \in {"requeue", "recover"} => place[c] \in Node /\ nodeState[place[c]] # "ready"
    /\ pc[c] = "recover" =>
          \A j \in Job : ~ (jobState[j] = "running" /\ jobNode[j] = place[c])

SerialInvariant(c) ==
    /\ AllOrNone
    /\ RunningIsSubmitted
    /\ QueueIsCurrent(c)
    /\ ChosenFits(c)
    /\ PassedOverFitNowhere(c)
    /\ RemediatedIsClosed(c)

-----------------------------------------------------------------------------
\* A node on which a job finds room has no GPU over the threshold, so that
\* placing the job leaves its memory as it is.
LEMMA CandidateIsUnloaded ==
  ASSUME AllOrNone, NEW j \in Job, NEW n \in Candidates(j)
  PROVE  n \in Node /\ over[n] = {}
<1>1. n \in Node /\ FreeGpus(n) >= Need[j]
  BY DEF Candidates
<1>2. GpuCount \in Nat /\ Cardinality(Gpu) = GpuCount
  BY SizeAssumption, FS_Interval DEF Gpu
<1>3. Need[j] \in Nat \ {0}
  BY JobAssumption
<1>4. over[n] # Gpu
  BY <1>1, <1>2, <1>3 DEF FreeGpus
<1>. QED  BY <1>1, <1>4 DEF AllOrNone

LEMMA SerialInvariantInit ==
  ASSUME NEW c, Client = {c}
  PROVE  Init => SerialInvariant(c)
  BY DEF Init, SerialInvariant, AllOrNone, RunningIsSubmitted, QueueIsCurrent, ChosenFits,
         PassedOverFitNowhere, RemediatedIsClosed

\* There is nobody to interrupt.
LEMMA NobodyInterrupts ==
  ASSUME NEW c, Client = {c}, NEW j, NEW D \in SUBSET Client, SubmitInterrupting(c, j, D)
  PROVE  FALSE
<1>1. pc[c] = "idle" /\ c \in D /\ pc[c] \in {"snapshot", "requeue"}
  BY DEF SubmitInterrupting
<1>. QED  BY <1>1

\* Where jobs fit depends on the nodes only.
LEMMA CandidatesOfNodes ==
  ASSUME UNCHANGED <<nodeState, over>>, NEW j \in Job
  PROVE  Candidates(j)' = Candidates(j)
  BY DEF Candidates, FreeGpus

LEMMA SerialInvariantStep ==
  ASSUME NEW c, Client = {c}, TypeOK, SerialInvariant(c), [Next]_vars
  PROVE  SerialInvariant(c)'
<1>. USE DEF goto, nodeVars, jobVars, callVars, SerialInvariant
<1>0. /\ nodeState \in [Node -> {"ready", "draining", "unhealthy"}]
      /\ over \in [Node -> SUBSET Gpu] /\ arrival \in [Job -> Nat]
      /\ jobState \in [Job -> JobState] /\ jobNode \in [Job -> Node \cup {NoNode}]
      /\ pc \in [{c} -> Step] /\ subject \in [{c} -> Job \cup {NoJob}]
      /\ queue \in [{c} -> SUBSET Job] /\ place \in [{c} -> Node \cup {NoNode}]
      /\ plan \in [{c} -> SUBSET Incident]
  BY DEF TypeOK
\* Outside of the scheduler and the agent only jobs and memory matter.
<1>1. ASSUME pc'[c] \notin {"choose", "place", "requeue", "recover"}, queue'[c] = {},
             AllOrNone', RunningIsSubmitted'
      PROVE  SerialInvariant(c)'
  BY <1>1 DEF QueueIsCurrent, ChosenFits, PassedOverFitNowhere, RemediatedIsClosed
<1>2. CASE Snapshot(c)
  <2>. USE <1>0, <1>2 DEF Snapshot
  <2>1. AllOrNone' /\ RunningIsSubmitted'
    BY DEF AllOrNone, RunningIsSubmitted
  <2>2. pc'[c] = "choose" /\ queue'[c] = {j \in Job : arrival[j] > 0 /\ jobState[j] = "queued"}
    BY DEF Submitted
  <2>. QED
    BY <2>1, <2>2 DEF QueueIsCurrent, ChosenFits, PassedOverFitNowhere, RemediatedIsClosed
<1>3. CASE Choose(c)
  <2>0. /\ pc[c] = "choose" /\ UNCHANGED <<nodeState, over, arrival, jobState, jobNode>>
        /\ AllOrNone' /\ RunningIsSubmitted'
    BY <1>3 DEF Choose, AllOrNone, RunningIsSubmitted
  <2>1. PICK j \in queue[c] :
          /\ IsFirst(j, queue[c])
          /\ queue' = [queue EXCEPT ![c] = @ \ {j}]
          /\ \/ Candidates(j) = {} /\ UNCHANGED <<pc, subject, place>>
             \/ \E n \in Candidates(j) :
                  /\ subject' = [subject EXCEPT ![c] = j]
                  /\ place' = [place EXCEPT ![c] = n]
                  /\ pc' = [pc EXCEPT ![c] = "place"]
    BY <1>3 DEF Choose
  <2>2. j \in Job /\ queue'[c] = queue[c] \ {j}
    BY <1>0, <2>1
  <2>3. \A k \in Job : Candidates(k)' = Candidates(k)
    BY <2>0, CandidatesOfNodes
  <2>4. CASE Candidates(j) = {} /\ UNCHANGED <<pc, subject, place>>
    BY <2>0, <2>2, <2>3, <2>4
    DEF QueueIsCurrent, ChosenFits, PassedOverFitNowhere, RemediatedIsClosed
  <2>5. CASE \E n \in Candidates(j) :
                  /\ subject' = [subject EXCEPT ![c] = j]
                  /\ place' = [place EXCEPT ![c] = n]
                  /\ pc' = [pc EXCEPT ![c] = "place"]
    <3>1. /\ pc'[c] = "place" /\ subject'[c] = j
          /\ place'[c] \in Candidates(j)
      BY <1>0, <2>5 DEF Candidates
    <3>2. ChosenFits(c)'
      <4>1. \A k \in queue'[c] : Before(j, k)'
        BY <2>0, <2>1, <2>2 DEF IsFirst, Before
      <4>. QED  BY <2>0, <2>1, <2>2, <2>3, <3>1, <4>1 DEF ChosenFits, QueueIsCurrent
    <3>3. PassedOverFitNowhere(c)'
      BY <2>0, <2>2, <2>3, <3>1 DEF PassedOverFitNowhere
    <3>. QED
      BY <2>0, <2>2, <3>1, <3>2, <3>3 DEF QueueIsCurrent, RemediatedIsClosed
  <2>. QED  BY <2>1, <2>4, <2>5
<1>4. CASE Place(c)
  <2>0. /\ pc[c] = "place" /\ pc'[c] = "choose"
        /\ subject[c] \in Job \ queue[c] /\ place[c] \in Candidates(subject[c])
        /\ arrival[subject[c]] > 0
        /\ UNCHANGED <<nodeState, arrival, queue, subject>>
        /\ jobState' = [jobState EXCEPT ![subject[c]] = "running"]
    BY <1>0, <1>4 DEF Place, ChosenFits
  <2>1. UNCHANGED over
    <3>1. place[c] \in Node /\ over[place[c]] = {}
      BY <2>0, CandidateIsUnloaded
    <3>2. over' = [over EXCEPT ![place[c]] = {g \in @ : g > Need[subject[c]]}]
      BY <1>4 DEF Place
    <3>3. {g \in over[place[c]] : g > Need[subject[c]]} = over[place[c]]
      BY <3>1
    <3>. QED  BY <1>0, <3>1, <3>2, <3>3
  <2>2. \A k \in Job : Candidates(k)' = Candidates(k)
    BY <2>0, <2>1, CandidatesOfNodes
  <2>3. AllOrNone' /\ RunningIsSubmitted'
    BY <1>0, <2>0, <2>1 DEF AllOrNone, RunningIsSubmitted
  <2>4. QueueIsCurrent(c)'
    BY <1>0, <2>0 DEF QueueIsCurrent
  <2>5. PassedOverFitNowhere(c)'
    BY <1>0, <2>0, <2>2 DEF PassedOverFitNowhere
  <2>. QED  BY <2>0, <2>3, <2>4, <2>5 DEF ChosenFits, RemediatedIsClosed
<1>5. CASE Return(c)
  BY <1>0, <1>1, <1>5 DEF Return, AllOrNone, RunningIsSubmitted
<1>6. CASE Launch(c) \/ HandlerFails(c)
  BY <1>0, <1>1, <1>6, FaultAssumption DEF Launch, HandlerFails, AllOrNone, RunningIsSubmitted, QueueIsCurrent
<1>7. CASE Release(c)
  <2>1. AllOrNone'
    BY <1>0, <1>7 DEF Release, Free, AllOrNone
  <2>. QED  BY <1>0, <1>1, <1>7, <2>1 DEF Release, RunningIsSubmitted, QueueIsCurrent
<1>8. CASE CheckpointOn(c)
  BY <1>0, <1>1, <1>8 DEF CheckpointOn, AllOrNone, RunningIsSubmitted, QueueIsCurrent
<1>9. CASE Drain(c)
  <2>1. PICK i \in plan[c] :
          /\ nodeState' = [nodeState EXCEPT ![i.node] = "draining"]
          /\ \/ pc'[c] \in {"idle", "drain"} 
             \/ pc'[c] = "requeue" /\ place'[c] = i.node
    BY <1>0, <1>9 DEF Drain
  <2>2. i.node \in Node
    BY <1>0, <2>1 DEF Incident
  <2>3. pc[c] = "drain" /\ UNCHANGED <<over, queue, arrival, jobState, jobNode>>
    BY <1>9 DEF Drain
  <2>. QED
    BY <1>0, <2>1, <2>2, <2>3
    DEF AllOrNone, RunningIsSubmitted, QueueIsCurrent, ChosenFits, PassedOverFitNowhere,
        RemediatedIsClosed
<1>10. CASE RequeueAffected(c)
  <2>1. /\ pc[c] = "requeue" /\ pc'[c] = "recover"
        /\ UNCHANGED <<nodeState, over, queue, arrival, place>>
    BY <1>0, <1>10 DEF RequeueAffected
  <2>2. \A j \in Job : jobState'[j] = "running" =>
           /\ jobState[j] = "running" /\ jobNode'[j] = jobNode[j]
           /\ arrival[j] > 0 => jobNode[j] # place[c]
    BY <1>10 DEF RequeueAffected, requeue, Submitted
  <2>. QED
    BY <2>1, <2>2
    DEF AllOrNone, RunningIsSubmitted, QueueIsCurrent, ChosenFits, PassedOverFitNowhere,
        RemediatedIsClosed
<1>11. CASE Recover(c)
  <2>1. AllOrNone'
    BY <1>0, <1>11 DEF Recover, AllOrNone
  <2>. QED  BY <1>0, <1>1, <1>11, <2>1 DEF Recover, RunningIsSubmitted, QueueIsCurrent
<1>12. ASSUME NEW j \in Job, Submit(c, j)  PROVE SerialInvariant(c)'
  <2>1. RunningIsSubmitted'
    <3>1. arrival' = [arrival EXCEPT ![j] = Cardinality(Submitted) + 1] /\ UNCHANGED jobState
      BY <1>12 DEF Submit
    <3>2. Cardinality(Submitted) + 1 > 0
      <4>1. IsFiniteSet(Submitted)
        BY JobAssumption, FS_Subset DEF Submitted
      <4>. QED  BY <4>1, FS_CardinalityType
    <3>. QED  BY <1>0, <3>1, <3>2 DEF RunningIsSubmitted
  <2>. QED  BY <1>0, <1>1, <1>12, <2>1 DEF Submit, AllOrNone, QueueIsCurrent
<1>13. CASE Pop(c)
  BY <1>0, <1>1, <1>13 DEF Pop, ExitStates, AllOrNone, RunningIsSubmitted, QueueIsCurrent
<1>14. ASSUME NEW j \in Job, Poll(c, j) \/ Execute(c, j)  PROVE SerialInvariant(c)'
  BY <1>0, <1>1, <1>14 DEF Poll, Execute, AllOrNone, RunningIsSubmitted, QueueIsCurrent
<1>15. ASSUME NEW j \in Job, Cancel(c, j)  PROVE SerialInvariant(c)'
  <2>1. AllOrNone'
    BY <1>0, <1>15 DEF Cancel, Free, AllOrNone
  <2>. QED  BY <1>0, <1>1, <1>15, <2>1 DEF Cancel, RunningIsSubmitted, QueueIsCurrent
<1>16. ASSUME NEW j \in Job, Checkpoint(c, j)  PROVE SerialInvariant(c)'
  BY <1>0, <1>1, <1>16 DEF Checkpoint, AllOrNone, RunningIsSubmitted, QueueIsCurrent
<1>17. ASSUME NEW n \in Node, NEW kind \in Faults, Inject(c, n, kind)
       PROVE  SerialInvariant(c)'
  <2>1. AllOrNone'
    BY <1>0, <1>17 DEF Inject, AllOrNone
  <2>. QED  BY <1>0, <1>1, <1>17, <2>1 DEF Inject, RunningIsSubmitted, QueueIsCurrent
<1>18. CASE Plan(c)
  BY <1>0, <1>1, <1>18 DEF Plan, AllOrNone, RunningIsSubmitted, QueueIsCurrent
<1>19. CASE UNCHANGED vars
  <2>1. \A k \in Job : Candidates(k)' = Candidates(k)
    BY <1>19, CandidatesOfNodes DEF vars
  <2>. QED
    BY <1>19, <2>1
    DEF vars, AllOrNone, RunningIsSubmitted, QueueIsCurrent, ChosenFits,
        PassedOverFitNowhere, RemediatedIsClosed, Before
<1>. QED
  BY <1>2, <1>3, <1>4, <1>5, <1>6, <1>7, <1>8, <1>9, <1>10, <1>11, <1>12, <1>13, <1>14,
     <1>15, <1>16, <1>17, <1>18, <1>19, NobodyInterrupts
  DEF Next, Work, Request

LEMMA SerialInvariantHolds ==
  ASSUME NEW c, Client = {c}
  PROVE  Safety => []SerialInvariant(c)
<1>1. Init => SerialInvariant(c)
  BY SerialInvariantInit
<1>2. TypeOK /\ SerialInvariant(c) /\ [Next]_vars => SerialInvariant(c)'
  BY SerialInvariantStep
<1>. QED  BY <1>1, <1>2, ClusterTypeCorrect, PTL DEF Safety

-----------------------------------------------------------------------------
\* Only the scheduler starts jobs, each where its handler has chosen.
LEMMA OnlyPlaceStarts ==
  ASSUME TypeOK, [Next]_vars, NEW j \in Job, Started(j)
  PROVE  \E c \in Client : Place(c) /\ j = subject[c]
<1>. USE DEF Started, nodeVars, jobVars, callVars
<1>0. jobState \in [Job -> JobState]
  BY DEF TypeOK
<1>1. ASSUME NEW c \in Client, Place(c)  PROVE Place(c) /\ j = subject[c]
  BY <1>0, <1>1 DEF Place
<1>2. ASSUME NEW c \in Client, RequeueAffected(c)  PROVE FALSE
  BY <1>0, <1>2 DEF RequeueAffected, requeue
<1>3. ASSUME NEW c \in Client, CheckpointOn(c)  PROVE FALSE
  BY <1>0, <1>3 DEF CheckpointOn
<1>4. ASSUME NEW c \in Client,
             \/ Snapshot(c) \/ Choose(c) \/ Return(c) \/ Launch(c) \/ Release(c) \/ Drain(c)
             \/ Recover(c) \/ Plan(c) \/ HandlerFails(c)
      PROVE  FALSE
  BY <1>4 DEF Snapshot, Choose, Return, Launch, Release, Drain, Recover, Plan, HandlerFails
<1>5. ASSUME NEW c \in Client, NEW k \in Job,
             \/ Submit(c, k) \/ Poll(c, k) \/ Execute(c, k)
             \/ Cancel(c, k) \/ Checkpoint(c, k)
      PROVE  FALSE
  BY <1>0, <1>5 DEF Submit, Poll, Execute, Cancel, Checkpoint
<1>6. ASSUME NEW c \in Client, NEW n \in Node, NEW kind \in Faults, Inject(c, n, kind)
      PROVE  FALSE
  BY <1>6 DEF Inject
<1>7. ASSUME NEW c \in Client, NEW k \in Job, NEW D \in SUBSET Client,
             SubmitInterrupting(c, k, D)
      PROVE  FALSE
  BY <1>7, InterruptingStartsNothing
<1>8. CASE UNCHANGED vars
  BY <1>8 DEF vars
<1>9. ASSUME NEW c \in Client, Pop(c)  PROVE FALSE
  BY <1>0, <1>9 DEF Pop, ExitStates
<1>. QED
  BY <1>1, <1>2, <1>3, <1>4, <1>5, <1>6, <1>7, <1>8, <1>9 DEF Next, Work, Request

\* Only the agent brings a node back, the one that it remediates.
LEMMA OnlyRecoverOpens ==
  ASSUME TypeOK, [Next]_vars, NEW n \in Node, nodeState[n] # "ready", nodeState'[n] = "ready"
  PROVE  \E c \in Client : Recover(c) /\ n = place[c]
<1>. USE DEF nodeVars, jobVars, callVars
<1>0. nodeState \in [Node -> {"ready", "draining", "unhealthy"}]
  BY DEF TypeOK
<1>1. ASSUME NEW c \in Client, Recover(c)  PROVE Recover(c) /\ n = place[c]
  BY <1>0, <1>1 DEF Recover
<1>2. ASSUME NEW c \in Client, Drain(c)  PROVE FALSE
  BY <1>0, <1>2 DEF Drain
<1>3. ASSUME NEW c \in Client,
             \/ Snapshot(c) \/ Choose(c) \/ Place(c) \/ Return(c) \/ Launch(c) \/ Release(c)
             \/ CheckpointOn(c) \/ RequeueAffected(c) \/ Plan(c) \/ Pop(c) \/ HandlerFails(c)
      PROVE  FALSE
  BY <1>3
  DEF Snapshot, Choose, Place, Return, Launch, Release, CheckpointOn, RequeueAffected, Plan,
      Pop, HandlerFails
<1>4. ASSUME NEW c \in Client, NEW k \in Job,
             \/ Submit(c, k) \/ Poll(c, k) \/ Execute(c, k)
             \/ Cancel(c, k) \/ Checkpoint(c, k)
      PROVE  FALSE
  BY <1>4 DEF Submit, Poll, Execute, Cancel, Checkpoint
<1>5. ASSUME NEW c \in Client, NEW m \in Node, NEW kind \in Faults, Inject(c, m, kind)
      PROVE  FALSE
  BY <1>0, <1>5 DEF Inject
<1>6. ASSUME NEW c \in Client, NEW k \in Job, NEW D \in SUBSET Client,
             SubmitInterrupting(c, k, D)
      PROVE  FALSE
  BY <1>6 DEF SubmitInterrupting
<1>7. CASE UNCHANGED vars
  BY <1>7 DEF vars
<1>. QED
  BY <1>1, <1>2, <1>3, <1>4, <1>5, <1>6, <1>7 DEF Next, Work, Request

\* When a job of a caller who is alone starts, no queued job before it would
\* have fit anywhere: not one that was passed over, nor one still to come.
THEOREM StartsInOrderAlone ==
  ASSUME NEW c, Client = {c}
  PROVE  Safety => StartsInOrder
<1>1. ASSUME TypeOK, SerialInvariant(c), [Next]_vars, NEW j \in Job, NEW k \in Job,
             Started(j), k \in Submitted, jobState[k] = "queued", Before(k, j)
      PROVE  Candidates(k) = {}
  <2>1. Place(c) /\ j = subject[c]
    BY <1>1, OnlyPlaceStarts
  <2>2. ~ Before(j, k) /\ j # k
    BY <1>1, JobAssumption DEF Before, TypeOK
  <2>3. k \notin queue[c]
    BY <1>1, <2>1, <2>2 DEF Place, SerialInvariant, ChosenFits
  <2>. QED
    BY <1>1, <2>1, <2>2, <2>3 DEF Place, SerialInvariant, PassedOverFitNowhere, Submitted
<1>2. TypeOK /\ SerialInvariant(c) /\ [Next]_vars =>
        \A j, k \in Job :
          (Started(j) /\ k \in Submitted /\ jobState[k] = "queued" /\ Before(k, j))
             => Candidates(k) = {}
  BY <1>1
<1>. QED
  BY <1>2, ClusterTypeCorrect, SerialInvariantHolds, PTL DEF Safety, StartsInOrder

\* A node that the agent brings back has none of the jobs it was taken out with.
THEOREM ComesBackEmptyAlone ==
  ASSUME NEW c, Client = {c}
  PROVE  Safety => ComesBackEmpty
<1>1. ASSUME TypeOK, SerialInvariant(c), [Next]_vars, NEW n \in Node,
             nodeState[n] # "ready" /\ nodeState'[n] = "ready", NEW j \in Job
      PROVE  ~ (jobState[j] = "running" /\ jobNode[j] = n)
  <2>1. Recover(c) /\ n = place[c]
    BY <1>1, OnlyRecoverOpens
  <2>. QED  BY <1>1, <2>1 DEF Recover, SerialInvariant, RemediatedIsClosed
<1>2. TypeOK /\ SerialInvariant(c) /\ [Next]_vars =>
        \A n \in Node : (nodeState[n] # "ready" /\ nodeState'[n] = "ready") =>
          \A j \in Job : ~ (jobState[j] = "running" /\ jobNode[j] = n)
  BY <1>1
<1>. QED
  BY <1>2, ClusterTypeCorrect, SerialInvariantHolds, PTL DEF Safety, ComesBackEmpty

-----------------------------------------------------------------------------
\* What the placement shows of the cluster.
OpenNodes == {n \in Node : nodeState[n] = "ready"}
Hosts == [j \in Job |-> hostOf(j)]

\* A job that is marked otherwise than running ends, or did not run.
LEMMA MarkingEnds ==
  ASSUME UNCHANGED <<nodeState, jobNode>>, NEW j, NEW state \in JobState \ {"running"},
         jobState \in [Job -> JobState], jobState' = [jobState EXCEPT ![j] = state]
  PROVE  [Assignment!Next]_<<OpenNodes, Hosts>>
<1>1. OpenNodes' = OpenNodes
  BY DEF OpenNodes
<1>2. CASE j \notin Job \/ Hosts[j] = NoNode
  <2>1. ASSUME NEW k \in Job  PROVE hostOf(k)' = hostOf(k)
    BY <1>2 DEF Hosts, hostOf
  <2>. QED  BY <1>1, <2>1 DEF Hosts
<1>3. CASE j \in Job /\ Hosts[j] # NoNode
  <2>1. Hosts' = [Hosts EXCEPT ![j] = NoNode]
    BY <1>3 DEF Hosts, hostOf
  <2>. QED  BY <1>1, <1>3, <2>1 DEF Assignment!Next, Assignment!End, OpenNodes, Hosts
<1>. QED  BY <1>2, <1>3

\* A node that is marked otherwise than ready closes, or was closed.
LEMMA MarkingCloses ==
  ASSUME UNCHANGED <<jobState, jobNode>>, NEW n \in Node, NEW state, state # "ready",
         nodeState \in [Node -> {"ready", "draining", "unhealthy"}],
         nodeState' = [nodeState EXCEPT ![n] = state]
  PROVE  [Assignment!Next]_<<OpenNodes, Hosts>>
<1>1. Hosts' = Hosts
  BY DEF Hosts, hostOf
<1>2. OpenNodes' = OpenNodes \ {n}
  BY DEF OpenNodes
<1>. QED  BY <1>1, <1>2 DEF Assignment!Next, Assignment!Close, OpenNodes, Hosts

\* Each step of the cluster is a step of the placement, or none.
LEMMA PlacementStep ==
  ASSUME NEW c, Client = {c}, TypeOK, SerialInvariant(c), [Next]_vars
  PROVE  [Assignment!Next]_<<OpenNodes, Hosts>>
<1>. USE DEF goto, nodeVars, jobVars, callVars
<1>0. /\ nodeState \in [Node -> {"ready", "draining", "unhealthy"}]
      /\ jobState \in [Job -> JobState] /\ jobNode \in [Job -> Node \cup {NoNode}]
      /\ pc \in [{c} -> Step] /\ plan \in [{c} -> SUBSET Incident]
  BY DEF TypeOK
<1>1. ASSUME UNCHANGED <<nodeState, jobState, jobNode>>
      PROVE  [Assignment!Next]_<<OpenNodes, Hosts>>
  BY <1>1 DEF OpenNodes, Hosts, hostOf
<1>2. CASE Place(c)
  <2>1. /\ subject[c] \in Job /\ jobState[subject[c]] = "queued"
        /\ place[c] \in Node /\ nodeState[place[c]] = "ready"
    BY <1>2 DEF Place, SerialInvariant, ChosenFits, Candidates
  <2>2. /\ UNCHANGED nodeState
        /\ jobState' = [jobState EXCEPT ![subject[c]] = "running"]
        /\ jobNode' = [jobNode EXCEPT ![subject[c]] = place[c]]
    BY <1>2 DEF Place
  <2>3. Hosts[subject[c]] = NoNode /\ Hosts' = [Hosts EXCEPT ![subject[c]] = place[c]]
    BY <1>0, <2>1, <2>2 DEF Hosts, hostOf
  <2>4. place[c] \in OpenNodes /\ UNCHANGED OpenNodes
    BY <2>1, <2>2 DEF OpenNodes
  <2>5. Assignment!Start(subject[c], place[c])
    BY <2>3, <2>4 DEF Assignment!Start, OpenNodes, Hosts
  <2>. QED  BY <2>1, <2>5 DEF Assignment!Next
<1>3. CASE RequeueAffected(c)
  <2>1. place[c] \in Node /\ nodeState[place[c]] # "ready" /\ UNCHANGED nodeState
    BY <1>3 DEF RequeueAffected, SerialInvariant, RemediatedIsClosed
  <2>2. ASSUME NEW j \in Job
        PROVE  hostOf(j)' = IF hostOf(j) = place[c] THEN NoNode ELSE hostOf(j)
    <3>1. jobState[j] = "running" => j \in Submitted
      BY DEF SerialInvariant, RunningIsSubmitted, Submitted
    <3>2. CASE jobState[j] = "running" /\ jobNode[j] = place[c]
      BY <1>3, <3>1, <3>2 DEF RequeueAffected, requeue, hostOf
    <3>3. CASE ~ (jobState[j] = "running" /\ jobNode[j] = place[c])
      BY <1>3, <2>1, <3>3 DEF RequeueAffected, requeue, hostOf
    <3>. QED  BY <3>2, <3>3
  <2>3. UNCHANGED OpenNodes /\ place[c] \in Node \ OpenNodes
    BY <2>1 DEF OpenNodes
  <2>4. Assignment!Evict(place[c])
    BY <2>2, <2>3 DEF Assignment!Evict, OpenNodes, Hosts
  <2>. QED  BY <2>1, <2>4 DEF Assignment!Next
<1>4. CASE Recover(c)
  <2>1. /\ place[c] \in Node /\ nodeState[place[c]] # "ready"
        /\ \A j \in Job : ~ (jobState[j] = "running" /\ jobNode[j] = place[c])
    BY <1>4 DEF Recover, SerialInvariant, RemediatedIsClosed
  <2>2. /\ UNCHANGED <<jobState, jobNode>>
        /\ nodeState' = [nodeState EXCEPT ![place[c]] = "ready"]
    BY <1>4 DEF Recover
  <2>3. \A j \in Job : hostOf(j) # place[c]
    BY <2>1 DEF hostOf, Node, NoNode
  <2>4. OpenNodes' = OpenNodes \cup {place[c]} /\ place[c] \in Node \ OpenNodes
    BY <1>0, <2>1, <2>2 DEF OpenNodes
  <2>5. UNCHANGED Hosts
    BY <2>2 DEF Hosts, hostOf
  <2>. QED
    BY <2>1, <2>3, <2>4, <2>5 DEF Assignment!Next, Assignment!Open, OpenNodes, Hosts
<1>5. CASE Drain(c)
  <2>1. PICK i \in plan[c] : nodeState' = [nodeState EXCEPT ![i.node] = "draining"]
    BY <1>5 DEF Drain
  <2>2. i.node \in Node
    BY <1>0 DEF Incident
  <2>3. UNCHANGED <<jobState, jobNode>>
    BY <1>5 DEF Drain
  <2>. QED  BY <1>0, <2>1, <2>2, <2>3, MarkingCloses
<1>6. ASSUME CheckpointOn(c) \/ (Pop(c) /\ proc[subject[c]] # "none")
      PROVE  [Assignment!Next]_<<OpenNodes, Hosts>>
  <2>1. PICK state \in JobState \ {"running"} :
          jobState' = [jobState EXCEPT ![subject[c]] = state]
    BY <1>6 DEF CheckpointOn, Pop, ExitStates, JobState
  <2>2. UNCHANGED <<nodeState, jobNode>>
    BY <1>6 DEF CheckpointOn, Pop
  <2>. QED  BY <1>0, <2>1, <2>2, MarkingEnds
<1>7. ASSUME NEW j \in Job, Cancel(c, j) \/ Checkpoint(c, j)
      PROVE  [Assignment!Next]_<<OpenNodes, Hosts>>
  <2>1. PICK state \in JobState \ {"running"} : jobState' = [jobState EXCEPT ![j] = state]
    BY <1>7 DEF Cancel, Checkpoint, JobState
  <2>2. UNCHANGED <<nodeState, jobNode>>
    BY <1>7 DEF Cancel, Checkpoint
  <2>. QED  BY <1>0, <2>1, <2>2, MarkingEnds
<1>8. ASSUME NEW n \in Node, NEW kind \in Faults, Inject(c, n, kind)
      PROVE  [Assignment!Next]_<<OpenNodes, Hosts>>
  <2>1. UNCHANGED <<jobState, jobNode>>
    BY <1>8 DEF Inject
  <2>2. nodeState' = [nodeState EXCEPT ![n] = "unhealthy"] \/ UNCHANGED nodeState
    BY <1>8 DEF Inject
  <2>. QED  BY <1>0, <1>1, <2>1, <2>2, MarkingCloses
<1>9. ASSUME \/ Snapshot(c) \/ Choose(c) \/ Return(c) \/ Launch(c) \/ Release(c) \/ Plan(c)
             \/ HandlerFails(c) \/ (Pop(c) /\ proc[subject[c]] = "none")
      PROVE  [Assignment!Next]_<<OpenNodes, Hosts>>
  BY <1>1, <1>9 DEF Snapshot, Choose, Return, Launch, Release, Plan, Pop, HandlerFails
<1>10. ASSUME NEW j \in Job, Submit(c, j) \/ Poll(c, j) \/ Execute(c, j)
       PROVE  [Assignment!Next]_<<OpenNodes, Hosts>>
  BY <1>1, <1>10 DEF Submit, Poll, Execute
<1>11. CASE UNCHANGED vars
  BY <1>1, <1>11 DEF vars
<1>. QED
  BY <1>2, <1>3, <1>4, <1>5, <1>6, <1>7, <1>8, <1>9, <1>10, <1>11, NobodyInterrupts
  DEF Next, Work, Request

\* For a caller who is alone, the cluster implements the placement of jobs.
THEOREM PlacementIsImplemented ==
  ASSUME NEW c, Client = {c}
  PROVE  Safety => ImplementsPlacement
<1>1. Init => Assignment!Init
  BY DEF Init, Assignment!Init, hostOf
<1>2. TypeOK /\ SerialInvariant(c) /\ [Next]_vars => [Assignment!Next]_<<OpenNodes, Hosts>>
  BY PlacementStep
<1>. QED
  BY <1>1, <1>2, ClusterTypeCorrect, SerialInvariantHolds, PTL
  DEF Safety, ImplementsPlacement, Assignment!Spec, OpenNodes, Hosts
=============================================================================
