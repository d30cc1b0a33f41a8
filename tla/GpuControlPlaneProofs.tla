------------------------ MODULE GpuControlPlaneProofs ------------------------
(***************************************************************************)
(* Theorems about GpuControlPlane for every number of nodes and GPUs, every *)
(* finite set of jobs, and any clients making requests concurrently.       *)
(***************************************************************************)
EXTENDS GpuControlPlane, FiniteSetTheorems, TLAPS

\* The place that a newly submitted job gets is a number.
LEMMA ArrivalIsNat == Cardinality(Submitted) + 1 \in Nat
<1>1. Submitted \subseteq Job
  BY DEF Submitted
<1>2. IsFiniteSet(Submitted)
  BY <1>1, JobAssumption, FS_Subset
<1>. QED  BY <1>2, FS_CardinalityType

\* A submission that interrupts others starts no job and moves none: it can
\* only take a running job from its node.
LEMMA InterruptingStartsNothing ==
  ASSUME TypeOK, NEW c \in Client, NEW j \in Job, NEW D \in SUBSET Client,
         SubmitInterrupting(c, j, D)
  PROVE  /\ jobState' \in [Job -> JobState] /\ jobNode' \in [Job -> Node \cup {NoNode}]
         /\ \A k \in Job : jobState'[k] = "running" =>
               jobState[k] = "running" /\ jobNode'[k] = jobNode[k]
<1>1. PICK S \in SUBSET Submitted : requeue(S)
  BY DEF SubmitInterrupting
<1>. QED  BY <1>1 DEF requeue, TypeOK, JobState

\* A handler that is about to requeue jobs has the node to take them from.
NotesFit == \A c \in Client : pc[c] = "requeue" => place[c] \in Node

LEMMA NotesFitStep ==
  ASSUME TypeOK, NotesFit, [Next]_vars
  PROVE  NotesFit'
<1>. USE DEF goto, callVars
<1>0. /\ pc \in [Client -> Step] /\ subject \in [Client -> Job \cup {NoJob}]
      /\ queue \in [Client -> SUBSET Job] /\ place \in [Client -> Node \cup {NoNode}]
      /\ plan \in [Client -> SUBSET Incident]
  BY DEF TypeOK
\* Only the agent moves to "requeue", and no one changes another's notes.
<1>1. ASSUME NEW c \in Client,
             pc'[c] = "requeue" => place'[c] \in Node,
             \A d \in Client \ {c} : pc'[d] = pc[d] /\ place'[d] = place[d]
      PROVE  NotesFit'
  BY <1>1 DEF NotesFit
<1>2. ASSUME NEW c \in Client, Pop(c) \/ HandlerFails(c)  PROVE NotesFit'
  BY <1>0, <1>1, <1>2 DEF Pop, HandlerFails
<1>3. ASSUME NEW c \in Client, NEW j \in Job,
             Submit(c, j) \/ Poll(c, j) \/ Execute(c, j) \/ Checkpoint(c, j)
      PROVE  NotesFit'
  BY <1>0, <1>1, <1>3 DEF Submit, Poll, Execute, Checkpoint
<1>4. ASSUME NEW c \in Client, Choose(c)  PROVE NotesFit'
  <2>1. \A d \in Client \ {c} : pc'[d] = pc[d] /\ place'[d] = place[d]
    BY <1>0, <1>4 DEF Choose
  <2>2. pc'[c] \in {"choose", "place"}
    BY <1>0, <1>4 DEF Choose
  <2>. QED  BY <1>1, <2>1, <2>2
<1>5. ASSUME NEW c \in Client,
             \/ Snapshot(c) \/ Place(c) \/ Return(c) \/ Launch(c) \/ Release(c)
             \/ CheckpointOn(c) \/ RequeueAffected(c) \/ Recover(c) \/ Plan(c)
      PROVE  NotesFit'
  BY <1>0, <1>1, <1>5
  DEF Snapshot, Place, Return, Launch, Release, CheckpointOn, RequeueAffected, Recover, Plan
<1>6. ASSUME UNCHANGED <<pc, place>>  PROVE NotesFit'
  BY <1>6 DEF NotesFit
<1>7. ASSUME NEW c \in Client, NEW j \in Job, Cancel(c, j)  PROVE NotesFit'
  BY <1>6, <1>7 DEF Cancel
<1>8. ASSUME NEW c \in Client, NEW n \in Node, NEW kind \in Faults, Inject(c, n, kind)
      PROVE  NotesFit'
  BY <1>6, <1>8 DEF Inject
<1>9. ASSUME NEW c \in Client, NEW j \in Job, NEW D \in SUBSET Client,
             SubmitInterrupting(c, j, D)
      PROVE  NotesFit'
  BY <1>9 DEF SubmitInterrupting, NotesFit
<1>10. ASSUME NEW c \in Client, Drain(c)  PROVE NotesFit'
  <2>1. PICK i \in plan[c] :
          \/ pc' = [pc EXCEPT ![c] = IF plan[c] = {i} THEN "idle" ELSE "drain"] /\ UNCHANGED place
          \/ pc' = [pc EXCEPT ![c] = "requeue"] /\ place' = [place EXCEPT ![c] = i.node]
    BY <1>10 DEF Drain
  <2>2. i.node \in Node
    BY <1>0 DEF Incident
  <2>. QED  BY <1>0, <1>1, <2>1, <2>2
<1>11. CASE UNCHANGED vars
  BY <1>6, <1>11 DEF vars
<1>. QED
  BY <1>2, <1>3, <1>4, <1>5, <1>7, <1>8, <1>9, <1>10, <1>11 DEF Next, Work, Request

\* Every variable keeps its type.
THEOREM ClusterTypeCorrect == Safety => []TypeOK
<1>1. Init => TypeOK /\ NotesFit
  BY FaultAssumption DEF Init, TypeOK, JobState, Step, Worker, NotesFit
<1>2. TypeOK /\ NotesFit /\ [Next]_vars => TypeOK' /\ NotesFit'
  <2>. SUFFICES ASSUME TypeOK, NotesFit, [Next]_vars  PROVE TypeOK'
    BY NotesFitStep
  <2>. USE DEF TypeOK, nodeVars, jobVars, callVars, goto
  <2>1. CASE UNCHANGED vars
    BY <2>1 DEF vars
  <2>2. ASSUME NEW c \in Client, Snapshot(c)  PROVE TypeOK'
    BY <2>2 DEF Snapshot, Submitted, Step
  <2>3. ASSUME NEW c \in Client, Choose(c)  PROVE TypeOK'
    <3>1. PICK j \in queue[c] :
            /\ queue' = [queue EXCEPT ![c] = @ \ {j}]
            /\ \/ UNCHANGED <<pc, subject, place>>
               \/ \E n \in Node : /\ subject' = [subject EXCEPT ![c] = j]
                                  /\ place' = [place EXCEPT ![c] = n]
                                  /\ pc' = [pc EXCEPT ![c] = "place"]
      BY <2>3 DEF Choose, Candidates
    <3>2. j \in Job
      OBVIOUS
    <3>3. UNCHANGED <<nodeVars, jobVars, plan, faults, abandoned>>
      BY <2>3 DEF Choose
    <3>. QED  BY <3>1, <3>2, <3>3 DEF Step
  <2>4. ASSUME NEW c \in Client, Place(c)  PROVE TypeOK'
    BY <2>4 DEF Place, Step, JobState
  <2>5. ASSUME NEW c \in Client, Return(c)  PROVE TypeOK'
    BY <2>5 DEF Return, Step
  <2>6. ASSUME NEW c \in Client, Release(c)  PROVE TypeOK'
    BY <2>6 DEF Release, Free, Step
  <2>7. ASSUME NEW c \in Client, CheckpointOn(c)  PROVE TypeOK'
    BY <2>7 DEF CheckpointOn, Step, JobState
  <2>8. ASSUME NEW c \in Client, Drain(c)  PROVE TypeOK'
    BY <2>8 DEF Drain, Step, Incident
  <2>9. ASSUME NEW c \in Client, RequeueAffected(c)  PROVE TypeOK'
    BY <2>9 DEF RequeueAffected, requeue, Step, JobState
  <2>10. ASSUME NEW c \in Client, Recover(c)  PROVE TypeOK'
    BY <2>10 DEF Recover, Step
  <2>11. ASSUME NEW c \in Client, NEW j \in Job, Submit(c, j)  PROVE TypeOK'
    BY <2>11, ArrivalIsNat DEF Submit, Step
  <2>12. ASSUME NEW c \in Client, NEW j \in Job, Poll(c, j)  PROVE TypeOK'
    BY <2>12 DEF Poll, Step, Worker
  <2>13. ASSUME NEW c \in Client, NEW j \in Job, Execute(c, j)  PROVE TypeOK'
    BY <2>13 DEF Execute, Step, Worker
  <2>14. ASSUME NEW c \in Client, NEW j \in Job, Cancel(c, j)  PROVE TypeOK'
    BY <2>14 DEF Cancel, Free, JobState
  <2>15. ASSUME NEW c \in Client, NEW j \in Job, Checkpoint(c, j)  PROVE TypeOK'
    BY <2>15 DEF Checkpoint, Step, JobState
  <2>16. ASSUME NEW c \in Client, NEW n \in Node, NEW kind \in Faults, Inject(c, n, kind)
         PROVE  TypeOK'
    BY <2>16, FaultAssumption DEF Inject
  <2>17. ASSUME NEW c \in Client, Plan(c)  PROVE TypeOK'
    BY <2>17 DEF Plan, Findings, Step
  <2>18. ASSUME NEW c \in Client, Launch(c)  PROVE TypeOK'
    BY <2>18 DEF Launch, Step, Worker
  <2>19. ASSUME NEW c \in Client, NEW j \in Job, NEW D \in SUBSET Client,
                SubmitInterrupting(c, j, D)
         PROVE  TypeOK'
    <3>1. /\ UNCHANGED <<nodeVars, proc, queue, faults>>
          /\ jobState' \in [Job -> JobState] /\ jobNode' \in [Job -> Node \cup {NoNode}]
      BY <2>19, InterruptingStartsNothing DEF SubmitInterrupting
    <3>2. arrival' \in [Job -> Nat]
      BY <2>19, ArrivalIsNat DEF SubmitInterrupting
    <3>3. abandoned' \subseteq Node
      BY <2>19 DEF SubmitInterrupting, NotesFit
    <3>4. /\ pc' \in [Client -> Step] /\ subject' \in [Client -> Job \cup {NoJob}]
          /\ place' \in [Client -> Node \cup {NoNode}] /\ plan' \in [Client -> SUBSET Incident]
      BY <2>19 DEF SubmitInterrupting, Step
    <3>. QED  BY <3>1, <3>2, <3>3, <3>4
  <2>20. ASSUME NEW c \in Client, Pop(c)  PROVE TypeOK'
    BY <2>20 DEF Pop, ExitStates, Step, Worker, JobState
  <2>21. ASSUME NEW c \in Client, HandlerFails(c)  PROVE TypeOK'
    BY <2>21 DEF HandlerFails, Step
  <2>. QED
    BY <2>1, <2>2, <2>3, <2>4, <2>5, <2>6, <2>7, <2>8, <2>9, <2>10, <2>11, <2>12,
       <2>13, <2>14, <2>15, <2>16, <2>17, <2>18, <2>19, <2>20, <2>21
    DEF Next, Work, Request
<1>. QED  BY <1>1, <1>2, PTL DEF Safety

-----------------------------------------------------------------------------
\* A running job always has a node.  What makes this inductive is that a
\* handler about to place a job has already chosen a node of the cluster.
ChosenIsNode == \A c \in Client : pc[c] = "place" => place[c] \in Node /\ subject[c] \in Job

\* A running job has a node, however many handlers place and requeue jobs.
THEOREM RunningHasNodeAlways == Safety => []RunningHasNode
<1>1. Init => RunningHasNode /\ ChosenIsNode
  BY DEF Init, RunningHasNode, ChosenIsNode
<1>2. TypeOK /\ RunningHasNode /\ ChosenIsNode /\ [Next]_vars
        => RunningHasNode' /\ ChosenIsNode'
  <2>. SUFFICES ASSUME TypeOK, RunningHasNode, ChosenIsNode, [Next]_vars
                PROVE  RunningHasNode' /\ ChosenIsNode'
    OBVIOUS
  <2>. USE DEF goto, nodeVars, jobVars, callVars
  <2>0. /\ jobState \in [Job -> JobState] /\ jobNode \in [Job -> Node \cup {NoNode}]
        /\ pc \in [Client -> Step] /\ queue \in [Client -> SUBSET Job]
        /\ subject \in [Client -> Job \cup {NoJob}] /\ place \in [Client -> Node \cup {NoNode}]
    BY DEF TypeOK
  \* Handlers that do not move to "place" keep the auxiliary fact.
  <2>1. ASSUME \A c \in Client : pc'[c] = "place" =>
                  pc[c] = "place" /\ UNCHANGED <<place[c], subject[c]>>
        PROVE  ChosenIsNode'
    BY <2>1 DEF ChosenIsNode
  \* Steps that start no job keep the invariant.
  <2>2. ASSUME \A j \in Job : jobState'[j] = "running" =>
                  jobState[j] = "running" /\ jobNode'[j] = jobNode[j]
        PROVE  RunningHasNode'
    BY <2>2 DEF RunningHasNode, Node
  <2>3. ASSUME NEW c \in Client, Choose(c)  PROVE RunningHasNode' /\ ChosenIsNode'
    <3>1. UNCHANGED <<jobState, jobNode>>
      BY <2>3 DEF Choose
    <3>2. PICK j \in queue[c] :
            \/ UNCHANGED <<pc, subject, place>>
            \/ \E n \in Node : /\ subject' = [subject EXCEPT ![c] = j]
                               /\ place' = [place EXCEPT ![c] = n]
                               /\ pc' = [pc EXCEPT ![c] = "place"]
      BY <2>3 DEF Choose, Candidates
    <3>3. j \in Job
      BY <2>0
    <3>. QED  BY <2>0, <2>2, <3>1, <3>2, <3>3 DEF ChosenIsNode
  <2>4. ASSUME NEW c \in Client, Place(c)  PROVE RunningHasNode' /\ ChosenIsNode'
    <3>1. place[c] \in Node /\ subject[c] \in Job
      BY <2>4 DEF ChosenIsNode, Place
    <3>2. ChosenIsNode'
      BY <2>0, <2>1, <2>4 DEF Place
    <3>3. RunningHasNode'
      BY <2>0, <2>4, <3>1 DEF Place, RunningHasNode
    <3>. QED  BY <3>2, <3>3
  <2>5. ASSUME NEW c \in Client,
               \/ Snapshot(c) \/ Return(c) \/ Launch(c) \/ Release(c)
               \/ Drain(c) \/ Recover(c) \/ Plan(c) \/ HandlerFails(c)
        PROVE  RunningHasNode' /\ ChosenIsNode'
    <3>1. UNCHANGED <<jobState, jobNode>>
      BY <2>5 DEF Snapshot, Return, Launch, Release, Drain, Recover, Plan, HandlerFails
    <3>2. ASSUME NEW d \in Client, pc'[d] = "place"
          PROVE  pc[d] = "place" /\ UNCHANGED <<place[d], subject[d]>>
      BY <2>0, <2>5, <3>2, FaultAssumption
      DEF Snapshot, Return, Launch, Release, Drain, Recover, Plan, HandlerFails
    <3>. QED  BY <2>1, <2>2, <3>1, <3>2
  <2>6. ASSUME NEW c \in Client, CheckpointOn(c)  PROVE RunningHasNode' /\ ChosenIsNode'
    BY <2>0, <2>1, <2>2, <2>6 DEF CheckpointOn
  <2>7. ASSUME NEW c \in Client, RequeueAffected(c)  PROVE RunningHasNode' /\ ChosenIsNode'
    BY <2>0, <2>1, <2>2, <2>7 DEF RequeueAffected, requeue
  <2>8. ASSUME NEW c \in Client, NEW j \in Job, Submit(c, j) \/ Poll(c, j) \/ Execute(c, j)
        PROVE  RunningHasNode' /\ ChosenIsNode'
    BY <2>0, <2>1, <2>2, <2>8 DEF Submit, Poll, Execute
  <2>9. ASSUME NEW c \in Client, Pop(c)  PROVE RunningHasNode' /\ ChosenIsNode'
    BY <2>0, <2>1, <2>2, <2>9 DEF Pop, ExitStates
  <2>10. ASSUME NEW c \in Client, NEW j \in Job, Cancel(c, j)
         PROVE  RunningHasNode' /\ ChosenIsNode'
    BY <2>0, <2>1, <2>2, <2>10 DEF Cancel
  <2>11. ASSUME NEW c \in Client, NEW j \in Job, Checkpoint(c, j)
         PROVE  RunningHasNode' /\ ChosenIsNode'
    BY <2>0, <2>1, <2>2, <2>11 DEF Checkpoint
  <2>12. ASSUME NEW c \in Client, NEW n \in Node, NEW kind \in Faults, Inject(c, n, kind)
         PROVE  RunningHasNode' /\ ChosenIsNode'
    BY <2>1, <2>2, <2>12 DEF Inject
  <2>13. ASSUME NEW c \in Client, NEW j \in Job, NEW D \in SUBSET Client,
                SubmitInterrupting(c, j, D)
         PROVE  RunningHasNode' /\ ChosenIsNode'
    <3>1. RunningHasNode'
      BY <2>2, <2>13, InterruptingStartsNothing
    <3>2. ChosenIsNode'
      BY <2>1, <2>13 DEF SubmitInterrupting
    <3>. QED  BY <3>1, <3>2
  <2>14. CASE UNCHANGED vars
    BY <2>1, <2>2, <2>14 DEF vars
  <2>. QED
    BY <2>3, <2>4, <2>5, <2>6, <2>7, <2>8, <2>9, <2>10, <2>11, <2>12, <2>13, <2>14
    DEF Next, Work, Request
<1>. QED  BY <1>1, <1>2, ClusterTypeCorrect, PTL DEF Safety

-----------------------------------------------------------------------------
\* Without temperature failures no GPU is hot and no plan says one is; only a
\* temperature incident leaves a node draining.
NothingHot ==
    /\ \A n \in Node : ~ hot[n]
    /\ \A c \in Client : \A i \in plan[c] : i.check # "temperature"

LEMMA NothingHotAlways ==
  ASSUME "temperature_high" \notin Faults
  PROVE  Safety => []NothingHot
<1>1. Init => NothingHot
  BY DEF Init, NothingHot
<1>2. TypeOK /\ NothingHot /\ [Next]_vars => NothingHot'
  <2>. SUFFICES ASSUME TypeOK, NothingHot, [Next]_vars  PROVE NothingHot'
    OBVIOUS
  <2>. USE DEF nodeVars, jobVars, callVars
  <2>0. plan \in [Client -> SUBSET Incident] /\ hot \in [Node -> BOOLEAN]
    BY DEF TypeOK
  <2>1. ASSUME UNCHANGED <<hot, plan>>  PROVE NothingHot'
    BY <2>1 DEF NothingHot
  <2>2. ASSUME NEW c \in Client, Plan(c)  PROVE NothingHot'
    <3>1. \A i \in Findings : i.check # "temperature"
      BY DEF Findings, Incident, NothingHot
    <3>2. UNCHANGED hot /\ plan' = [plan EXCEPT ![c] = Findings]
      BY <2>2 DEF Plan
    <3>. QED  BY <2>0, <3>1, <3>2 DEF NothingHot
  <2>3. ASSUME NEW c \in Client, Drain(c)  PROVE NothingHot'
    <3>1. UNCHANGED hot /\ \E i \in plan[c] : plan' = [plan EXCEPT ![c] = @ \ {i}]
      BY <2>3 DEF Drain
    <3>. QED  BY <2>0, <3>1 DEF NothingHot
  <2>4. ASSUME NEW c \in Client, Recover(c)  PROVE NothingHot'
    BY <2>0, <2>4 DEF Recover, NothingHot
  <2>5. ASSUME NEW c \in Client, NEW n \in Node, NEW kind \in Faults, Inject(c, n, kind)
        PROVE  NothingHot'
    <3>1. kind # "temperature_high"
      OBVIOUS
    <3>2. UNCHANGED plan /\ \A m \in Node : hot'[m] => hot[m]
      BY <2>0, <2>5, <3>1 DEF Inject
    <3>. QED  BY <3>2 DEF NothingHot
  <2>6. ASSUME NEW c \in Client,
               \/ Snapshot(c) \/ Choose(c) \/ Place(c) \/ Return(c) \/ Launch(c) \/ Release(c)
               \/ CheckpointOn(c) \/ RequeueAffected(c) \/ Pop(c) \/ HandlerFails(c)
        PROVE  NothingHot'
    BY <2>1, <2>6
    DEF Snapshot, Choose, Place, Return, Launch, Release, CheckpointOn, RequeueAffected,
        Pop, HandlerFails
  <2>7. ASSUME NEW c \in Client, NEW j \in Job,
               \/ Submit(c, j) \/ Poll(c, j) \/ Execute(c, j)
               \/ Cancel(c, j) \/ Checkpoint(c, j)
        PROVE  NothingHot'
    BY <2>1, <2>7 DEF Submit, Poll, Execute, Cancel, Checkpoint
  <2>8. ASSUME NEW c \in Client, NEW j \in Job, NEW D \in SUBSET Client,
               SubmitInterrupting(c, j, D)
        PROVE  NothingHot'
    BY <2>8 DEF SubmitInterrupting, NothingHot
  <2>9. CASE UNCHANGED vars
    BY <2>1, <2>9 DEF vars
  <2>. QED
    BY <2>2, <2>3, <2>4, <2>5, <2>6, <2>7, <2>8, <2>9 DEF Next, Work, Request
<1>. QED  BY <1>1, <1>2, ClusterTypeCorrect, PTL DEF Safety

\* However many reconciles overlap, every draining node has one that is about
\* to recover it.
THEOREM DrainingIsAlwaysRemediated ==
  ASSUME "temperature_high" \notin Faults
  PROVE  Safety => []DrainingIsRemediated
<1>1. Init => DrainingIsRemediated
  BY DEF Init, DrainingIsRemediated
<1>2. TypeOK /\ NothingHot /\ DrainingIsRemediated /\ [Next]_vars => DrainingIsRemediated'
  <2>. SUFFICES ASSUME TypeOK, NothingHot, DrainingIsRemediated, [Next]_vars
                PROVE  DrainingIsRemediated'
    OBVIOUS
  <2>. DEFINE Remediates(c, n) == pc[c] \in {"requeue", "recover"} /\ place[c] = n
  <2>. USE DEF goto, nodeVars, jobVars, callVars
  <2>0. /\ nodeState \in [Node -> {"ready", "draining", "unhealthy"}]
        /\ pc \in [Client -> Step] /\ place \in [Client -> Node \cup {NoNode}]
        /\ \A n \in Node \ abandoned : nodeState[n] = "draining" => \E c \in Client : Remediates(c, n)
    BY DEF TypeOK, DrainingIsRemediated
  \* Enough: nodes that drain did so before, and who remediates them still does.
  <2>1. ASSUME abandoned \subseteq abandoned',
               \A n \in Node \ abandoned' : nodeState'[n] = "draining" =>
                  /\ nodeState[n] = "draining"
                  /\ \A c \in Client : Remediates(c, n) => Remediates(c, n)'
        PROVE  DrainingIsRemediated'
    BY <2>0, <2>1 DEF DrainingIsRemediated
  <2>2. ASSUME NEW c \in Client, Drain(c)  PROVE DrainingIsRemediated'
    <3>1. PICK i \in plan[c] :
            /\ nodeState' = [nodeState EXCEPT ![i.node] = "draining"]
            /\ place' = [place EXCEPT ![c] = i.node]
            /\ pc' = [pc EXCEPT ![c] = "requeue"]
            /\ abandoned' = abandoned \ {i.node}
      BY <2>2 DEF Drain, NothingHot
    <3>2. pc[c] = "drain"
      BY <2>2 DEF Drain
    <3>3. ASSUME NEW n \in Node \ abandoned', nodeState'[n] = "draining"
          PROVE  \E d \in Client : Remediates(d, n)'
      <4>1. CASE n = i.node
        BY <2>0, <3>1, <4>1
      <4>2. CASE n # i.node
        <5>1. nodeState[n] = "draining"
          BY <2>0, <3>1, <3>3, <4>2
        <5>2. PICK d \in Client : Remediates(d, n)
          BY <2>0, <3>1, <4>2, <5>1
        <5>3. d # c
          BY <3>2, <5>2
        <5>. QED  BY <2>0, <3>1, <5>2, <5>3
      <4>. QED  BY <4>1, <4>2
    <3>. QED  BY <3>3 DEF DrainingIsRemediated
  <2>3. ASSUME NEW c \in Client, Recover(c)  PROVE DrainingIsRemediated'
    BY <2>0, <2>1, <2>3 DEF Recover
  <2>4. ASSUME NEW c \in Client, RequeueAffected(c)  PROVE DrainingIsRemediated'
    BY <2>0, <2>1, <2>4 DEF RequeueAffected
  <2>5. ASSUME NEW c \in Client,
               \/ Snapshot(c) \/ Place(c) \/ Return(c) \/ Launch(c) \/ Release(c)
               \/ CheckpointOn(c) \/ Plan(c) \/ Pop(c)
        PROVE  DrainingIsRemediated'
    BY <2>0, <2>1, <2>5 DEF Snapshot, Place, Return, Launch, Release, CheckpointOn, Plan, Pop
  <2>6. ASSUME NEW c \in Client, Choose(c)  PROVE DrainingIsRemediated'
    <3>1. /\ pc[c] = "choose" /\ UNCHANGED <<nodeState, abandoned>>
          /\ \A d \in Client \ {c} : pc'[d] = pc[d] /\ place'[d] = place[d]
      BY <2>0, <2>6 DEF Choose
    <3>. QED  BY <2>0, <2>1, <3>1
  <2>7. ASSUME NEW c \in Client, NEW j \in Job,
               \/ Submit(c, j) \/ Poll(c, j) \/ Execute(c, j)
               \/ Cancel(c, j) \/ Checkpoint(c, j)
        PROVE  DrainingIsRemediated'
    BY <2>0, <2>1, <2>7 DEF Submit, Poll, Execute, Cancel, Checkpoint
  <2>8. ASSUME NEW c \in Client, NEW n \in Node, NEW kind \in Faults, Inject(c, n, kind)
        PROVE  DrainingIsRemediated'
    <3>1. UNCHANGED <<pc, place, abandoned>>
      BY <2>8 DEF Inject
    <3>2. \A m \in Node : nodeState'[m] = "draining" => nodeState[m] = "draining"
      BY <2>0, <2>8 DEF Inject
    <3>. QED  BY <2>1, <3>1, <3>2
  <2>9. ASSUME NEW c \in Client, NEW j \in Job, NEW D \in SUBSET Client,
               SubmitInterrupting(c, j, D)
        PROVE  DrainingIsRemediated'
    \* Who is ended while it remediates a node leaves it abandoned.
    <3>1. /\ UNCHANGED nodeState /\ abandoned \subseteq abandoned'
          /\ c \notin D /\ pc[c] = "idle" /\ \A d \in D : pc[d] \in {"snapshot", "requeue"}
          /\ \A d \in D : pc[d] = "requeue" => place[d] \in abandoned'
      BY <2>9 DEF SubmitInterrupting
    <3>2. \A d \in Client \ (D \cup {c}) : pc'[d] = pc[d] /\ place'[d] = place[d]
      BY <2>9 DEF SubmitInterrupting
    <3>3. ASSUME NEW n \in Node \ abandoned', NEW d \in Client, Remediates(d, n)
          PROVE  Remediates(d, n)'
      BY <3>1, <3>2, <3>3
    <3>. QED  BY <2>1, <3>1, <3>3
  <2>10. CASE UNCHANGED vars
    BY <2>1, <2>10 DEF vars
  <2>11. ASSUME NEW c \in Client, HandlerFails(c)  PROVE DrainingIsRemediated'
    <3>1. pc[c] \notin {"requeue", "recover"} /\ UNCHANGED <<nodeState, place, abandoned>>
      BY <2>11, FaultAssumption DEF HandlerFails
    <3>2. \A d \in Client \ {c} : pc'[d] = pc[d]
      BY <2>0, <2>11 DEF HandlerFails
    <3>. QED  BY <2>1, <3>1, <3>2
  <2>. QED
    BY <2>2, <2>3, <2>4, <2>5, <2>6, <2>7, <2>8, <2>9, <2>10, <2>11 DEF Next, Work, Request
<1>. QED  BY <1>1, <1>2, ClusterTypeCorrect, NothingHotAlways, PTL DEF Safety

-----------------------------------------------------------------------------
\* Only the handlers that look at the workers finish jobs, each with the worker
\* that it takes from the registry.
THEOREM FinishedByItsWorkerAlways == Safety => FinishedByItsWorker
<1>1. ASSUME TypeOK, [Next]_vars, NEW j \in Job, NEW state \in {"succeeded", "failed"},
             Becomes(j, state)
      PROVE  /\ state = "succeeded" => proc[j] = "exited" /\ proc'[j] = "none"
             /\ state = "failed" => proc[j] # "none" /\ proc'[j] = "none"
  <2>. USE <1>1 DEF Becomes, nodeVars, jobVars, callVars
  <2>0. jobState \in [Job -> JobState] /\ proc \in [Job -> Worker]
    BY DEF TypeOK
  <2>1. ASSUME NEW c \in Client, Pop(c)
        PROVE  /\ state = "succeeded" => proc[j] = "exited" /\ proc'[j] = "none"
               /\ state = "failed" => proc[j] # "none" /\ proc'[j] = "none"
    <3>1. PICK outcome \in ExitStates(proc[subject[c]]) :
            /\ proc[subject[c]] # "none"
            /\ proc' = [proc EXCEPT ![subject[c]] = "none"]
            /\ jobState' = [jobState EXCEPT ![subject[c]] = outcome]
      BY <2>1 DEF Pop
    <3>2. j = subject[c] /\ outcome = state
      BY <2>0, <3>1
    <3>3. proc[j] # "none" /\ proc'[j] = "none"
      BY <2>0, <3>1, <3>2
    <3>4. state = "succeeded" => proc[j] = "exited"
      BY <3>1, <3>2 DEF ExitStates
    <3>. QED  BY <3>3, <3>4
  <2>2. ASSUME NEW c \in Client,
               \/ Snapshot(c) \/ Choose(c) \/ Return(c) \/ Launch(c) \/ Release(c) \/ Drain(c)
               \/ Recover(c) \/ Plan(c) \/ HandlerFails(c)
        PROVE  FALSE
    BY <2>2 DEF Snapshot, Choose, Return, Launch, Release, Drain, Recover, Plan, HandlerFails
  <2>3. ASSUME NEW c \in Client, Place(c) \/ CheckpointOn(c)  PROVE FALSE
    BY <2>0, <2>3 DEF Place, CheckpointOn
  <2>4. ASSUME NEW c \in Client, RequeueAffected(c)  PROVE FALSE
    BY <2>0, <2>4 DEF RequeueAffected, requeue
  <2>5. ASSUME NEW c \in Client, NEW k \in Job,
               \/ Submit(c, k) \/ Poll(c, k) \/ Execute(c, k)
               \/ Cancel(c, k) \/ Checkpoint(c, k)
        PROVE  FALSE
    BY <2>0, <2>5 DEF Submit, Poll, Execute, Cancel, Checkpoint
  <2>6. ASSUME NEW c \in Client, NEW n \in Node, NEW kind \in Faults, Inject(c, n, kind)
        PROVE  FALSE
    BY <2>6 DEF Inject
  <2>7. ASSUME NEW c \in Client, NEW k \in Job, NEW D \in SUBSET Client,
               SubmitInterrupting(c, k, D)
        PROVE  FALSE
    <3>1. PICK S \in SUBSET Submitted : requeue(S)
      BY <2>7 DEF SubmitInterrupting
    <3>. QED  BY <2>0, <3>1 DEF requeue
  <2>8. CASE UNCHANGED vars
    BY <2>8 DEF vars
  <2>. QED
    BY <2>1, <2>2, <2>3, <2>4, <2>5, <2>6, <2>7, <2>8 DEF Next, Work, Request
<1>2. TypeOK /\ [Next]_vars =>
        \A j \in Job :
          /\ Becomes(j, "succeeded") => proc[j] = "exited" /\ proc'[j] = "none"
          /\ Becomes(j, "failed") => proc[j] # "none" /\ proc'[j] = "none"
  BY <1>1
<1>. QED  BY <1>2, ClusterTypeCorrect, PTL DEF Safety, FinishedByItsWorker
=============================================================================
