-------------------------- MODULE InferenceApiProofs --------------------------
(***************************************************************************)
(* Theorems about InferenceApi, for any clients, replicas and reports.     *)
(***************************************************************************)
EXTENDS InferenceApi, FiniteSetTheorems, TLAPS

\* A list of replicas keeps its type when snapshots are replaced.
LEMMA SnapshotTypes ==
  /\ NewReplicas \in [Replica -> ReplicaSnapshot]
  /\ NoRow \in Row
  /\ \A r \in Replica : NewReplicas[r].requests = 0
<1>1. Unused \in ReplicaSnapshot /\ Unused.requests = 0
  BY DEF Unused, ReplicaSnapshot, ReplicaState
<1>2. NewReplicas \in [Replica -> ReplicaSnapshot]
  BY <1>1 DEF NewReplicas
<1>. QED  BY <1>1, <1>2 DEF NewReplicas, NoRow, Row

\* The operations of the router keep its type.
LEMMA RouterTypes ==
  ASSUME RoutingTypeOK
  PROVE  /\ register(NewReplicas) => RoutingTypeOK'
         /\ \A s : set_service_state(s) => RoutingTypeOK'
         /\ \A r \in Replica, q, v \in Nat, s \in ReplicaState :
              update_replica(r, q, v, s) => RoutingTypeOK'
         /\ \A r \in Replica, b \in BOOLEAN, t \in BOOLEAN :
              charge(r, b, t) => RoutingTypeOK'
<1>1. register(NewReplicas) => RoutingTypeOK'
  BY SnapshotTypes DEF register, RoutingTypeOK
<1>2. ASSUME NEW list \in [Replica -> ReplicaSnapshot], become(list)
      PROVE  RoutingTypeOK'
  BY <1>2 DEF become, RoutingTypeOK
<1>3. ASSUME NEW s  PROVE set_service_state(s) => RoutingTypeOK'
  <2>1. [r \in Replica |-> [replicas[r] EXCEPT !.state = RouterState(s)]]
          \in [Replica -> ReplicaSnapshot]
    BY DEF RoutingTypeOK, ReplicaSnapshot, ReplicaState, RouterState
  <2>. QED  BY <1>2, <2>1 DEF set_service_state
<1>4. ASSUME NEW r \in Replica, NEW q \in Nat, NEW v \in Nat, NEW s \in ReplicaState
      PROVE  update_replica(r, q, v, s) => RoutingTypeOK'
  <2>1. [replicas EXCEPT ![r] = [queue |-> q, cache |-> v, state |-> s,
                                 requests |-> @.requests]]
          \in [Replica -> ReplicaSnapshot]
    BY DEF RoutingTypeOK, ReplicaSnapshot
  <2>. QED  BY <1>2, <2>1 DEF update_replica
<1>5. ASSUME NEW r \in Replica, NEW b \in BOOLEAN, NEW t \in BOOLEAN
      PROVE  charge(r, b, t) => RoutingTypeOK'
  BY DEF charge, RoutingTypeOK, ReplicaSnapshot
<1>. QED  BY <1>1, <1>3, <1>4, <1>5

-----------------------------------------------------------------------------
(* Types *)

\* What the variables of the handlers are when there are none.
LEMMA NoHandlersTypes ==
  /\ [c \in Client |-> "idle"] \in [Client -> Step]
  /\ [c \in Client |-> "none"] \in [Client -> Task]
  /\ [c \in Client |-> "none"] \in [Client -> ServiceState \cup {"none"}]
  /\ [c \in Client |-> "none"] \in [Client -> Policy \cup {"none"}]
  /\ [c \in Client |-> NoReplica] \in [Client -> Replica \cup {NoReplica}]
  /\ [c \in Client |-> 0] \in [Client -> Nat]
  /\ [c \in Client |-> {}] \in [Client -> SUBSET Replica]
  /\ [c \in Client |-> NoRow] \in [Client -> Row]
BY SnapshotTypes DEF Step, Task

LEMMA InitTypes == Init => TypeOK
<1>. SUFFICES ASSUME Init  PROVE TypeOK
  OBVIOUS
<1>1. RoutingTypeOK
  BY SnapshotTypes DEF Init, RoutingInit, RoutingTypeOK
<1>2. made \in [Replica -> Nat] /\ calls \in 0..MaxCalls
  BY CallsAssumption DEF Init
<1>3. row \in Row /\ state \in ServiceState \cup {"none"} /\ created \in BOOLEAN /\ unsaved \in BOOLEAN
  BY SnapshotTypes DEF Init
<1>. QED
  BY <1>1, <1>2, <1>3, NoHandlersTypes DEF Init, NoHandlers, TypeOK

LEMMA RequestTypes ==
  ASSUME TypeOK, NEW c \in Client, Request(c)
  PROVE  TypeOK'
<1>. USE CallsAssumption DEF begin, enter, goto, set, TypeOK, RoutingTypeOK, routerVars, chooseVars,
         historyVars, Step, Task, ServiceState, Policy
<1>1. CASE Create(c)
  BY <1>1 DEF Create
<1>2. CASE CheckHealth(c)
  BY <1>2 DEF CheckHealth
<1>3. CASE Stop(c)
  BY <1>3 DEF Stop
<1>4. CASE ReadMetrics(c)
  BY <1>4 DEF ReadMetrics
<1>5. ASSUME NEW p \in Policy, NEW h \in {"chat", "route"}, Call(c, h, p)  PROVE TypeOK'
  BY <1>5 DEF Call
<1>. QED  BY <1>1, <1>2, <1>3, <1>4, <1>5 DEF Request

\* A handler that is about to charge a replica has picked one.
Picked == \A c \in Client : pc[c] = "charging" => pick[c] \in Replica

LEMMA ChoosingTypes ==
  ASSUME TypeOK, Picked, NEW c \in Client, Choosing(c)
  PROVE  TypeOK'
<1>1. CASE Gate(c)
  BY <1>1 DEF Gate, finish, goto, set, TypeOK, RoutingTypeOK, routerVars, historyVars,
              Step, Task
<1>2. CASE Report(c)
  <2>1. RoutingTypeOK'
    <3>1. ASSUME NEW r \in Replica, NEW m \in Reports,
                 update_replica(r, m.queue, m.cache, m.state)
          PROVE  RoutingTypeOK'
      <4>1. m.queue \in Nat /\ m.cache \in Nat /\ m.state \in ReplicaState
        BY ReportsAssumption
      <4>. QED  BY <3>1, <4>1, RouterTypes DEF TypeOK
    <3>2. CASE UNCHANGED routerVars
      BY <3>2 DEF TypeOK, RoutingTypeOK, routerVars
    <3>. QED  BY <1>2, <3>1, <3>2 DEF Report
  <2>. QED  BY <1>2, <2>1 DEF Report, goto, TypeOK, chooseVars, historyVars, Step
<1>3. CASE Refuse(c)
  BY <1>3 DEF Refuse, finish, goto, set, TypeOK, RoutingTypeOK, routerVars, historyVars,
              Step, Task
<1>4. CASE Choose(c)
  <2>1. nextIndex \in Nat /\ ReadyIn(replicas) \subseteq Replica
    BY DEF TypeOK, RoutingTypeOK, ReadyIn
  <2>. QED
    BY <1>4, <2>1 DEF Choose, goto, set, TypeOK, RoutingTypeOK, routerVars, historyVars, Step
<1>5. CASE Charge(c)
  <2>1. pick[c] \in Replica
    BY <1>5 DEF Charge, Picked
  <2>2. RoutingTypeOK'
    <3>1. (policy[c] = "round-robin") \in BOOLEAN /\ InTurn(c) \in BOOLEAN
      BY DEF InTurn
    <3>. QED  BY <1>5, <2>1, <3>1, RouterTypes DEF Charge, TypeOK
  <2>3. made' \in [Replica -> Nat]
    BY <1>5, <2>1 DEF Charge, TypeOK
  <2>. QED
    BY <1>5, <2>2, <2>3 DEF Charge, goto, set, TypeOK, Step
<1>. QED  BY <1>1, <1>2, <1>3, <1>4, <1>5 DEF Choosing

LEMMA ServingTypes ==
  ASSUME TypeOK, NEW c \in Client, Serving(c)
  PROVE  TypeOK'
<1>. USE DEF finish, enter, goto, set, TypeOK, RoutingTypeOK, routerVars, chooseVars, historyVars,
         Step, Task, ServiceState
<1>1. CASE Answer(c)
  BY <1>1 DEF Answer
<1>2. CASE Fail(c)
  BY <1>2 DEF Fail
<1>3. CASE FailUnsaved(c)
  BY <1>3 DEF FailUnsaved
<1>. QED  BY <1>1, <1>2, <1>3 DEF Serving

LEMMA TellingTypes ==
  ASSUME TypeOK, NEW c \in Client, Telling(c)
  PROVE  TypeOK'
<1>1. CASE ProbeAnswers(c)
  <2>1. state' \in ServiceState \cup {"none"} /\ task' \in [Client -> Task]
    BY <1>1 DEF ProbeAnswers, finish, set, TypeOK, ServiceState, Task
  <2>2. pc' \in [Client -> Step]
    BY <1>1 DEF ProbeAnswers, finish, goto, TypeOK, Step
  <2>. QED
    BY <1>1, <2>1, <2>2 DEF ProbeAnswers, TypeOK, RoutingTypeOK, routerVars, chooseVars, historyVars
<1>2. CASE Observe(c)
  BY <1>2 DEF Observe, goto, set, TypeOK, RoutingTypeOK, routerVars, chooseVars, historyVars,
              Step
<1>3. CASE SetServiceState(c)
  <2>1. RoutingTypeOK'
    <3>1. CASE set_service_state(seen[c])
      BY <3>1, RouterTypes DEF TypeOK
    <3>2. CASE UNCHANGED routerVars
      BY <3>2 DEF TypeOK, RoutingTypeOK, routerVars
    <3>. QED  BY <1>3, <3>1, <3>2 DEF SetServiceState
  <2>2. pc' \in [Client -> Step] /\ task' \in [Client -> Task]
    <3>1. CASE finish(c)
      BY <3>1 DEF finish, goto, set, TypeOK, Step, Task
    <3>2. CASE UNCHANGED task /\ \E s \in Step : goto(c, s)
      BY <3>2 DEF goto, TypeOK
    <3>3. ~finish(c) => UNCHANGED task /\ \E s \in Step : goto(c, s)
      BY <1>3 DEF SetServiceState, Step
    <3>. QED  BY <3>1, <3>2, <3>3
  <2>3. policy' \in [Client -> Policy \cup {"none"}] /\ seen' \in [Client -> ServiceState \cup {"none"}]
    BY <1>3 DEF SetServiceState, set, TypeOK
  <2>. QED  BY <1>3, <2>1, <2>2, <2>3 DEF SetServiceState, TypeOK, historyVars
<1>4. CASE Gauge(c)
  <2>1. RoutingTypeOK'
    <3>1. ASSUME NEW m \in Reports,
                 update_replica(0, m.queue, m.cache, RouterState(seen[c]))
          PROVE  RoutingTypeOK'
      <4>1. /\ m.queue \in Nat /\ m.cache \in Nat /\ 0 \in Replica
            /\ RouterState(seen[c]) \in ReplicaState
        BY ReportsAssumption, ReplicaAssumption DEF Replica, ReplicaState, RouterState
      <4>. QED  BY <3>1, <4>1, RouterTypes DEF TypeOK
    <3>2. CASE UNCHANGED routerVars
      BY <3>2 DEF TypeOK, RoutingTypeOK, routerVars
    <3>. QED  BY <1>4, <3>1, <3>2 DEF Gauge
  <2>. QED
    BY <1>4, <2>1 DEF Gauge, finish, goto, set, TypeOK, chooseVars, historyVars, Step, Task
<1>. QED  BY <1>1, <1>2, <1>3, <1>4 DEF Telling

LEMMA SavingTypes ==
  ASSUME TypeOK, NEW c \in Client, Saving(c)
  PROVE  TypeOK'
<1>1. CASE RouterRegister(c)
  <2>1. RoutingTypeOK'
    BY <1>1, RouterTypes DEF RouterRegister, TypeOK
  <2>. QED
    BY <1>1, <2>1 DEF RouterRegister, goto, TypeOK, chooseVars, historyVars, Step
<1>2. CASE Read(c)
  <2>1. [state |-> state, listed |-> routable,
         replicas |-> IF routable THEN replicas ELSE NewReplicas] \in Row
    BY SnapshotTypes DEF TypeOK, RoutingTypeOK, Row
  <2>. QED
    BY <1>2, <2>1 DEF Read, goto, set, TypeOK, RoutingTypeOK, routerVars, chooseVars, historyVars, Step
<1>3. CASE Commit(c)
  <2>1. Merged(c) \in Row
    BY DEF Merged, TypeOK, Row
  <2>. QED
    BY <1>3, <2>1, SnapshotTypes
    DEF Commit, finish, goto, set, TypeOK, RoutingTypeOK, routerVars, chooseVars, Step, Task
<1>4. CASE CommitFails(c)
  BY <1>4, SnapshotTypes
  DEF CommitFails, finish, goto, set, TypeOK, RoutingTypeOK, routerVars, chooseVars, Step, Task
<1>. QED  BY <1>1, <1>2, <1>3, <1>4 DEF Saving

LEMMA RestartTypes == TypeOK /\ Restart => TypeOK'
<1>. SUFFICES ASSUME TypeOK, Restart  PROVE TypeOK'
  OBVIOUS
<1>1. row \in Row /\ row.state \in ServiceState \cup {"none"}
      /\ row.replicas \in [Replica -> ReplicaSnapshot]
  BY DEF TypeOK, Row
<1>2. routable' \in BOOLEAN
  <2>1. (row.state # "none") \in BOOLEAN
    OBVIOUS
  <2>. QED  BY <2>1 DEF Restart
<1>3. RoutingTypeOK'
  BY <1>1, <1>2 DEF Restart, RoutingTypeOK
<1>. QED  BY <1>1, <1>3, NoHandlersTypes DEF Restart, TypeOK

\* Only Choose leads to the charge.
LEMMA PickedStays == TypeOK /\ Picked /\ [Next]_vars => Picked'
<1>. SUFFICES ASSUME TypeOK, Picked, [Next]_vars, NEW d \in Client, pc'[d] = "charging"
              PROVE  pick'[d] \in Replica
  BY DEF Picked
<1>0. pc \in [Client -> Step] /\ pick \in [Client -> Replica \cup {NoReplica}]
  BY DEF TypeOK
<1>1. ASSUME pc[d] = "charging", UNCHANGED pick  PROVE pick'[d] \in Replica
  BY <1>1 DEF Picked
<1>2. ASSUME NEW c \in Client, Request(c)  PROVE pick'[d] \in Replica
  BY <1>0, <1>1, <1>2
  DEF Request, Create, CheckHealth, Stop, ReadMetrics, Call, begin, enter, goto, chooseVars
<1>3. ASSUME NEW c \in Client, Gate(c) \/ Report(c) \/ Refuse(c)  PROVE pick'[d] \in Replica
  BY <1>0, <1>1, <1>3 DEF Gate, Report, Refuse, finish, goto, chooseVars
<1>4. ASSUME NEW c \in Client, Choose(c)  PROVE pick'[d] \in Replica
  <2>1. ReadyIn(replicas) \subseteq Replica
    BY DEF TypeOK, RoutingTypeOK, ReadyIn
  <2>2. CASE d = c
    BY <1>0, <1>4, <2>1, <2>2 DEF Choose, set
  <2>3. CASE d # c
    BY <1>0, <1>4, <2>3 DEF Choose, goto, set, Picked
  <2>. QED  BY <2>2, <2>3
<1>5. ASSUME NEW c \in Client, Charge(c)  PROVE pick'[d] \in Replica
  <2>1. d # c /\ pc[d] = "charging"
    BY <1>0, <1>5 DEF Charge, goto
  <2>. QED  BY <1>0, <1>5, <2>1 DEF Charge, set, Picked
<1>6. ASSUME NEW c \in Client, Serving(c)  PROVE pick'[d] \in Replica
  BY <1>0, <1>1, <1>6
  DEF Serving, Answer, Fail, FailUnsaved, finish, enter, goto, chooseVars
<1>7. ASSUME NEW c \in Client, ProbeAnswers(c) \/ Observe(c) \/ Gauge(c)
      PROVE  pick'[d] \in Replica
  BY <1>0, <1>1, <1>7 DEF ProbeAnswers, Observe, Gauge, finish, goto, chooseVars
<1>8. ASSUME NEW c \in Client, SetServiceState(c)  PROVE pick'[d] \in Replica
  BY <1>0, <1>1, <1>8 DEF SetServiceState, finish, goto
<1>9. ASSUME NEW c \in Client, Saving(c)  PROVE pick'[d] \in Replica
  BY <1>0, <1>1, <1>9
  DEF Saving, RouterRegister, Read, Commit, CommitFails, finish, goto, chooseVars
<1>10. CASE Restart
  BY <1>10 DEF Restart
<1>11. CASE UNCHANGED vars
  BY <1>1, <1>11 DEF vars, chooseVars
<1>. QED
  BY <1>2, <1>3, <1>4, <1>5, <1>6, <1>7, <1>8, <1>9, <1>10, <1>11
  DEF Next, Choosing, Telling

LEMMA TypesStay == TypeOK /\ Picked /\ [Next]_vars => TypeOK' /\ Picked'
<1>. SUFFICES ASSUME TypeOK, Picked, [Next]_vars  PROVE TypeOK'
  BY PickedStays
<1>1. CASE UNCHANGED vars
  BY <1>1 DEF vars, routerVars, chooseVars, historyVars, TypeOK, RoutingTypeOK
<1>. QED
  BY <1>1, RequestTypes, ChoosingTypes, ServingTypes, TellingTypes, SavingTypes, RestartTypes
  DEF Next

LEMMA TypesAlways == Safety => [](TypeOK /\ Picked)
<1>1. Init => Picked
  BY DEF Init, NoHandlers, Picked
<1>. QED  BY <1>1, InitTypes, TypesStay, PTL DEF Safety

\* Every variable of the handlers, the router and the tables keeps its type.
THEOREM ApiTypeCorrect == Safety => []TypeOK
BY TypesAlways, PTL

-----------------------------------------------------------------------------
(* A created service survives *)

\* Handlers work for services that exist, so what they save is not "none", and
\* what is in the tables is known to the process.
NamesExisting ==
    /\ \A c \in Client : pc[c] # "idle" => state # "none"
    /\ \A c \in Client : pc[c] = "committing" => copy[c].state # "none"
    /\ row.state # "none" => state # "none"
    /\ created => row.state # "none"

LEMMA NamesStay == TypeOK /\ NamesExisting /\ [Next]_vars => NamesExisting'
<1>. SUFFICES ASSUME TypeOK, NamesExisting, [Next]_vars  PROVE NamesExisting'
  OBVIOUS
<1>0. pc \in [Client -> Step] /\ copy \in [Client -> Row]
  BY DEF TypeOK
<1>1. ASSUME NEW c \in Client, pc[c] # "idle" \/ state # "none" \/ state' # "none",
             \A d \in Client \ {c} : pc'[d] = pc[d] /\ copy'[d] = copy[d],
             pc'[c] # "committing", state' # "none",
             UNCHANGED <<row, created>>
      PROVE  NamesExisting'
  BY <1>0, <1>1 DEF NamesExisting
<1>2. ASSUME NEW c \in Client, Request(c)  PROVE NamesExisting'
  <2>1. state' # "none"
    BY <1>2 DEF Request, Create, CheckHealth, Stop, ReadMetrics, Call, begin, NamesExisting
  <2>2. pc'[c] # "committing" /\ UNCHANGED <<row, created, copy>>
        /\ \A d \in Client \ {c} : pc'[d] = pc[d]
    BY <1>0, <1>2
    DEF Request, Create, CheckHealth, Stop, ReadMetrics, Call, begin, enter, goto
  <2>. QED  BY <1>1, <2>1, <2>2
<1>3. ASSUME NEW c \in Client, Choosing(c)  PROVE NamesExisting'
  <2>1. state # "none" /\ UNCHANGED <<state, row, created, copy>>
    BY <1>3
    DEF Choosing, Gate, Report, Refuse, Choose, Charge, historyVars, NamesExisting
  <2>2. pc'[c] # "committing" /\ \A d \in Client \ {c} : pc'[d] = pc[d]
    BY <1>0, <1>3
    DEF Choosing, Gate, Report, Refuse, Choose, Charge, finish, goto
  <2>. QED  BY <1>1, <2>1, <2>2
<1>4. ASSUME NEW c \in Client, Serving(c)  PROVE NamesExisting'
  <2>1. state' # "none" /\ UNCHANGED <<row, created, copy>>
    BY <1>4 DEF Serving, Answer, Fail, FailUnsaved, historyVars, NamesExisting
  <2>2. pc'[c] # "committing" /\ \A d \in Client \ {c} : pc'[d] = pc[d]
    BY <1>0, <1>4 DEF Serving, Answer, Fail, FailUnsaved, finish, enter, goto
  <2>. QED  BY <1>1, <2>1, <2>2
<1>5. ASSUME NEW c \in Client, Telling(c)  PROVE NamesExisting'
  <2>1. state' # "none" /\ UNCHANGED <<row, created, copy>>
    BY <1>5
    DEF Telling, ProbeAnswers, Observe, SetServiceState, Gauge, historyVars, NamesExisting
  <2>2. pc'[c] # "committing" /\ \A d \in Client \ {c} : pc'[d] = pc[d]
    BY <1>0, <1>5
    DEF Telling, ProbeAnswers, Observe, SetServiceState, Gauge, finish, goto
  <2>. QED  BY <1>1, <2>1, <2>2
<1>6. ASSUME NEW c \in Client, RouterRegister(c)  PROVE NamesExisting'
  BY <1>0, <1>1, <1>6 DEF RouterRegister, goto, historyVars, NamesExisting
<1>7. ASSUME NEW c \in Client, Read(c)  PROVE NamesExisting'
  BY <1>0, <1>7 DEF Read, goto, set, historyVars, NamesExisting
<1>8. ASSUME NEW c \in Client, Commit(c)  PROVE NamesExisting'
  <2>1. row'.state # "none" /\ state # "none"
    BY <1>8 DEF Commit, Merged, NamesExisting
  <2>2. \A d \in Client : pc'[d] # "idle" => d # c /\ pc'[d] = pc[d] /\ copy'[d] = copy[d]
    BY <1>0, <1>8 DEF Commit, finish, goto, set
  <2>. QED  BY <1>8, <2>1, <2>2 DEF Commit, NamesExisting
<1>9. ASSUME NEW c \in Client, CommitFails(c)  PROVE NamesExisting'
  BY <1>0, <1>1, <1>9 DEF CommitFails, finish, goto, set, NamesExisting
<1>10. CASE Restart
  BY <1>10 DEF Restart, NamesExisting
<1>11. CASE UNCHANGED vars
  BY <1>11 DEF vars, historyVars, NamesExisting
<1>. QED
  BY <1>2, <1>3, <1>4, <1>5, <1>6, <1>7, <1>8, <1>9, <1>10, <1>11 DEF Next, Saving

LEMMA NamesAlways == Safety => []NamesExisting
<1>1. Init => NamesExisting
  BY DEF Init, NoHandlers, NoRow, NamesExisting
<1>. QED  BY <1>1, NamesStay, TypesAlways, PTL DEF Safety

\* A service whose creation was answered stays in the tables and known to the
\* process, for any number of handlers, saves in any order and restarts.
THEOREM CreatedAlwaysSurvives == Safety => []CreatedSurvives
<1>1. NamesExisting => CreatedSurvives
  BY DEF NamesExisting, CreatedSurvives
<1>. QED  BY <1>1, NamesAlways, PTL

-----------------------------------------------------------------------------
(* Counts *)

\* Counts that are on their way to the tables are not invented either.
Counted(list) == \A r \in Replica : list[r].requests <= made[r]
CountsInvariant ==
    /\ Counted(replicas)
    /\ Counted(row.replicas)
    /\ \A c \in Client : Counted(copy[c].replicas)

LEMMA CountsStay == TypeOK /\ Picked /\ CountsInvariant /\ [Next]_vars => CountsInvariant'
<1>. SUFFICES ASSUME TypeOK, Picked, CountsInvariant, [Next]_vars  PROVE CountsInvariant'
  OBVIOUS
<1>0. /\ made \in [Replica -> Nat]
      /\ replicas \in [Replica -> ReplicaSnapshot]
      /\ row.replicas \in [Replica -> ReplicaSnapshot]
      /\ copy \in [Client -> Row]
      /\ \A c \in Client : copy[c].replicas \in [Replica -> ReplicaSnapshot]
  BY DEF TypeOK, RoutingTypeOK, Row
<1>1. Counted(NewReplicas) /\ NoRow.replicas = NewReplicas
  BY <1>0, SnapshotTypes DEF Counted, NoRow
<1>2. ASSUME UNCHANGED <<row, copy, made>>, Counted(replicas)'  PROVE CountsInvariant'
  BY <1>2 DEF CountsInvariant, Counted
<1>3. ASSUME NEW list, become(list), \A r \in Replica : list[r].requests = replicas[r].requests
      PROVE  UNCHANGED made => Counted(replicas)'
  BY <1>3 DEF become, CountsInvariant, Counted
<1>4. ASSUME NEW s, set_service_state(s)  PROVE UNCHANGED made => Counted(replicas)'
  <2>1. \A r \in Replica :
          [q \in Replica |-> [replicas[q] EXCEPT !.state = RouterState(s)]][r].requests
            = replicas[r].requests
    BY <1>0 DEF ReplicaSnapshot
  <2>. QED  BY <1>3, <1>4, <2>1 DEF set_service_state
<1>5. ASSUME NEW q \in Replica, NEW a, NEW b, NEW s, update_replica(q, a, b, s)
      PROVE  UNCHANGED made => Counted(replicas)'
  <2>1. \A r \in Replica :
          [replicas EXCEPT ![q] = [queue |-> a, cache |-> b, state |-> s,
                                   requests |-> @.requests]][r].requests
            = replicas[r].requests
    BY <1>0 DEF ReplicaSnapshot
  <2>. QED  BY <1>3, <1>5, <2>1 DEF update_replica
<1>6. UNCHANGED <<replicas, made>> => Counted(replicas)'
  BY DEF CountsInvariant, Counted
<1>7. ASSUME NEW c \in Client, Request(c) \/ Serving(c)  PROVE CountsInvariant'
  BY <1>2, <1>6, <1>7
  DEF Request, Create, CheckHealth, Stop, ReadMetrics, Call, Serving, Answer, Fail, FailUnsaved,
      routerVars, historyVars
<1>8. ASSUME NEW c \in Client, Gate(c) \/ Report(c) \/ Refuse(c) \/ Choose(c)
      PROVE  CountsInvariant'
  BY <1>2, <1>5, <1>6, <1>8 DEF Gate, Report, Refuse, Choose, routerVars, historyVars
<1>9. ASSUME NEW c \in Client, Charge(c)  PROVE CountsInvariant'
  <2>1. pick[c] \in Replica
    BY <1>9 DEF Charge, Picked
  <2>2. /\ made' = [made EXCEPT ![pick[c]] = @ + 1]
        /\ replicas' = [replicas EXCEPT ![pick[c]].requests = @ + 1]
        /\ UNCHANGED <<row, copy>>
    BY <1>9 DEF Charge, charge
  <2>3. \A r \in Replica : made[r] <= made'[r]
    BY <1>0, <2>1, <2>2
  <2>4. ASSUME NEW r \in Replica  PROVE replicas'[r].requests <= made'[r]
    <3>1. replicas[r].requests <= made[r] /\ replicas[r].requests \in Nat /\ made[r] \in Nat
      BY <1>0 DEF CountsInvariant, Counted, ReplicaSnapshot
    <3>2. CASE r = pick[c]
      BY <1>0, <2>1, <2>2, <3>1, <3>2 DEF ReplicaSnapshot
    <3>3. CASE r # pick[c]
      BY <1>0, <2>1, <2>2, <3>1, <3>3
    <3>. QED  BY <3>2, <3>3
  <2>5. ASSUME NEW list \in [Replica -> ReplicaSnapshot], Counted(list)
        PROVE  \A r \in Replica : list[r].requests <= made'[r]
    <3>1. ASSUME NEW r \in Replica  PROVE list[r].requests <= made'[r]
      <4>1. list[r].requests \in Nat /\ made[r] \in Nat /\ made'[r] \in Nat
        BY <1>0, <2>1, <2>2 DEF ReplicaSnapshot
      <4>. QED  BY <2>3, <2>5, <4>1 DEF Counted
    <3>. QED  BY <3>1
  <2>. QED  BY <1>0, <2>2, <2>4, <2>5 DEF CountsInvariant, Counted
<1>10. ASSUME NEW c \in Client, Telling(c)  PROVE CountsInvariant'
  <2>1. 0 \in Replica
    BY ReplicaAssumption DEF Replica
  <2>. QED
    BY <1>2, <1>4, <1>5, <1>6, <1>10, <2>1
    DEF Telling, ProbeAnswers, Observe, SetServiceState, Gauge, routerVars, historyVars
<1>11. ASSUME NEW c \in Client, RouterRegister(c)  PROVE CountsInvariant'
  <2>1. replicas' = NewReplicas /\ UNCHANGED <<row, copy, made>>
    BY <1>11 DEF RouterRegister, register, historyVars
  <2>. QED  BY <1>1, <1>2, <2>1 DEF Counted
<1>12. ASSUME NEW c \in Client, Read(c)  PROVE CountsInvariant'
  <2>1. copy'[c].replicas \in {replicas, NewReplicas} /\ \A d \in Client \ {c} : copy'[d] = copy[d]
    BY <1>0, <1>12 DEF Read, set
  <2>2. UNCHANGED <<replicas, row, made>>
    BY <1>12 DEF Read, routerVars, historyVars
  <2>. QED  BY <1>1, <2>1, <2>2 DEF CountsInvariant, Counted
<1>13. ASSUME NEW c \in Client, Commit(c) \/ CommitFails(c)  PROVE CountsInvariant'
  <2>1. \A d \in Client : copy'[d] \in {copy[d], NoRow}
    BY <1>0, <1>13 DEF Commit, CommitFails, set
  <2>2. row'.replicas \in {row.replicas, copy[c].replicas}
    BY <1>13 DEF Commit, CommitFails, Merged
  <2>3. UNCHANGED <<replicas, made>>
    BY <1>13 DEF Commit, CommitFails, routerVars
  <2>. QED  BY <1>1, <2>1, <2>2, <2>3 DEF CountsInvariant, Counted
<1>14. CASE Restart
  <2>1. replicas' = row.replicas /\ UNCHANGED <<row, made>> /\ \A d \in Client : copy'[d] = NoRow
    BY <1>14 DEF Restart
  <2>. QED  BY <1>1, <2>1 DEF CountsInvariant, Counted
<1>15. CASE UNCHANGED vars
  BY <1>2, <1>6, <1>15 DEF vars, routerVars, historyVars
<1>. QED
  BY <1>7, <1>8, <1>9, <1>10, <1>11, <1>12, <1>13, <1>14, <1>15 DEF Next, Choosing, Saving

\* No count of a replica, in memory or in the tables, exceeds the choices made,
\* whatever saves overtake one another and whenever the process restarts.
THEOREM CountsAreNeverInvented == Safety => []CountsNotInvented
<1>1. Init => CountsInvariant
  BY SnapshotTypes DEF Init, RoutingInit, NoHandlers, NoRow, CountsInvariant, Counted
<1>2. CountsInvariant => CountsNotInvented
  BY DEF CountsInvariant, Counted, CountsNotInvented
<1>. QED  BY <1>1, <1>2, CountsStay, TypesAlways, PTL DEF Safety

-----------------------------------------------------------------------------
(* The state is saved *)

\* The handler of c will save the present state, or a newer one.
WillSave(c) ==
    \/ pc[c] \in {"registering", "observing", "saving"}
    \/ pc[c] = "setting" /\ task[c] \in {"failure", "health"}
    \/ pc[c] = "committing" /\ copy[c].state = state

\* A router that does not know the service is about to be told by the creation
\* itself, which saves afterwards.
SavingInvariant ==
    /\ \A c \in Client : pc[c] \in {"probing", "observing"} => task[c] \in {"failure", "health"}
    /\ state # "none" /\ ~routable => \E c \in Client : pc[c] = "registering"
    /\ ~unsaved => row.state = state \/ \E c \in Client : WillSave(c)

LEMMA SavingStays ==
  TypeOK /\ NamesExisting /\ SavingInvariant /\ [Next]_vars => SavingInvariant'
<1>. SUFFICES ASSUME TypeOK, NamesExisting, SavingInvariant, [Next]_vars  PROVE SavingInvariant'
  OBVIOUS
<1>0. /\ pc \in [Client -> Step] /\ task \in [Client -> Task] /\ copy \in [Client -> Row]
      /\ unsaved \in BOOLEAN /\ routable \in BOOLEAN
  BY DEF TypeOK, RoutingTypeOK
\* The state stays, and c, which is not registering, goes on or saves no less.
<1>1. ASSUME NEW c \in Client,
             \A d \in Client \ {c} : pc'[d] = pc[d] /\ task'[d] = task[d] /\ copy'[d] = copy[d],
             pc[c] # "registering",
             pc'[c] \in {"probing", "observing"} => task'[c] \in {"failure", "health"},
             WillSave(c) => WillSave(c)' \/ \E d \in Client \ {c} : WillSave(d),
             UNCHANGED <<state, row, routable, unsaved>>
      PROVE  SavingInvariant'
  <2>1. \A d \in Client \ {c} : WillSave(d) => WillSave(d)'
    BY <1>1 DEF WillSave
  <2>2. \A d \in Client : WillSave(d) => \E e \in Client : WillSave(e)'
    BY <1>1, <2>1
  <2>3. \A d \in Client : pc'[d] \in {"probing", "observing"} => task'[d] \in {"failure", "health"}
    BY <1>1 DEF SavingInvariant
  <2>4. state' # "none" /\ ~routable' => \E d \in Client : pc'[d] = "registering"
    BY <1>1 DEF SavingInvariant
  <2>5. ~unsaved' => row'.state = state' \/ \E d \in Client : WillSave(d)'
    BY <1>1, <2>2 DEF SavingInvariant
  <2>. QED  BY <2>3, <2>4, <2>5 DEF SavingInvariant
\* Whatever happens to the state, c will save it.
<1>2. ASSUME NEW c \in Client,
             \A d \in Client \ {c} : pc'[d] = pc[d] /\ task'[d] = task[d],
             pc[c] # "registering" \/ routable',
             pc'[c] \in {"probing", "observing"} => task'[c] \in {"failure", "health"},
             WillSave(c)',
             state # "none" \/ pc'[c] = "registering", routable => routable'
      PROVE  SavingInvariant'
  <2>1. \A d \in Client : pc'[d] \in {"probing", "observing"} => task'[d] \in {"failure", "health"}
    BY <1>2 DEF SavingInvariant
  <2>2. state' # "none" /\ ~routable' => \E d \in Client : pc'[d] = "registering"
    <3>1. CASE pc'[c] = "registering"
      BY <3>1
    <3>2. CASE state # "none"
      BY <1>2, <3>2 DEF SavingInvariant
    <3>. QED  BY <1>2, <3>1, <3>2
  <2>. QED  BY <1>2, <2>1, <2>2 DEF SavingInvariant
\* No promise is left.
<1>3. ASSUME NEW c \in Client, unsaved' \/ row'.state = state',
             \A d \in Client \ {c} : pc'[d] = pc[d] /\ task'[d] = task[d],
             pc[c] # "registering", pc'[c] = "idle", state # "none", UNCHANGED routable
      PROVE  SavingInvariant'
  <2>1. \A d \in Client : pc'[d] \in {"probing", "observing"} => task'[d] \in {"failure", "health"}
    BY <1>3 DEF SavingInvariant
  <2>2. state' # "none" /\ ~routable' => \E d \in Client : pc'[d] = "registering"
    BY <1>3 DEF SavingInvariant
  <2>. QED  BY <1>3, <2>1, <2>2 DEF SavingInvariant
<1>4. ASSUME NEW c \in Client, Create(c)  PROVE SavingInvariant'
  <2>1. /\ \A d \in Client \ {c} : pc'[d] = pc[d] /\ task'[d] = task[d]
        /\ pc'[c] = "registering" /\ pc[c] = "idle"
    BY <1>0, <1>4 DEF Create, begin, enter, goto, set
  <2>2. routable' = routable /\ WillSave(c)'
    BY <1>4, <2>1 DEF Create, routerVars, WillSave
  <2>. QED  BY <1>2, <2>1, <2>2
<1>5. ASSUME NEW c \in Client, CheckHealth(c)  PROVE SavingInvariant'
  <2>1. /\ \A d \in Client \ {c} : pc'[d] = pc[d] /\ task'[d] = task[d] /\ copy'[d] = copy[d]
        /\ pc[c] = "idle" /\ task'[c] = "health"
    BY <1>0, <1>5 DEF CheckHealth, begin, enter, goto, set
  <2>2. UNCHANGED <<state, row, routable, unsaved>> /\ ~WillSave(c)
    BY <1>5, <2>1 DEF CheckHealth, routerVars, WillSave
  <2>. QED  BY <1>1, <2>1, <2>2
<1>6. ASSUME NEW c \in Client, Stop(c)  PROVE SavingInvariant'
  <2>1. /\ \A d \in Client \ {c} : pc'[d] = pc[d] /\ task'[d] = task[d]
        /\ pc[c] = "idle" /\ pc'[c] = "saving"
    BY <1>0, <1>6 DEF Stop, begin, enter, goto, set
  <2>2. routable' = routable /\ WillSave(c)' /\ state # "none"
    BY <1>6, <2>1 DEF Stop, routerVars, WillSave
  <2>. QED  BY <1>2, <2>1, <2>2
<1>7. ASSUME NEW c \in Client,
             ReadMetrics(c) \/ \E h \in {"chat", "route"}, p \in Policy : Call(c, h, p)
      PROVE  SavingInvariant'
  <2>1. /\ \A d \in Client \ {c} : pc'[d] = pc[d] /\ task'[d] = task[d] /\ copy'[d] = copy[d]
        /\ pc[c] = "idle" /\ pc'[c] \notin {"probing", "observing"}
    BY <1>0, <1>7 DEF ReadMetrics, Call, begin, enter, goto, set
  <2>2. UNCHANGED <<state, row, routable, unsaved>> /\ ~WillSave(c)
    BY <1>7, <2>1 DEF ReadMetrics, Call, routerVars, WillSave
  <2>. QED  BY <1>1, <2>1, <2>2
<1>8. ASSUME NEW c \in Client, Choosing(c) \/ Answer(c) \/ Gauge(c)  PROVE SavingInvariant'
  <2>1. /\ \A d \in Client \ {c} : pc'[d] = pc[d] /\ task'[d] = task[d] /\ copy'[d] = copy[d]
        /\ pc[c] \in {"gating", "reporting", "choosing", "charging", "serving", "gauging"}
        /\ pc'[c] \notin {"probing", "observing"}
    BY <1>0, <1>8
    DEF Choosing, Gate, Report, Refuse, Choose, Charge, Answer, Gauge, finish, goto, set
  <2>2. UNCHANGED <<state, row, unsaved>> /\ ~WillSave(c)
    BY <1>8, <2>1
    DEF Choosing, Gate, Report, Refuse, Choose, Charge, Answer, Gauge, historyVars, WillSave
  <2>3. routable' = routable
    BY <1>8
    DEF Choosing, Gate, Report, Refuse, Choose, Charge, Answer, Gauge, routerVars,
        charge, update_replica, become
  <2>. QED  BY <1>1, <2>1, <2>2, <2>3
<1>9. ASSUME NEW c \in Client, Fail(c)  PROVE SavingInvariant'
  <2>1. /\ \A d \in Client \ {c} : pc'[d] = pc[d] /\ task'[d] = task[d]
        /\ pc[c] = "serving" /\ pc'[c] = "observing" /\ task'[c] = "failure"
    BY <1>0, <1>9 DEF Fail, enter, goto, set
  <2>2. routable' = routable /\ WillSave(c)' /\ state # "none"
    BY <1>9, <2>1 DEF Fail, routerVars, WillSave, NamesExisting
  <2>. QED  BY <1>2, <2>1, <2>2
<1>10. ASSUME NEW c \in Client, FailUnsaved(c)  PROVE SavingInvariant'
  <2>1. /\ \A d \in Client \ {c} : pc'[d] = pc[d] /\ task'[d] = task[d]
        /\ pc[c] = "serving" /\ pc'[c] = "idle" /\ unsaved'
    BY <1>0, <1>10 DEF FailUnsaved, finish, goto, set
  <2>2. routable' = routable /\ state # "none"
    BY <1>10, <2>1 DEF FailUnsaved, routerVars, NamesExisting
  <2>. QED  BY <1>3, <2>1, <2>2
<1>11. ASSUME NEW c \in Client, ProbeAnswers(c)  PROVE SavingInvariant'
  <2>1. /\ \A d \in Client \ {c} : pc'[d] = pc[d] /\ task'[d] = task[d]
        /\ pc[c] = "probing" /\ UNCHANGED <<row, routable, unsaved, copy>> /\ state # "none"
    BY <1>0, <1>11
    DEF ProbeAnswers, finish, goto, set, routerVars, historyVars, NamesExisting
  <2>2. CASE pc'[c] = "observing" /\ UNCHANGED task
    <3>1. task'[c] \in {"failure", "health"} /\ WillSave(c)'
      BY <2>1, <2>2 DEF SavingInvariant, WillSave
    <3>. QED  BY <1>2, <2>1, <2>2, <3>1
  <2>3. CASE pc'[c] = "idle" /\ UNCHANGED state
    <3>1. ~WillSave(c)
      BY <2>1 DEF WillSave
    <3>. QED  BY <1>1, <2>1, <2>3, <3>1
  <2>. QED  BY <1>0, <1>11, <2>2, <2>3 DEF ProbeAnswers, finish, goto
<1>12. ASSUME NEW c \in Client, Observe(c)  PROVE SavingInvariant'
  <2>1. /\ \A d \in Client \ {c} : pc'[d] = pc[d]
        /\ pc[c] = "observing" /\ pc'[c] = "setting"
        /\ UNCHANGED <<task, copy, state, row, routable, unsaved>>
    BY <1>0, <1>12 DEF Observe, goto, routerVars, historyVars
  <2>2. WillSave(c)'
    BY <2>1 DEF SavingInvariant, WillSave
  <2>. QED  BY <1>1, <2>1, <2>2
<1>13. ASSUME NEW c \in Client, SetServiceState(c)  PROVE SavingInvariant'
  <2>1. /\ \A d \in Client \ {c} : pc'[d] = pc[d] /\ task'[d] = task[d] /\ copy'[d] = copy[d]
        /\ pc[c] = "setting" /\ UNCHANGED <<state, row, unsaved>>
    BY <1>0, <1>13 DEF SetServiceState, finish, goto, set, historyVars
  <2>2. CASE ~routable
    <3>1. routable' = routable /\ pc'[c] = "idle"
      BY <1>0, <1>13, <2>2 DEF SetServiceState, finish, goto, routerVars
    <3>2. PICK d \in Client : pc[d] = "registering"
      BY <2>1, <2>2 DEF NamesExisting, SavingInvariant
    <3>3. d # c /\ WillSave(d)
      BY <2>1, <3>2 DEF WillSave
    <3>. QED  BY <1>1, <2>1, <3>1, <3>3
  <2>3. CASE routable
    <3>1. routable' = routable /\ pc'[c] \notin {"probing", "observing"}
      BY <1>0, <1>13, <2>3 DEF SetServiceState, goto, set_service_state, become
    <3>2. WillSave(c) => WillSave(c)'
      BY <1>0, <1>13, <2>1, <2>3 DEF SetServiceState, goto, WillSave
    <3>. QED  BY <1>1, <2>1, <3>1, <3>2
  <2>. QED  BY <2>2, <2>3
<1>14. ASSUME NEW c \in Client, RouterRegister(c)  PROVE SavingInvariant'
  <2>1. /\ \A d \in Client \ {c} : pc'[d] = pc[d] /\ task'[d] = task[d]
        /\ pc[c] = "registering" /\ pc'[c] = "saving" /\ routable'
    BY <1>0, <1>14 DEF RouterRegister, register, goto
  <2>2. WillSave(c)' /\ state # "none"
    BY <2>1 DEF WillSave, NamesExisting
  <2>. QED  BY <1>2, <2>1, <2>2
<1>15. ASSUME NEW c \in Client, Read(c)  PROVE SavingInvariant'
  <2>1. /\ \A d \in Client \ {c} : pc'[d] = pc[d] /\ task'[d] = task[d] /\ copy'[d] = copy[d]
        /\ pc[c] = "saving" /\ pc'[c] = "committing" /\ copy'[c].state = state
        /\ UNCHANGED <<state, row, routable, unsaved>>
    BY <1>0, <1>15 DEF Read, goto, set, routerVars, historyVars
  <2>2. WillSave(c)'
    BY <2>1 DEF WillSave
  <2>. QED  BY <1>1, <2>1, <2>2
<1>16. ASSUME NEW c \in Client, Commit(c)  PROVE SavingInvariant'
  <2>1. /\ \A d \in Client \ {c} : pc'[d] = pc[d] /\ task'[d] = task[d]
        /\ pc[c] = "committing" /\ pc'[c] = "idle" /\ UNCHANGED routable /\ state # "none"
    BY <1>0, <1>16 DEF Commit, finish, goto, set, routerVars, NamesExisting
  <2>2. row'.state = copy[c].state /\ state' = state
    BY <1>16 DEF Commit, Merged
  <2>3. unsaved' \/ row'.state = state'
    <3>1. CASE copy[c].state = state
      BY <2>2, <3>1
    <3>2. CASE copy[c].state # state
      BY <1>16, <3>2 DEF Commit
    <3>. QED  BY <3>1, <3>2
  <2>. QED  BY <1>3, <2>1, <2>3
<1>17. ASSUME NEW c \in Client, CommitFails(c)  PROVE SavingInvariant'
  <2>1. /\ \A d \in Client \ {c} : pc'[d] = pc[d] /\ task'[d] = task[d]
        /\ pc[c] = "committing" /\ pc'[c] = "idle" /\ UNCHANGED routable /\ state # "none"
        /\ unsaved'
    BY <1>0, <1>17 DEF CommitFails, finish, goto, set, routerVars, NamesExisting
  <2>. QED  BY <1>3, <2>1
<1>18. CASE Restart
  <2>1. /\ \A d \in Client : pc'[d] = "idle"
        /\ state' = row'.state /\ (state' # "none" => routable')
    BY <1>18 DEF Restart
  <2>. QED  BY <2>1 DEF SavingInvariant
<1>19. CASE UNCHANGED vars
  <2>1. UNCHANGED <<pc, task, copy, state, row, routable, unsaved>>
    BY <1>19 DEF vars, routerVars, historyVars
  <2>. QED  BY <2>1 DEF SavingInvariant, WillSave
<1>. QED
  BY <1>4, <1>5, <1>6, <1>7, <1>8, <1>9, <1>10, <1>11, <1>12, <1>13, <1>14, <1>15, <1>16,
     <1>17, <1>18, <1>19
  DEF Next, Request, Serving, Telling, Saving

\* When all handlers are done the tables hold the state, unless one of the known
\* gaps has lost it.
THEOREM QuietIsSaved == Safety => []SavedWhenQuiet
<1>1. Init => SavingInvariant
  BY DEF Init, RoutingInit, NoHandlers, NoRow, SavingInvariant
<1>2. SavingInvariant => SavedWhenQuiet
  BY DEF SavingInvariant, WillSave, SavedWhenQuiet
<1>. QED  BY <1>1, <1>2, SavingStays, NamesAlways, TypesAlways, PTL DEF Safety

-----------------------------------------------------------------------------
(* Round robin rotates *)

\* The index of a turn follows the index of the turn before, or begins again.
LEMMA NextTurn ==
  ASSUME NEW n \in Nat \ {0}, NEW k \in Nat \ {0}
  PROVE  n % k = IF (n - 1) % k = k - 1 THEN 0 ELSE ((n - 1) % k) + 1
<1>. DEFINE q == (n - 1) \div k
            r == (n - 1) % k
            s == n \div k
            t == n % k
<1>1. q \in Int /\ r \in 0..(k - 1) /\ n - 1 = k * q + r
  OBVIOUS
<1>2. s \in Int /\ t \in 0..(k - 1) /\ n = k * s + t
  OBVIOUS
<1>3. k * (s - q) = r + 1 - t
  BY <1>1, <1>2
<1>4. /\ s - q \in Int
      /\ s - q >= 2 => k * (s - q) >= 2 * k
      /\ s - q <= -1 => k * (s - q) <= -k
  BY <1>1, <1>2
<1>5. s - q = 0 \/ s - q = 1
  BY <1>1, <1>2, <1>3, <1>4
<1>6. CASE s - q = 0
  <2>1. k * (s - q) = 0
    BY <1>6
  <2>. QED  BY <1>1, <1>2, <1>3, <2>1
<1>7. CASE s - q = 1
  <2>1. k * (s - q) = k
    BY <1>7
  <2>. QED  BY <1>1, <1>2, <1>3, <2>1
<1>. QED  BY <1>5, <1>6, <1>7

\* How many elements of S are less than r.
Below(r, S) == {q \in S : q < r}

LEMMA BelowFacts ==
  ASSUME NEW S \in SUBSET Replica, NEW r \in S
  PROVE  /\ IsFiniteSet(S) /\ Cardinality(S) \in Nat \ {0}
         /\ IsFiniteSet(Below(r, S)) /\ Cardinality(Below(r, S)) \in Nat
         /\ Cardinality(Below(r, S)) < Cardinality(S)
<1>1. IsFiniteSet(Replica)
  BY ReplicaAssumption, FS_Interval DEF Replica
<1>2. IsFiniteSet(S) /\ Cardinality(S) \in Nat
  BY <1>1, FS_Subset, FS_CardinalityType
<1>3. Below(r, S) \subseteq S /\ Below(r, S) # S
  BY DEF Below, Replica
<1>4. IsFiniteSet(Below(r, S)) /\ Cardinality(Below(r, S)) \in Nat
  BY <1>2, <1>3, FS_Subset, FS_CardinalityType
<1>5. Cardinality(Below(r, S)) < Cardinality(S)
  BY <1>2, <1>3, FS_Subset, FS_CardinalityType
<1>. QED  BY <1>2, <1>4, <1>5

\* A later element has more elements below it.
LEMMA LaterHasMore ==
  ASSUME NEW S \in SUBSET Replica, NEW p \in S, NEW q \in S, p < q
  PROVE  Cardinality(Below(p, S)) + 1 <= Cardinality(Below(q, S))
<1>0. S \subseteq Int
  BY DEF Replica
<1>1. p \notin Below(p, S) /\ Below(p, S) \cup {p} \subseteq Below(q, S)
  <2>1. \A x \in Below(p, S) : x \in S /\ x < p /\ x < q
    BY <1>0 DEF Below
  <2>2. p \notin Below(p, S) /\ p \in Below(q, S)
    BY <1>0 DEF Below
  <2>. QED  BY <2>1, <2>2 DEF Below
<1>2. IsFiniteSet(Below(p, S)) /\ IsFiniteSet(Below(q, S))
  BY BelowFacts
<1>3. Cardinality(Below(p, S) \cup {p}) = Cardinality(Below(p, S)) + 1
  BY <1>1, <1>2, FS_AddElement
<1>. QED  BY <1>1, <1>2, <1>3, FS_Subset

\* The element after p in turn is its successor.
LEMMA SuccessorIsNext ==
  ASSUME NEW S \in SUBSET Replica, NEW n \in Nat \ {0}, NEW p, NEW r,
         IsNth(p, (n - 1) % Cardinality(S), S), IsNth(r, n % Cardinality(S), S)
  PROVE  r = Successor(p, S)
<1>. DEFINE k == Cardinality(S)
            i == Cardinality(Below(p, S))
            j == Cardinality(Below(r, S))
            later == {q \in S : q > p}
<1>1. p \in S /\ r \in S /\ i = (n - 1) % k /\ j = n % k
  BY DEF IsNth, Below
<1>2. k \in Nat \ {0} /\ i \in Nat /\ j \in Nat
  BY <1>1, BelowFacts
<1>3. j = IF i = k - 1 THEN 0 ELSE i + 1
  BY <1>1, <1>2, NextTurn
<1>4. S \subseteq Nat
  BY DEF Replica
<1>5. CASE i = k - 1
  <2>1. later = {}
    <3>. SUFFICES ASSUME NEW q \in S, q > p  PROVE FALSE
      BY <1>4
    <3>1. i + 1 <= Cardinality(Below(q, S)) /\ Cardinality(Below(q, S)) < k
          /\ Cardinality(Below(q, S)) \in Nat
      BY <1>1, <1>4, LaterHasMore, BelowFacts
    <3>. QED  BY <1>2, <1>5, <3>1
  <2>2. Below(r, S) = {}
    BY <1>1, <1>2, <1>3, <1>5, BelowFacts, FS_EmptySet
  <2>3. \A q \in S : r <= q
    BY <1>1, <1>4, <2>2 DEF Below
  <2>4. \A x \in S : (\A q \in S : x <= q) => x = r
    BY <1>1, <1>4, <2>3
  <2>5. r = CHOOSE x \in S : \A q \in S : x <= q
    BY <1>1, <2>3, <2>4
  <2>. QED  BY <2>1, <2>5 DEF Successor
<1>6. CASE i # k - 1
  <2>1. j = i + 1
    BY <1>3, <1>6
  <2>2. r \in later
    <3>1. ~(r < p)
      BY <1>1, <1>2, <2>1, LaterHasMore
    <3>2. r # p
      BY <1>2, <2>1
    <3>. QED  BY <1>1, <1>4, <3>1, <3>2
  <2>3. ASSUME NEW q \in later  PROVE r <= q
    <3>. SUFFICES ASSUME q < r  PROVE FALSE
      BY <1>1, <1>4
    <3>1. /\ i + 1 <= Cardinality(Below(q, S)) /\ Cardinality(Below(q, S)) + 1 <= j
          /\ Cardinality(Below(q, S)) \in Nat
      BY <1>1, <1>4, LaterHasMore, BelowFacts
    <3>. QED  BY <1>2, <2>1, <3>1
  <2>4. \A x \in later : (\A q \in later : x <= q) => x = r
    BY <1>1, <1>4, <2>2, <2>3
  <2>5. r = CHOOSE x \in later : \A q \in later : x <= q
    BY <2>2, <2>3, <2>4
  <2>. QED  BY <2>2, <2>5 DEF Successor
<1>. QED  BY <1>5, <1>6

\* The last choice is the one that the index counts last, and a selection under
\* way is the one that its index stands for.
RotationInvariant ==
    /\ previous # NoReplica =>
         nextIndex > 0 /\ IsNth(previous, (nextIndex - 1) % Cardinality(ReadyIn(replicas)),
                                ReadyIn(replicas))
    /\ \A c \in Client :
         pc[c] = "charging" /\ policy[c] = "round-robin" =>
           IsNth(pick[c], turn[c] % Cardinality(from[c]), from[c])

LEMMA RotationStays ==
  TypeOK /\ Picked /\ RotationInvariant /\ [Next]_vars => RotationInvariant'
<1>. SUFFICES ASSUME TypeOK, Picked, RotationInvariant, [Next]_vars  PROVE RotationInvariant'
  OBVIOUS
<1>. DEFINE Kept ==
       previous' # NoReplica =>
         nextIndex' > 0 /\ IsNth(previous', (nextIndex' - 1) % Cardinality(ReadyIn(replicas')),
                                 ReadyIn(replicas'))
<1>0. /\ pc \in [Client -> Step] /\ replicas \in [Replica -> ReplicaSnapshot]
      /\ nextIndex \in Nat /\ previous \in Replica \cup {NoReplica}
      /\ policy \in [Client -> Policy \cup {"none"}] /\ turn \in [Client -> Nat]
      /\ pick \in [Client -> Replica \cup {NoReplica}] /\ from \in [Client -> SUBSET Replica]
  BY DEF TypeOK, RoutingTypeOK
\* What may happen to the router without a choice.
<1>1. UNCHANGED routerVars => Kept
  BY DEF routerVars, RotationInvariant
<1>2. ASSUME NEW list, become(list)  PROVE Kept
  <2>1. replicas' = list /\ nextIndex' = nextIndex
        /\ previous' = IF ReadyIn(list) = ReadyIn(replicas) THEN previous ELSE NoReplica
    BY <1>2 DEF become
  <2>. QED  BY <2>1 DEF RotationInvariant
<1>3. ASSUME NEW s, set_service_state(s)  PROVE Kept
  BY <1>2, <1>3 DEF set_service_state
<1>4. ASSUME NEW r, NEW q, NEW v, NEW s, update_replica(r, q, v, s)  PROVE Kept
  BY <1>2, <1>4 DEF update_replica
\* A step that makes no selection keeps those that there are.
<1>5. ASSUME NEW c \in Client, Kept,
             \A d \in Client \ {c} : pc'[d] = pc[d] /\ policy'[d] = policy[d]
                                     /\ pick'[d] = pick[d] /\ turn'[d] = turn[d]
                                     /\ from'[d] = from[d],
             pc'[c] # "charging"
      PROVE  RotationInvariant'
  BY <1>5 DEF RotationInvariant
<1>6. ASSUME NEW c \in Client, Request(c)  PROVE RotationInvariant'
  <2>1. UNCHANGED routerVars
    BY <1>6 DEF Request, Create, CheckHealth, Stop, ReadMetrics, Call
  <2>2. pc'[c] # "charging" /\ UNCHANGED <<pick, turn, from>>
        /\ \A d \in Client \ {c} : pc'[d] = pc[d] /\ policy'[d] = policy[d]
    BY <1>0, <1>6
    DEF Request, Create, CheckHealth, Stop, ReadMetrics, Call, begin, enter, goto, set, chooseVars
  <2>. QED  BY <1>1, <1>5, <2>1, <2>2
<1>7. ASSUME NEW c \in Client, Gate(c) \/ Report(c) \/ Refuse(c)  PROVE RotationInvariant'
  <2>1. Kept
    BY <1>1, <1>4, <1>7 DEF Gate, Report, Refuse
  <2>2. pc'[c] # "charging" /\ UNCHANGED <<pick, turn, from>>
        /\ \A d \in Client \ {c} : pc'[d] = pc[d] /\ policy'[d] = policy[d]
    BY <1>0, <1>7 DEF Gate, Report, Refuse, finish, goto, set, chooseVars
  <2>. QED  BY <1>5, <2>1, <2>2
<1>8. ASSUME NEW c \in Client, Choose(c)  PROVE RotationInvariant'
  <2>1. Kept
    BY <1>1, <1>8 DEF Choose
  <2>2. /\ policy' = policy
        /\ turn'[c] = nextIndex /\ from'[c] = ReadyIn(replicas)
        /\ Selects(policy[c], pick'[c], ReadyIn(replicas))
        /\ \A d \in Client \ {c} : /\ pc'[d] = pc[d] /\ pick'[d] = pick[d]
                                   /\ turn'[d] = turn[d] /\ from'[d] = from[d]
    BY <1>0, <1>8 DEF Choose, goto, set
  <2>3. policy[c] = "round-robin" =>
          IsNth(pick'[c], turn'[c] % Cardinality(from'[c]), from'[c])
    BY <2>2 DEF Selects
  <2>. QED  BY <2>1, <2>2, <2>3 DEF RotationInvariant
<1>9. ASSUME NEW c \in Client, Charge(c)  PROVE RotationInvariant'
  <2>1. /\ replicas' = [replicas EXCEPT ![pick[c]].requests = @ + 1]
        /\ nextIndex' = IF policy[c] = "round-robin" THEN nextIndex + 1 ELSE nextIndex
        /\ previous' = IF policy[c] = "round-robin"
                         THEN (IF InTurn(c) THEN pick[c] ELSE NoReplica) ELSE previous
        /\ pc[c] = "charging"
    BY <1>9 DEF Charge, charge
  <2>2. ReadyIn(replicas') = ReadyIn(replicas)
    <3>1. DOMAIN replicas' = DOMAIN replicas
          /\ \A r \in DOMAIN replicas : replicas'[r].state = replicas[r].state
      BY <1>0, <2>1 DEF ReplicaSnapshot
    <3>. QED  BY <3>1 DEF ReadyIn
  <2>3. Kept
    <3>1. CASE policy[c] # "round-robin"
      BY <2>1, <2>2, <3>1 DEF RotationInvariant
    <3>2. CASE policy[c] = "round-robin" /\ InTurn(c)
      <4>1. IsNth(pick[c], nextIndex % Cardinality(ReadyIn(replicas)), ReadyIn(replicas))
        BY <2>1, <3>2 DEF RotationInvariant, InTurn
      <4>2. nextIndex' - 1 = nextIndex /\ nextIndex' > 0 /\ previous' = pick[c]
        BY <1>0, <2>1, <3>2
      <4>. QED  BY <2>2, <4>1, <4>2
    <3>3. CASE policy[c] = "round-robin" /\ ~InTurn(c)
      BY <2>1, <3>3
    <3>. QED  BY <3>1, <3>2, <3>3
  <2>4. pc'[c] # "charging"
        /\ \A d \in Client \ {c} : pc'[d] = pc[d] /\ policy'[d] = policy[d] /\ pick'[d] = pick[d]
                                   /\ turn'[d] = turn[d] /\ from'[d] = from[d]
    BY <1>0, <1>9 DEF Charge, goto, set
  <2>. QED  BY <1>5, <2>3, <2>4
<1>10. ASSUME NEW c \in Client, Serving(c)  PROVE RotationInvariant'
  <2>1. UNCHANGED routerVars /\ UNCHANGED chooseVars
    BY <1>10 DEF Serving, Answer, Fail, FailUnsaved
  <2>2. pc'[c] # "charging" /\ \A d \in Client \ {c} : pc'[d] = pc[d]
    BY <1>0, <1>10 DEF Serving, Answer, Fail, FailUnsaved, finish, enter, goto
  <2>. QED  BY <1>1, <1>5, <2>1, <2>2 DEF chooseVars
<1>11. ASSUME NEW c \in Client, Telling(c)  PROVE RotationInvariant'
  <2>1. Kept
    BY <1>1, <1>3, <1>4, <1>11 DEF Telling, ProbeAnswers, Observe, SetServiceState, Gauge
  <2>2. pc'[c] # "charging" /\ UNCHANGED <<pick, turn, from>>
        /\ \A d \in Client \ {c} : pc'[d] = pc[d] /\ policy'[d] = policy[d]
    BY <1>0, <1>11
    DEF Telling, ProbeAnswers, Observe, SetServiceState, Gauge, finish, goto, set, chooseVars
  <2>. QED  BY <1>5, <2>1, <2>2
<1>12. ASSUME NEW c \in Client, Saving(c)  PROVE RotationInvariant'
  <2>1. Kept
    BY <1>1, <1>12 DEF Saving, RouterRegister, register, Read, Commit, CommitFails
  <2>2. UNCHANGED chooseVars /\ pc'[c] # "charging" /\ \A d \in Client \ {c} : pc'[d] = pc[d]
    BY <1>0, <1>12 DEF Saving, RouterRegister, Read, Commit, CommitFails, finish, goto
  <2>. QED  BY <1>5, <2>1, <2>2 DEF chooseVars
<1>13. CASE Restart
  BY <1>13 DEF Restart, RotationInvariant
<1>14. CASE UNCHANGED vars
  BY <1>1, <1>14 DEF vars, chooseVars, RotationInvariant
<1>. QED
  BY <1>6, <1>7, <1>8, <1>9, <1>10, <1>11, <1>12, <1>13, <1>14 DEF Next, Choosing

\* Of two round-robin choices that follow one another with the same replicas
\* ready, the second is of the replica after the first, for any number of
\* replicas and whatever handlers do in between.
THEOREM RoundRobinAlwaysRotates == Safety => []RoundRobinRotates
<1>1. Init => RotationInvariant
  BY DEF Init, RoutingInit, NoHandlers, RotationInvariant
<1>2. TypeOK /\ RotationInvariant => RoundRobinRotates
  <2>. SUFFICES ASSUME TypeOK, RotationInvariant, NEW c \in Client,
                       pc[c] = "charging", InTurn(c), previous # NoReplica
                PROVE  pick[c] = Successor(previous, from[c])
    BY DEF RoundRobinRotates
  <2>. DEFINE S == ReadyIn(replicas)
  <2>1. from[c] = S /\ S \in SUBSET Replica
    BY DEF InTurn, TypeOK, RoutingTypeOK, ReadyIn
  <2>2. nextIndex \in Nat \ {0} /\ IsNth(previous, (nextIndex - 1) % Cardinality(S), S)
    BY DEF RotationInvariant, TypeOK, RoutingTypeOK
  <2>3. IsNth(pick[c], nextIndex % Cardinality(S), S)
    BY <2>1 DEF RotationInvariant, InTurn
  <2>. QED  BY <2>1, <2>2, <2>3, SuccessorIsNext
<1>. QED  BY <1>1, <1>2, RotationStays, TypesAlways, PTL DEF Safety
=============================================================================
