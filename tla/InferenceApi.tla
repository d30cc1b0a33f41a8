---------------------------- MODULE InferenceApi ----------------------------
(***************************************************************************)
(* The inference handlers of app/api.py for one service, over the router   *)
(* and the tables inference_services and inference_replicas, with restarts *)
(* of the process.                                                         *)
(*                                                                         *)
(* A handler runs in a thread of the pool.  It reads the service's state   *)
(* and passes it to the router, chooses, charges the choice, and saves:    *)
(* each a step that other handlers' steps may separate.  A save reads the  *)
(* objects first and commits later.  What happens inside the manager's     *)
(* chat is InferenceManager's business: here a request ends well, is       *)
(* turned away, or fails, and a failure degrades or stops the service.     *)
(*                                                                         *)
(* register is one step, so that of two registrations one is refused.      *)
(***************************************************************************)
EXTENDS Routing

CONSTANTS
    Client,     \* callers of the API, each with one request at a time
    Reports,    \* what is reported about a replica: [queue, cache, state]
    MaxCalls    \* bound: how many calls of the API are begun

ASSUME ReportsAssumption ==
    Reports \subseteq [queue : Nat, cache : Nat, state : ReplicaState]
ASSUME CallsAssumption == MaxCalls \in Nat

VARIABLES
    state,      \* service.state, "none" before the service is registered
    row,        \* what the tables hold about the service
    pc,         \* pc[c]: where the handler that c waits for is
    task,       \* task[c]: which handler it is
    seen,       \* seen[c]: the value of service.state that it has read
    policy,     \* policy[c]: the routing policy of its request
    pick,       \* pick[c]: the replica that choose has selected
    turn,       \* turn[c]: the index that the selection was made with
    from,       \* from[c]: the candidates that it was made from
    copy,       \* copy[c]: what its save has read
    calls,      \* how many calls have been begun, for the bound
    made,       \* history: made[r], the choices of r ever made
    created,    \* history: a call of create_inference_service has succeeded
    unsaved     \* history: the state has been lost on its way to the tables

chooseVars  == <<policy, pick, turn, from>>
historyVars == <<calls, made, created, unsaved>>
vars == <<routerVars, state, row, pc, task, seen, chooseVars, copy, historyVars>>

ServiceState == {"ready", "degraded", "unavailable", "stopped"}
\* Of a service that is not in the tables the state is "none"; its replicas
\* are listed when the router knew them at the time of the save.
Row == [state : ServiceState \cup {"none"}, listed : BOOLEAN,
        replicas : [Replica -> ReplicaSnapshot]]
NoRow == [state |-> "none", listed |-> FALSE, replicas |-> NewReplicas]

\* A chat whose runtime has failed is a "failure".
Task == {"none", "create", "chat", "failure", "route", "health", "stop", "metrics"}
Step ==
    { "idle",
      "registering",                      \* create: known to the manager only
      "probing", "observing", "setting",  \* the state is read and passed on
      "gating", "reporting", "gauging",   \* what chat, route, metrics do next
      "choosing", "charging",             \* router.choose
      "serving",                          \* the manager's chat or stream
      "saving", "committing" }            \* save_inference_service

TypeOK ==
    /\ RoutingTypeOK
    /\ state \in ServiceState \cup {"none"}
    /\ row \in Row
    /\ pc \in [Client -> Step]
    /\ task \in [Client -> Task]
    /\ seen \in [Client -> ServiceState \cup {"none"}]
    /\ policy \in [Client -> Policy \cup {"none"}]
    /\ pick \in [Client -> Replica \cup {NoReplica}]
    /\ turn \in [Client -> Nat]
    /\ from \in [Client -> SUBSET Replica]
    /\ copy \in [Client -> Row]
    /\ calls \in 0..MaxCalls
    /\ made \in [Replica -> Nat]
    /\ created \in BOOLEAN
    /\ unsaved \in BOOLEAN

NoHandlers ==
    /\ pc = [c \in Client |-> "idle"]
    /\ task = [c \in Client |-> "none"]
    /\ seen = [c \in Client |-> "none"]
    /\ policy = [c \in Client |-> "none"]
    /\ pick = [c \in Client |-> NoReplica]
    /\ turn = [c \in Client |-> 0]
    /\ from = [c \in Client |-> {}]
    /\ copy = [c \in Client |-> NoRow]

\* The process has started for the first time, with empty tables.
Init ==
    /\ RoutingInit
    /\ state = "none"
    /\ row = NoRow
    /\ NoHandlers
    /\ calls = 0
    /\ made = [r \in Replica |-> 0]
    /\ created = FALSE
    /\ unsaved = FALSE

goto(c, step) == pc' = [pc EXCEPT ![c] = step]
set(f, c, v) == [f EXCEPT ![c] = v]

\* A handler starts, moves on, and answers.
enter(c, handler, step) == goto(c, step) /\ task' = set(task, c, handler)
begin(c, handler, step) ==
    /\ pc[c] = "idle"
    /\ calls < MaxCalls
    /\ calls' = calls + 1
    /\ enter(c, handler, step)
finish(c) == goto(c, "idle") /\ task' = set(task, c, "none")

-----------------------------------------------------------------------------
(* Registration *)

\* create_inference_service: manager.register, unless there is the service.
Create(c) ==
    /\ state = "none"
    /\ state' = "ready"
    /\ begin(c, "create", "registering")
    /\ UNCHANGED <<routerVars, row, seen, chooseVars, copy, made, created, unsaved>>

\* Deliberately wrong: the registration is answered and not saved.
RouterRegisterForgetting(c) ==
    /\ pc[c] = "registering"
    /\ register(NewReplicas)
    /\ created' = TRUE
    /\ finish(c)
    /\ UNCHANGED <<state, row, seen, chooseVars, copy, calls, made, unsaved>>

\* router.register; the audit event and the save come after it.
RouterRegister(c) ==
    /\ pc[c] = "registering"
    /\ register(NewReplicas)
    /\ goto(c, "saving")
    /\ UNCHANGED <<state, row, task, seen, chooseVars, copy, historyVars>>

-----------------------------------------------------------------------------
(* Routing: chat_completion and route_inference *)

\* A chat or a route finds the service and reads its state.
Call(c, handler, p) ==
    /\ state # "none"
    /\ begin(c, handler, "setting")
    /\ seen' = set(seen, c, state)
    /\ policy' = set(policy, c, p)
    /\ UNCHANGED <<routerVars, state, row, pick, turn, from, copy, made, created, unsaved>>

\* router.set_service_state with the value read before.  A router that does
\* not know the service yet raises: not found.
SetServiceState(c) ==
    /\ pc[c] = "setting"
    /\ seen' = set(seen, c, "none")
    /\ \/ /\ ~routable
          /\ finish(c)
          /\ policy' = set(policy, c, "none")
          /\ UNCHANGED routerVars
       \/ /\ routable
          /\ set_service_state(seen[c])
          /\ goto(c, CASE task[c] = "chat"  -> "gating"
                       [] task[c] = "route" -> "reporting"
                       [] OTHER             -> "saving")
          /\ UNCHANGED <<task, policy>>
    /\ UNCHANGED <<state, row, pick, turn, from, copy, historyVars>>

\* A chat reads the state a second time and goes on when it is ready.
Gate(c) ==
    /\ pc[c] = "gating"
    /\ \/ state = "ready" /\ goto(c, "choosing") /\ UNCHANGED <<task, policy>>
       \/ state # "ready" /\ finish(c) /\ policy' = set(policy, c, "none")
    /\ UNCHANGED <<routerVars, state, row, seen, pick, turn, from, copy, historyVars>>

\* A route may report about replicas, one after the other, or go on.
Report(c) ==
    /\ pc[c] = "reporting"
    /\ \/ /\ \E r \in Replica, m \in Reports : update_replica(r, m.queue, m.cache, m.state)
          /\ UNCHANGED pc
       \/ goto(c, "choosing") /\ UNCHANGED routerVars
    /\ UNCHANGED <<state, row, task, seen, chooseVars, copy, historyVars>>

\* An unknown policy or replica, or no ready replica: an error is answered.
\* What has been set and reported stays, and nothing is saved.
Refuse(c) ==
    /\ pc[c] \in {"reporting", "choosing"}
    /\ finish(c)
    /\ policy' = set(policy, c, "none")
    /\ UNCHANGED <<routerVars, state, row, seen, pick, turn, from, copy, historyVars>>

\* choose up to the selection.
Choose(c) ==
    /\ pc[c] = "choosing"
    /\ \E r \in ReadyIn(replicas) :
         /\ Selects(policy[c], r, ReadyIn(replicas))
         /\ pick' = set(pick, c, r)
    /\ turn' = set(turn, c, nextIndex)
    /\ from' = set(from, c, ReadyIn(replicas))
    /\ goto(c, "charging")
    /\ UNCHANGED <<routerVars, state, row, task, seen, policy, copy, historyVars>>

\* No other round-robin choice and no change of the ready replicas has come
\* between c's selection and now.
InTurn(c) ==
    policy[c] = "round-robin" /\ turn[c] = nextIndex /\ from[c] = ReadyIn(replicas)

\* The end of choose.
Charge(c) ==
    /\ pc[c] = "charging"
    /\ charge(pick[c], policy[c] = "round-robin", InTurn(c))
    /\ made' = [made EXCEPT ![pick[c]] = @ + 1]
    /\ policy' = set(policy, c, "none")
    /\ pick' = set(pick, c, NoReplica)
    /\ turn' = set(turn, c, 0)
    /\ from' = set(from, c, {})
    /\ goto(c, IF task[c] = "chat" THEN "serving" ELSE "saving")
    /\ UNCHANGED <<state, row, task, seen, copy, calls, created, unsaved>>

\* The manager answers the chat, or turns it away: stopped meanwhile, or at
\* the admission limit.  Nothing is saved, the charge of the replica neither.
Answer(c) ==
    /\ pc[c] = "serving"
    /\ finish(c)
    /\ UNCHANGED <<routerVars, state, row, seen, chooseVars, copy, historyVars>>

\* Deliberately wrong: the failure is answered without a save.
FailForgetting(c) ==
    /\ pc[c] = "serving"
    /\ state' \in {"degraded", "stopped"}
    /\ finish(c)
    /\ UNCHANGED <<routerVars, row, seen, chooseVars, copy, historyVars>>

\* The runtime fails: the handler passes the new state on and saves.
Fail(c) ==
    /\ pc[c] = "serving"
    /\ state' \in {"degraded", "stopped"}
    /\ enter(c, "failure", "observing")
    /\ UNCHANGED <<routerVars, row, seen, chooseVars, copy, historyVars>>

\* A stream fails after its handler has returned, or the adapter raises a
\* RuntimeError, which is answered as a conflict: no handler saves that.
FailUnsaved(c) ==
    /\ pc[c] = "serving"
    /\ state' \in {"degraded", "stopped"}
    /\ finish(c)
    /\ unsaved' = TRUE
    /\ UNCHANGED <<routerVars, row, seen, chooseVars, copy, calls, made, created>>

-----------------------------------------------------------------------------
(* Health, metrics, stop *)

\* inference_health: health_check up to the call of the runtime.
CheckHealth(c) ==
    /\ state # "none"
    /\ begin(c, "health", IF state = "stopped" THEN "observing" ELSE "probing")
    /\ UNCHANGED <<routerVars, state, row, seen, chooseVars, copy, made, created, unsaved>>

\* Deliberately wrong: the runtime's own word becomes the state.
ProbeAnswersRaw(c) ==
    /\ pc[c] = "probing"
    /\ state' \in {"ready", "unhealthy"}
    /\ goto(c, "observing")
    /\ UNCHANGED <<routerVars, row, task, seen, chooseVars, copy, historyVars>>

\* The answer overwrites the state; or the probe raises and nothing is saved.
ProbeAnswers(c) ==
    /\ pc[c] = "probing"
    /\ \/ state' \in {"ready", "unavailable"} /\ goto(c, "observing") /\ UNCHANGED task
       \/ finish(c) /\ UNCHANGED state
    /\ UNCHANGED <<routerVars, row, seen, chooseVars, copy, historyVars>>

\* The handler reads the state to pass it on to the router.
Observe(c) ==
    /\ pc[c] = "observing"
    /\ seen' = set(seen, c, state)
    /\ goto(c, "setting")
    /\ UNCHANGED <<routerVars, state, row, task, chooseVars, copy, historyVars>>

\* stop_inference_service: the router is not told.
Stop(c) ==
    /\ state # "none"
    /\ state' = "stopped"
    /\ begin(c, "stop", "saving")
    /\ UNCHANGED <<routerVars, row, seen, chooseVars, copy, made, created, unsaved>>

\* metrics: the state is read together with the gauges of the runtime ...
ReadMetrics(c) ==
    /\ state # "none"
    /\ seen' = set(seen, c, state)
    /\ begin(c, "metrics", "gauging")
    /\ UNCHANGED <<routerVars, state, row, chooseVars, copy, made, created, unsaved>>

\* ... and reported as those of the first replica; errors are passed over: the
\* router does not have it, or the runtime's reading is out of range.
Gauge(c) ==
    /\ pc[c] = "gauging"
    /\ \/ /\ routable
          /\ \E m \in Reports :
               update_replica(0, m.queue, m.cache, RouterState(seen[c]))
       \/ UNCHANGED routerVars
    /\ seen' = set(seen, c, "none")
    /\ finish(c)
    /\ UNCHANGED <<state, row, chooseVars, copy, historyVars>>

-----------------------------------------------------------------------------
(* save_inference_service *)

\* The save reads the service and the replicas that the router has ...
Read(c) ==
    /\ pc[c] = "saving"
    /\ copy' = set(copy, c, [state |-> state, listed |-> routable,
                             replicas |-> IF routable THEN replicas ELSE NewReplicas])
    /\ goto(c, "committing")
    /\ UNCHANGED <<routerVars, state, row, task, seen, chooseVars, historyVars>>

\* Deliberately wrong: the counts of the replicas are added to the table's.
MergedAdding(c) ==
    [copy[c] EXCEPT !.replicas =
        [r \in Replica |-> [@[r] EXCEPT !.requests = @ + row.replicas[r].requests]]]

\* db.merge: rows of replicas that the save has not read stay.
Merged(c) ==
    IF copy[c].listed THEN copy[c]
    ELSE [state |-> copy[c].state, listed |-> row.listed, replicas |-> row.replicas]

\* ... and commits, in any order with other saves.  create answers only now.
Commit(c) ==
    /\ pc[c] = "committing"
    /\ row' = Merged(c)
    /\ unsaved' = (copy[c].state # state)
    /\ created' = (created \/ task[c] = "create")
    /\ copy' = set(copy, c, NoRow)
    /\ finish(c)
    /\ UNCHANGED <<routerVars, state, seen, chooseVars, calls, made>>

\* The database is not there: the call fails, memory stays as it is.
CommitFails(c) ==
    /\ pc[c] = "committing"
    /\ unsaved' = TRUE
    /\ copy' = set(copy, c, NoRow)
    /\ finish(c)
    /\ UNCHANGED <<routerVars, state, row, seen, chooseVars, calls, made, created>>

-----------------------------------------------------------------------------
(* startup *)

\* The process ends at any point and starts again: services and replicas are
\* loaded, requests are gone.  A service that is not in the tables is unknown.
Restart ==
    /\ state' = row.state
    /\ routable' = (row.state # "none")
    /\ replicas' = row.replicas
    /\ nextIndex' = 0
    /\ previous' = NoReplica
    /\ pc' = [c \in Client |-> "idle"]
    /\ task' = [c \in Client |-> "none"]
    /\ seen' = [c \in Client |-> "none"]
    /\ policy' = [c \in Client |-> "none"]
    /\ pick' = [c \in Client |-> NoReplica]
    /\ turn' = [c \in Client |-> 0]
    /\ from' = [c \in Client |-> {}]
    /\ copy' = [c \in Client |-> NoRow]
    /\ unsaved' = FALSE
    /\ UNCHANGED <<row, calls, made, created>>

-----------------------------------------------------------------------------
Request(c) ==
    \/ Create(c) \/ CheckHealth(c) \/ Stop(c) \/ ReadMetrics(c)
    \/ \E p \in Policy : Call(c, "chat", p) \/ Call(c, "route", p)

Choosing(c) == Gate(c) \/ Report(c) \/ Refuse(c) \/ Choose(c) \/ Charge(c)
Serving(c)  == Answer(c) \/ Fail(c) \/ FailUnsaved(c)
Telling(c)  == ProbeAnswers(c) \/ Observe(c) \/ SetServiceState(c) \/ Gauge(c)
Saving(c)   == RouterRegister(c) \/ Read(c) \/ Commit(c) \/ CommitFails(c)

Next ==
    \/ \E c \in Client : Request(c) \/ Choosing(c) \/ Serving(c) \/ Telling(c) \/ Saving(c)
    \/ Restart

Safety == Init /\ [][Next]_vars

-----------------------------------------------------------------------------
(* Properties *)

\* README.md:160, "definitions ... are persisted": a service whose creation
\* was answered is in the tables and known to the process, whatever is saved
\* in which order and whenever the process ends.
CreatedSurvives == created => row.state # "none" /\ state # "none"

\* Restarts forget choices that were not saved, and saves that overtake one
\* another turn counts back; no count ever exceeds the choices that were made.
CountsNotInvented ==
    \A r \in Replica : replicas[r].requests <= made[r] /\ row.replicas[r].requests <= made[r]

\* Every handler that changes the state sees to it that it is saved: when all
\* are done, the tables hold the state, except after a stream has failed, a
\* commit has failed or a later commit has brought back an earlier state.
SavedWhenQuiet ==
    (\A c \in Client : pc[c] = "idle") /\ ~unsaved => row.state = state

\* README.md:141, "rotate across ready logical replicas": of two round-robin
\* choices that follow one another without a third in between, and with the
\* same replicas ready, the second goes to the next replica.
RoundRobinRotates ==
    \A c \in Client :
        pc[c] = "charging" /\ InTurn(c) /\ previous # NoReplica
          => pick[c] = Successor(previous, from[c])
=============================================================================
