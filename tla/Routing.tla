------------------------------- MODULE Routing -------------------------------
(***************************************************************************)
(* The router of app/routing.py for one inference service: its logical     *)
(* replicas, what is reported about them, and the three policies that      *)
(* choose one.  Its operations are called by the handlers of InferenceApi, *)
(* without a lock.                                                         *)
(*                                                                         *)
(* Replicas are numbered in the order of the list, which is the order of   *)
(* their names up to ten of them.  The KV-cache utilization is a number    *)
(* that is only compared.  router.decisions, which is exported and decides *)
(* nothing, and the wording of a decision are left out.                    *)
(***************************************************************************)
EXTENDS Integers, FiniteSets

CONSTANTS
    ReplicaCount,   \* service.replicas
    NoReplica,      \* none of them
    Word            \* what callers of /route call the states of replicas: any
                    \* strings; only "ready" is compared with

ASSUME ReplicaAssumption == ReplicaCount \in Nat \ {0} /\ NoReplica \notin Nat

Replica == 0..ReplicaCount - 1
Policy == {"round-robin", "load-aware", "kv-cache-aware"}
ReplicaState == {"ready", "unavailable"} \cup Word
ReplicaSnapshot == [queue : Nat, cache : Nat, state : ReplicaState, requests : Nat]

VARIABLES
    routable,   \* the router knows the service
    replicas,   \* router.replicas of the service
    nextIndex,  \* router.next_index of the service
    previous    \* history: the last round-robin choice, while the ready
                \* replicas are the same and choices follow one another

routerVars == <<routable, replicas, nextIndex, previous>>

RoutingTypeOK ==
    /\ routable \in BOOLEAN
    /\ replicas \in [Replica -> ReplicaSnapshot]
    /\ nextIndex \in Nat
    /\ previous \in Replica \cup {NoReplica}

Unused == [queue |-> 0, cache |-> 0, state |-> "ready", requests |-> 0]
NewReplicas == [r \in Replica |-> Unused]

RoutingInit ==
    /\ routable = FALSE
    /\ replicas = NewReplicas
    /\ nextIndex = 0
    /\ previous = NoReplica

-----------------------------------------------------------------------------
(* Registration and reports *)

\* register: the list and the index are new.
register(list) ==
    /\ routable' = TRUE
    /\ replicas' = list
    /\ nextIndex' = 0
    /\ previous' = NoReplica

ReadyIn(list) == {r \in DOMAIN list : list[r].state = "ready"}

\* The snapshots change; a different set of ready replicas starts a new round.
become(list) ==
    /\ replicas' = list
    /\ previous' = IF ReadyIn(list) = ReadyIn(replicas) THEN previous ELSE NoReplica
    /\ UNCHANGED <<routable, nextIndex>>

RouterState(state) == IF state = "ready" THEN "ready" ELSE "unavailable"

\* set_service_state: what single replicas have reported is overwritten.
set_service_state(state) ==
    become([r \in Replica |-> [replicas[r] EXCEPT !.state = RouterState(state)]])

\* update_replica: the state is taken as it comes.
update_replica(r, queue, cache, state) ==
    become([replicas EXCEPT ![r] = [queue |-> queue, cache |-> cache,
                                    state |-> state, requests |-> @.requests]])

-----------------------------------------------------------------------------
(* choose *)

\* The element with the given index of the list of candidates.
IsNth(r, index, candidates) ==
    r \in candidates /\ Cardinality({q \in candidates : q < r}) = index

\* The keys by which the two other policies sort; min() takes the least.
LoadKey(r)  == <<replicas[r].queue, replicas[r].requests, r>>
CacheKey(r) == <<replicas[r].queue, -replicas[r].cache, r>>
AtMost(a, b) ==
    \/ a[1] < b[1]
    \/ a[1] = b[1] /\ a[2] < b[2]
    \/ a[1] = b[1] /\ a[2] = b[2] /\ a[3] <= b[3]

\* The candidate that the policy selects.
Selects(policy, r, candidates) ==
    /\ r \in candidates
    /\ policy = "round-robin"    => IsNth(r, nextIndex % Cardinality(candidates), candidates)
    /\ policy = "load-aware"     => \A q \in candidates : AtMost(LoadKey(r), LoadKey(q))
    /\ policy = "kv-cache-aware" => \A q \in candidates : AtMost(CacheKey(r), CacheKey(q))

\* Deliberately wrong: the round-robin index stays where it is.
chargeWithoutTurning(r, rotates, inTurn) ==
    /\ replicas' = [replicas EXCEPT ![r].requests = @ + 1]
    /\ previous' = IF rotates THEN (IF inTurn THEN r ELSE NoReplica) ELSE previous
    /\ UNCHANGED <<routable, nextIndex>>

\* The end of choose: the index moves on and the request is counted.  Other
\* choices may have come between the selection and this (inTurn is false).
charge(r, rotates, inTurn) ==
    /\ replicas' = [replicas EXCEPT ![r].requests = @ + 1]
    /\ nextIndex' = IF rotates THEN nextIndex + 1 ELSE nextIndex
    /\ previous' = IF rotates THEN (IF inTurn THEN r ELSE NoReplica) ELSE previous
    /\ UNCHANGED routable

\* The next of the candidates, or the first after the last.
Successor(r, candidates) ==
    LET later == {q \in candidates : q > r}
        first(S) == CHOOSE q \in S : \A p \in S : q <= p
    IN  IF later = {} THEN first(candidates) ELSE first(later)
=============================================================================
