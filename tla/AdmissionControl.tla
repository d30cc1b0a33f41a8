-------------------------- MODULE AdmissionControl --------------------------
(***************************************************************************)
(* What admission control promises the callers of one inference service:   *)
(* at most MaxConcurrent requests are being executed, a request is refused *)
(* only when that many really are, and an admitted request gives its place *)
(* back.  There is no counter here: the set of admitted requests is the    *)
(* truth.  The counter, the lock and the error paths of                    *)
(* app/inference.py are in InferenceManager, which implements this module. *)
(***************************************************************************)
EXTENDS Naturals, FiniteSets

CONSTANTS
    Request,        \* the requests for the service
    MaxConcurrent   \* max_concurrent_requests of the service

VARIABLE place      \* place[r]: what has become of request r

Admitted == {r \in Request : place[r] = "admitted"}

TypeOK ==
    place \in [Request -> {"waiting", "withdrawn", "admitted", "refused", "released"}]

Init == place = [r \in Request |-> "waiting"]

\* The request is let in: there is a free place.
Admit(r) ==
    /\ place[r] = "waiting"
    /\ Cardinality(Admitted) < MaxConcurrent
    /\ place' = [place EXCEPT ![r] = "admitted"]

\* The request is sent away by admission control: every place is taken.
Refuse(r) ==
    /\ place[r] = "waiting"
    /\ Cardinality(Admitted) >= MaxConcurrent
    /\ place' = [place EXCEPT ![r] = "refused"]

\* The request never reaches admission control: the service is stopped.
Withdraw(r) ==
    /\ place[r] = "waiting"
    /\ place' = [place EXCEPT ![r] = "withdrawn"]

\* The request is over, whichever way it ended, and its place is free.
Release(r) ==
    /\ place[r] = "admitted"
    /\ place' = [place EXCEPT ![r] = "released"]

Next == \E r \in Request : Admit(r) \/ Refuse(r) \/ Withdraw(r) \/ Release(r)

Safety == Init /\ [][Next]_place

Spec == Safety /\ \A r \in Request : WF_place(Release(r))

\* The bound of README.md:166: never more than MaxConcurrent requests inside.
Bounded == Cardinality(Admitted) <= MaxConcurrent
=============================================================================
