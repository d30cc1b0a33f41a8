------------------------------ MODULE Placement ------------------------------
(***************************************************************************)
(* What scheduler and agent together promise a caller who is alone: which  *)
(* jobs run where, and which nodes take jobs.  A job starts on an open     *)
(* node and does not move; a node is emptied while it is closed, all its   *)
(* jobs at once, and opens again with none of them.                        *)
(*                                                                         *)
(* How a node is chosen, the queue, the incidents and the handlers' steps  *)
(* are in GpuControlPlane.                                                 *)
(***************************************************************************)
EXTENDS Naturals

CONSTANTS
    Node,       \* the nodes
    Job,        \* the jobs
    NoNode      \* where a job is that does not run

VARIABLES
    open,       \* the nodes that take jobs
    host        \* host[j]: the node that j runs on

TypeOK == open \subseteq Node /\ host \in [Job -> Node \cup {NoNode}]

Init == open = Node /\ host = [j \in Job |-> NoNode]

Start(j, n) ==
    /\ host[j] = NoNode
    /\ n \in open
    /\ host' = [host EXCEPT ![j] = n]
    /\ UNCHANGED open

\* The job is done, cancelled or preempted.
End(j) ==
    /\ host[j] # NoNode
    /\ host' = [host EXCEPT ![j] = NoNode]
    /\ UNCHANGED open

Close(n) ==
    /\ n \in open
    /\ open' = open \ {n}
    /\ UNCHANGED host

Evict(n) ==
    /\ n \in Node \ open
    /\ host' = [j \in Job |-> IF host[j] = n THEN NoNode ELSE host[j]]
    /\ UNCHANGED open

Open(n) ==
    /\ n \in Node \ open
    /\ \A j \in Job : host[j] # n
    /\ open' = open \cup {n}
    /\ UNCHANGED host

Next ==
    \/ \E j \in Job : End(j) \/ \E n \in Node : Start(j, n)
    \/ \E n \in Node : Close(n) \/ Evict(n) \/ Open(n)

Spec == Init /\ [][Next]_<<open, host>>
=============================================================================
