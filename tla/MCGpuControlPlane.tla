------------------------- MODULE MCGpuControlPlane --------------------------
(***************************************************************************)
(* Instances of GpuControlPlane for TLC.                                   *)
(***************************************************************************)
EXTENDS GpuControlPlane, TLC

CONSTANTS j1, j2, j3

\* j1 needs one GPU, the others two (or all there are); j3 is the most urgent.
MCNeed == [j \in Job |-> IF j = j1 \/ GpuCount = 1 THEN 1 ELSE 2]
MCPriority == [j \in Job |-> IF j = j3 THEN 1 ELSE 0]

\* Jobs that are all alike; these and callers of one role may change places.
MCNeedOne == [j \in Job |-> 1]
Interchangeable == Permutations(Client) \cup Permutations(Job)
=============================================================================
