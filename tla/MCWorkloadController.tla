------------------------ MODULE MCWorkloadController ------------------------
(***************************************************************************)
(* Instances of WorkloadController for TLC.                                *)
(***************************************************************************)
EXTENDS WorkloadController

CONSTANTS c1, c2, w1, n1

(* One Job for every workload whose name begins like that of w1.           *)
MCJobName == [w \in Workload |-> n1]
=============================================================================
