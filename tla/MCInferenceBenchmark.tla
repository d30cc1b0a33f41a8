------------------------ MODULE MCInferenceBenchmark ------------------------
(***************************************************************************)
(* Instances of InferenceBenchmark for TLC.                                *)
(***************************************************************************)
EXTENDS InferenceBenchmark

\* One worker more than the service admits, then as many as it admits.
MCConcurrency == <<3, 2>>
=============================================================================
