--------------------------- MODULE MCInferenceApi ---------------------------
(***************************************************************************)
(* Instances of InferenceApi for TLC; clients are interchangeable.         *)
(***************************************************************************)
EXTENDS InferenceApi, TLC

Interchangeable == Permutations(Client)

\* A loaded replica with a warm cache that is not to be used, in a word of the
\* caller's own: a later set_service_state makes it ready again.
MCReports == { [queue |-> 1, cache |-> 1, state |-> "draining"] }
=============================================================================
