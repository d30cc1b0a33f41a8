------------------------- MODULE MCInferenceManager -------------------------
(***************************************************************************)
(* Instances of InferenceManager for TLC.  Chats are interchangeable, so   *)
(* are streams and probes; the runs that check liveness do not use it.     *)
(***************************************************************************)
EXTENDS InferenceManager, TLC

Interchangeable ==
    { a @@ b @@ c : a \in Permutations(Request \ StreamRequest),
                    b \in Permutations(StreamRequest),
                    c \in Permutations(Probe) }
=============================================================================
