---------------------------- MODULE MCJobRecords ----------------------------
(***************************************************************************)
(* Instances of JobRecords for TLC: ids, clients and the keys that are not *)
(* empty are interchangeable.                                              *)
(***************************************************************************)
EXTENDS JobRecords, TLC

Interchangeable ==
    {a @@ b @@ c : a \in Permutations(JobId), b \in Permutations(Client),
                   c \in Permutations(Key \ {EmptyKey})}
=============================================================================
