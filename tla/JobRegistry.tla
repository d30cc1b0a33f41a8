----------------------------- MODULE JobRegistry -----------------------------
(***************************************************************************)
(* What create_job promises its callers: a registry of jobs.  An entry is  *)
(* made once and stays; a key has one entry; who is answered is told of an *)
(* entry with the key that it asked for.                                   *)
(*                                                                         *)
(* There are no handlers, saves or restarts here; they are in JobRecords,  *)
(* which implements this module.                                           *)
(***************************************************************************)

CONSTANTS
    JobId,      \* the ids of jobs
    Key,        \* idempotency keys
    NoKey       \* a request without one

VARIABLES
    registered, \* the entries made so far
    answers     \* what callers have been told

Entry == [key : Key \cup {NoKey}, job : JobId]

TypeOK == registered \subseteq Entry /\ answers \subseteq registered

Init == registered = {} /\ answers = {}

\* Nothing in the registry speaks against entry a.
Free(a) == \A b \in registered : b.job # a.job /\ (b.key = a.key => a.key = NoKey)

\* A new entry; its caller is answered now, or may be later.
Register(a) ==
    /\ Free(a)
    /\ registered' = registered \cup {a}
    /\ answers' \in {answers, answers \cup {a}}

\* The creator of an entry, or a later caller with its key, is answered.
Tell(a) ==
    /\ a \in registered
    /\ answers' = answers \cup {a}
    /\ UNCHANGED registered

Next == \E a \in Entry : Register(a) \/ Tell(a)

Spec == Init /\ [][Next]_<<registered, answers>>
=============================================================================
