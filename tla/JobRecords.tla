----------------------------- MODULE JobRecords -----------------------------
(***************************************************************************)
(* Jobs between the process and the database: create_job with its          *)
(* idempotency key, the handlers that change a job and then save it, and a *)
(* restart (app/api.py, app/persistence.py).                               *)
(*                                                                         *)
(* scheduler.jobs lives in memory; workload_state is a table with a unique *)
(* idempotency key.  create_job looks a key up, submits, and records, in   *)
(* that order and without a lock; a save reads the job and commits later.  *)
(* Where the scheduler puts a job is GpuControlPlane's business: here a    *)
(* submitted job is running or still queued.                               *)
(***************************************************************************)
EXTENDS Naturals, FiniteSets

CONSTANTS
    Client,     \* concurrent callers of the API
    JobId,      \* bound: the ids of the jobs that can be created
    Key,        \* idempotency keys
    NoKey,      \* a request without one
    EmptyKey,   \* the empty string, which is a key that no lookup finds
    NoJob       \* no job id

ASSUME KeyAssumption == NoKey \notin Key /\ EmptyKey # NoKey
ASSUME JobIdAssumption == NoJob \notin JobId

VARIABLES
    memory,     \* memory[j]: the state of j in scheduler.jobs, or "absent"
    key,        \* key[j]: the idempotency key that j was created with
    used,       \* the ids of the jobs created so far (uuid4 repeats none)
    record,     \* record[j]: the state of j in workload_state, or "none"
    answers,    \* the jobs that successful calls of create_job have named
    contested,  \* history: the jobs moved by a reconcile, changed by two
                \* handlers at once, or whose save was refused or failed
    pc,         \* pc[c]: where the handler that c waits for is
    wanted,     \* wanted[c]: the key that it was called with
    subject,    \* subject[c]: the job that it is about
    read        \* read[c]: the state that it has read to save

callVars == <<pc, wanted, subject, read>>
vars == <<memory, key, used, record, answers, contested, callVars>>

\* "ended" stands for the final states: the job's worker has ended, well or not,
\* or a caller has cancelled it.
Live  == {"queued", "running", "requeued"}
JobState == Live \cup {"ended"}
Answer == [key : Key \cup {NoKey}, job : JobId]

TypeOK ==
    /\ memory \in [JobId -> JobState \cup {"absent"}]
    /\ key \in [JobId -> Key \cup {NoKey}]
    /\ used \subseteq JobId
    /\ record \in [JobId -> JobState \cup {"none"}]
    /\ answers \subseteq Answer
    /\ contested \subseteq JobId
    /\ pc \in [Client -> {"idle", "missed", "submitted", "committing", "changed", "saving"}]
    /\ wanted \in [Client -> Key \cup {NoKey}]
    /\ subject \in [Client -> JobId \cup {NoJob}]
    /\ read \in [Client -> JobState \cup {"none"}]

Init ==
    /\ memory = [j \in JobId |-> "absent"]
    /\ key = [j \in JobId |-> NoKey]
    /\ used = {}
    /\ record = [j \in JobId |-> "none"]
    /\ answers = {}
    /\ contested = {}
    /\ pc = [c \in Client |-> "idle"]
    /\ wanted = [c \in Client |-> NoKey]
    /\ subject = [c \in Client |-> NoJob]
    /\ read = [c \in Client |-> "none"]

goto(c, step) == pc' = [pc EXCEPT ![c] = step]

\* The rows with key k.  NULL is not a key.
Rows(k) == {j \in JobId : k # NoKey /\ record[j] # "none" /\ key[j] = k}

\* The rows that a lookup finds: none for the empty string, which it takes for
\* the lack of a key although the table stores it as one.
Found(k) == {j \in Rows(k) : k # EmptyKey}

\* What the unique constraint forbids: a second row with the key of j.
Conflict(j) == Rows(key[j]) \ {j} # {}

-----------------------------------------------------------------------------
(* create_job *)

\* Deliberately wrong: the key is looked up among the scheduler's jobs.
LookupInMemory(c, k) ==
    /\ pc[c] = "idle"
    /\ LET known == {j \in JobId : k # NoKey /\ memory[j] # "absent" /\ key[j] = k}
       IN  \/ \E j \in known :
                /\ answers' = answers \cup {[key |-> k, job |-> j]}
                /\ UNCHANGED <<pc, wanted>>
           \/ /\ known = {}
              /\ wanted' = [wanted EXCEPT ![c] = k]
              /\ goto(c, "missed")
              /\ UNCHANGED answers
    /\ UNCHANGED <<memory, key, used, record, contested, subject, read>>

\* find_job_by_idempotency_key: a row is answered as a replay.
Lookup(c, k) ==
    /\ pc[c] = "idle"
    /\ \/ \E j \in Found(k) :
            /\ answers' = answers \cup {[key |-> k, job |-> j]}
            /\ UNCHANGED <<pc, wanted>>
       \/ /\ Found(k) = {}
          /\ wanted' = [wanted EXCEPT ![c] = k]
          /\ goto(c, "missed")
          /\ UNCHANGED answers
    /\ UNCHANGED <<memory, key, used, record, contested, subject, read>>

\* scheduler.submit of a new job, which may be placed at once.
Submit(c) ==
    /\ pc[c] = "missed"
    /\ \E j \in JobId \ used, state \in {"queued", "running"} :
         /\ memory' = [memory EXCEPT ![j] = state]
         /\ key' = [key EXCEPT ![j] = wanted[c]]
         /\ used' = used \cup {j}
         /\ subject' = [subject EXCEPT ![c] = j]
    /\ goto(c, "submitted")
    /\ UNCHANGED <<record, answers, contested, wanted, read>>

\* record_job and update_job_state read the job ...
Read(c) ==
    /\ pc[c] \in {"submitted", "changed"}
    /\ read' = [read EXCEPT ![c] = memory[subject[c]]]
    /\ goto(c, IF pc[c] = "submitted" THEN "committing" ELSE "saving")
    /\ UNCHANGED <<memory, key, used, record, answers, contested, wanted, subject>>

\* Deliberately wrong: a row of the same key is replaced.
CommitOver(c) ==
    /\ pc[c] = "committing"
    /\ record' = [j \in JobId |-> IF j = subject[c] THEN read[c]
                                  ELSE IF j \in Rows(wanted[c]) THEN "none" ELSE record[j]]
    /\ answers' = answers \cup {[key |-> wanted[c], job |-> subject[c]]}
    /\ goto(c, "idle")
    /\ subject' = [subject EXCEPT ![c] = NoJob]
    /\ read' = [read EXCEPT ![c] = "none"]
    /\ wanted' = [wanted EXCEPT ![c] = NoKey]
    /\ UNCHANGED <<memory, key, used, contested>>

\* ... and commit later.  A second row with the key is refused and the call
\* fails, which leaves the job in the scheduler.  create_job answers only now.
Commit(c) ==
    /\ pc[c] \in {"committing", "saving"}
    /\ IF Conflict(subject[c])
         THEN /\ contested' = contested \cup {subject[c]}
              /\ UNCHANGED <<record, answers>>
         ELSE /\ record' = [record EXCEPT ![subject[c]] = read[c]]
              /\ answers' = answers \cup
                   IF pc[c] = "committing"
                     THEN {[key |-> wanted[c], job |-> subject[c]]} ELSE {}
              /\ UNCHANGED contested
    /\ goto(c, "idle")
    /\ subject' = [subject EXCEPT ![c] = NoJob]
    /\ read' = [read EXCEPT ![c] = "none"]
    /\ wanted' = [wanted EXCEPT ![c] = NoKey]
    /\ UNCHANGED <<memory, key, used>>

\* A handler ends with an error before its commit: a submission has interrupted
\* the loop of its reconcile, or the database does not answer.  The job stays
\* in memory as it is.
Fail(c) ==
    /\ pc[c] \in {"submitted", "committing", "changed", "saving"}
    /\ contested' = contested \cup {subject[c]}
    /\ goto(c, "idle")
    /\ subject' = [subject EXCEPT ![c] = NoJob]
    /\ wanted' = [wanted EXCEPT ![c] = NoKey]
    /\ read' = [read EXCEPT ![c] = "none"]
    /\ UNCHANGED <<memory, key, used, record, answers>>

-----------------------------------------------------------------------------
(* Changes of jobs, and the process *)

\* The handlers that are about job j.
About(j) ==
    {c \in Client : pc[c] \in {"submitted", "committing", "changed", "saving"} /\ subject[c] = j}

\* Deliberately wrong: a handler changes the job and saves nothing.
ChangeUnsaved(c, j) ==
    /\ pc[c] = "idle"
    /\ memory[j] # "absent"
    /\ \E state \in {"queued", "running", "ended"} : memory' = [memory EXCEPT ![j] = state]
    /\ contested' = IF About(j) = {} THEN contested ELSE contested \cup {j}
    /\ UNCHANGED <<key, used, record, answers, callVars>>

\* cancel_job, refresh_processes or the end of checkpoint_job, whose reconcile
\* may place the job, change it in memory; the save comes after.
Change(c, j) ==
    /\ pc[c] = "idle"
    /\ memory[j] # "absent"
    /\ \E state \in {"queued", "running", "ended"} : memory' = [memory EXCEPT ![j] = state]
    /\ contested' = IF About(j) = {} THEN contested ELSE contested \cup {j}
    /\ subject' = [subject EXCEPT ![c] = j]
    /\ goto(c, "changed")
    /\ UNCHANGED <<key, used, record, answers, wanted, read>>

\* A reconcile that another request called places j, or the agent requeues it,
\* because it was queued, or running, when they looked at it: by now it can be
\* in any state.  Neither saves j.
Reschedule(j) ==
    /\ memory[j] # "absent"
    /\ \E state \in {"running", "requeued"} : memory' = [memory EXCEPT ![j] = state]
    /\ contested' = contested \cup {j}
    /\ UNCHANGED <<key, used, record, answers, callVars>>

\* Deliberately wrong: rows of unfinished jobs are dropped at startup.
RestartPruning ==
    /\ memory' = [j \in JobId |-> "absent"]
    /\ contested' = {}
    /\ record' = [j \in JobId |-> IF record[j] \in Live THEN "none" ELSE record[j]]
    /\ pc' = [c \in Client |-> "idle"]
    /\ wanted' = [c \in Client |-> NoKey]
    /\ subject' = [c \in Client |-> NoJob]
    /\ read' = [c \in Client |-> "none"]
    /\ UNCHANGED <<key, used, answers>>

\* Deliberately wrong: requests in flight outlive the process.
RestartKeepingCalls ==
    /\ memory' = [j \in JobId |-> "absent"]
    /\ contested' = {}
    /\ UNCHANGED <<key, used, record, answers, callVars>>

\* The process ends and starts again.  startup() loads inference services and
\* no jobs: the scheduler is empty and the requests in flight are gone.
Restart ==
    /\ memory' = [j \in JobId |-> "absent"]
    /\ contested' = {}
    /\ pc' = [c \in Client |-> "idle"]
    /\ wanted' = [c \in Client |-> NoKey]
    /\ subject' = [c \in Client |-> NoJob]
    /\ read' = [c \in Client |-> "none"]
    /\ UNCHANGED <<key, used, record, answers>>

Next ==
    \/ \E c \in Client :
         \/ \E k \in Key \cup {NoKey} : Lookup(c, k)
         \/ Submit(c) \/ Read(c) \/ Commit(c) \/ Fail(c)
         \/ \E j \in JobId : Change(c, j)
    \/ \E j \in JobId : Reschedule(j)
    \/ Restart

Safety == Init /\ [][Next]_vars

-----------------------------------------------------------------------------
(* Properties *)

\* All calls that succeed with one key name one job, whether they created it
\* or were answered from the table, across races and restarts.
SameAnswer ==
    \A a, b \in answers : (a.key = b.key /\ a.key # NoKey) => a.job = b.job

\* A job that a caller was given is in the table, also after a restart.
AnsweredIsRecorded == \A a \in answers : record[a.job] # "none"

\* The entries that the table stands for.
Registered == {a \in Answer : record[a.job] # "none" /\ key[a.job] = a.key}
Registry == INSTANCE JobRegistry WITH registered <- Registered

\* Handlers that look up, submit and commit in separate steps, saves that come
\* first, and restarts, implement a registry in which an entry is made at once
\* and for good: no row is lost, renamed or given to two callers' keys.
ImplementsRegistry == Registry!Spec

\* A job that the scheduler holds, that no handler is about and that no
\* reconcile, second handler or failed save has come between, has a row with
\* its state: every handler that changes a job also saves what it changed.
RowsKeepUp ==
    \A j \in JobId \ contested :
        (memory[j] # "absent" /\ About(j) = {}) => record[j] = memory[j]

\* persistence.py:26, "used for idempotency": the scheduler holds at most one
\* job for a key.
OneJobPerKey ==
    \A i, j \in JobId :
        (memory[i] # "absent" /\ memory[j] # "absent" /\ key[i] = key[j] /\ key[i] # NoKey)
          => i = j
=============================================================================
