------------------------- MODULE WorkloadController -------------------------
(***************************************************************************)
(* The GpuWorkload controller (GpuWorkloadController,                      *)
(* controllers/workload_controller.py): replicas that elect a leader for   *)
(* each turn; the leader lists the workloads, creates the Job of each one  *)
(* that has none, and reports the status of the others.                    *)
(*                                                                         *)
(* Every call of the Kubernetes API is a step of its own.  What it reads   *)
(* may be out of date when the next one writes.  Workloads are not         *)
(* deleted here.                                                           *)
(***************************************************************************)
EXTENDS LeaseElection

CONSTANTS
    Workload,       \* GpuWorkload objects that users may create
    Name,           \* names of Jobs
    JobName,        \* JobName[w]: "gw-" and the name of w, cut at 50 characters
    NoJob,          \* no Job has this name
    NoWorkload      \* no workload is being reconciled

ASSUME NameAssumption == JobName \in [Workload -> Name]
ASSUME NoJobAssumption == \A s \in SUBSET {"active", "failed", "succeeded"} : NoJob # s
ASSUME NoWorkloadAssumption == NoWorkload \notin Workload

VARIABLES
    phase,      \* phase[w]: status.phase of w; "new" when unset, "absent" before w exists
    job,        \* job[n]: which counters of the Job's status are above 0
    doing,      \* doing[c]: the call that c makes next in its turn
    todo,       \* todo[c]: the workloads of the list that it has yet to reconcile
    subject,    \* subject[c]: the workload that it reconciles
    report      \* report[c]: the phase that it is about to patch

turnVars == <<doing, todo, subject, report>>
vars == <<leaseVars, errors, phase, job, turnVars>>

(* The status that a Job shows: nothing yet for one that does not exist.   *)
Status(n) == IF job[n] = NoJob THEN {} ELSE job[n]

Phases == {"Submitted", "Pending", "Running", "Failed", "Succeeded"}

TypeOK ==
    /\ LeaseTypeOK
    /\ errors \in 0..MaxErrors
    /\ phase \in [Workload -> Phases \cup {"absent", "new"}]
    /\ job \in [Name -> {NoJob} \cup SUBSET {"active", "failed", "succeeded"}]
    /\ doing \in [Controller -> {"listing", "getting", "creating", "patching"}]
    /\ todo \in [Controller -> SUBSET Workload]
    /\ subject \in [Controller -> Workload \cup {NoWorkload}]
    /\ report \in [Controller -> Phases]

Init ==
    /\ LeaseInit
    /\ errors = 0
    /\ phase = [w \in Workload |-> "absent"]
    /\ job = [n \in Name |-> NoJob]
    /\ doing = [c \in Controller |-> "listing"]
    /\ todo = [c \in Controller |-> {}]
    /\ subject = [c \in Controller |-> NoWorkload]
    /\ report = [c \in Controller |-> "Submitted"]

(* Deliberately wrong: a mutant that looks at the running pods first.      *)
ActiveFirst(status) ==
    CASE "active" \in status -> "Running"
      [] "active" \notin status /\ "succeeded" \in status -> "Succeeded"
      [] status = {"failed"} -> "Failed"
      [] OTHER -> "Pending"

(* Deliberately wrong: a mutant that looks at the failed pods first.       *)
FailedFirst(status) ==
    CASE "failed" \in status -> "Failed"
      [] "failed" \notin status /\ "succeeded" \in status -> "Succeeded"
      [] status = {"active"} -> "Running"
      [] OTHER -> "Pending"

(* Deliberately wrong: a mutant that leaves the phase of a waiting Job out. *)
WaitingUnset(status) ==
    CASE "succeeded" \in status -> "Succeeded"
      [] status \in {{"failed"}, {"active", "failed"}} -> "Failed"
      [] status = {"active"} -> "Running"
      [] OTHER -> "new"

(* The phase that reconcile derives from the status of a Job.              *)
PhaseOf(status) ==
    IF "succeeded" \in status THEN "Succeeded"
    ELSE IF "failed" \in status THEN "Failed"
    ELSE IF "active" \in status THEN "Running"
    ELSE "Pending"

-----------------------------------------------------------------------------
(* The leader's turn.                                                      *)
InTurn(c, call) == pc[c] = "leading" /\ doing[c] = call
Then(c, call)   == doing' = [doing EXCEPT ![c] = call]

(* reconcile returns or raises, and the loop goes on with the next.        *)
Drop(c) ==
    /\ subject' = [subject EXCEPT ![c] = NoWorkload]
    /\ report' = [report EXCEPT ![c] = "Submitted"]
Done(c) == Drop(c) /\ Then(c, "getting")

(* list_workloads.                                                         *)
List(c) ==
    /\ InTurn(c, "listing")
    /\ todo' = [todo EXCEPT ![c] = {w \in Workload : phase[w] # "absent"}]
    /\ Then(c, "getting")
    /\ UNCHANGED <<leaseVars, phase, job, subject, report>>

(* reconcile(w): the workload whose Job is to be read.                     *)
Take(c, w) ==
    /\ InTurn(c, "getting")
    /\ w \in todo[c]
    /\ todo' = [todo EXCEPT ![c] = @ \ {w}]
    /\ UNCHANGED <<leaseVars, phase, job>>

(* There is no Job: one is to be created.                                  *)
GetMissing(c, w) ==
    /\ Take(c, w)
    /\ job[JobName[w]] = NoJob
    /\ subject' = [subject EXCEPT ![c] = w]
    /\ Then(c, "creating")
    /\ UNCHANGED report

(* There is one: its status is to be reported.                             *)
GetFound(c, w) ==
    /\ Take(c, w)
    /\ job[JobName[w]] # NoJob
    /\ subject' = [subject EXCEPT ![c] = w]
    /\ report' = [report EXCEPT ![c] = PhaseOf(job[JobName[w]])]
    /\ Then(c, "patching")

(* The Job is created, with an empty status.                               *)
AddJob(c) ==
    /\ InTurn(c, "creating")
    /\ job[JobName[subject[c]]] = NoJob
    /\ job' = [job EXCEPT ![JobName[subject[c]]] = {}]
    /\ UNCHANGED <<leaseVars, phase, todo>>

Create(c) ==
    /\ AddJob(c)
    /\ UNCHANGED subject
    /\ report' = [report EXCEPT ![c] = "Submitted"]
    /\ Then(c, "patching")

(* A Job of that name exists by now: the error is logged, and the loop     *)
(* goes on with the next workload.                                         *)
CreateConflict(c) ==
    /\ InTurn(c, "creating")
    /\ job[JobName[subject[c]]] # NoJob
    /\ Done(c)
    /\ UNCHANGED <<leaseVars, phase, job, todo>>

(* patch_status, and on to the next workload.                              *)
Patch(c) ==
    /\ InTurn(c, "patching")
    /\ phase' = [phase EXCEPT ![subject[c]] = report[c]]
    /\ Done(c)
    /\ UNCHANGED <<leaseVars, job, todo>>

(* The list is through.                                                    *)
Finish(c) ==
    /\ InTurn(c, "getting")
    /\ todo[c] = {}
    /\ EndTurn(c)
    /\ Then(c, "listing")
    /\ UNCHANGED <<phase, job, todo, subject, report>>

Reconcile(c) ==
    \/ List(c) \/ Create(c) \/ CreateConflict(c) \/ Patch(c) \/ Finish(c)
    \/ \E w \in Workload : GetMissing(c, w) \/ GetFound(c, w)

-----------------------------------------------------------------------------
(* Failures, each of which is counted.                                     *)

(* A call of reconcile fails without effect: logged, on to the next one.   *)
SkipGet(c, w)  == Take(c, w) /\ Done(c)
SkipCall(c) ==
    /\ InTurn(c, "creating") \/ InTurn(c, "patching")
    /\ Done(c)
    /\ UNCHANGED <<leaseVars, phase, job, todo>>

(* The Job is created and the answer is an error: its status is not set.   *)
CreateUnknowingly(c) == AddJob(c) /\ Done(c)

(* The process dies between two calls; a list that fails ends it as well,  *)
(* since nothing in run() catches the error.                               *)
Crash(c) ==
    /\ Die(c)
    /\ Drop(c)
    /\ Then(c, "listing")
    /\ todo' = [todo EXCEPT ![c] = {}]
    /\ UNCHANGED <<phase, job>>

Failure(c) ==
    \/ SkipCall(c) \/ CreateUnknowingly(c) \/ Crash(c)
    \/ \E w \in Workload : SkipGet(c, w)
    \/ (FailToAsk(c) \/ WinUnknowingly(c)) /\ UNCHANGED <<phase, job, turnVars>>

-----------------------------------------------------------------------------
(* Users and the Job controller of Kubernetes (not in src/).  The counters *)
(* of failed and succeeded pods only grow; a pod can vanish.               *)
Apply(w) ==
    /\ phase[w] = "absent"
    /\ phase' = [phase EXCEPT ![w] = "new"]
    /\ UNCHANGED <<leaseVars, job, turnVars>>

StatusBecomes(n, status) ==
    /\ job[n] # status
    /\ job' = [job EXCEPT ![n] = status]
    /\ UNCHANGED <<leaseVars, phase, turnVars>>

PodStarts(n) ==
    /\ job[n] \in {{}, {"failed"}}
    /\ StatusBecomes(n, job[n] \cup {"active"})

PodEnds(n) ==
    /\ job[n] \in {{"active"}, {"active", "failed"}}
    /\ \E outcome \in {{}, {"failed"}, {"succeeded"}} :
          StatusBecomes(n, (job[n] \ {"active"}) \cup outcome)

Environment ==
    \/ \E w \in Workload : Apply(w)
    \/ \E n \in Name : PodStarts(n) \/ PodEnds(n)

-----------------------------------------------------------------------------
Work(c) ==
    /\ Reconcile(c) \/ (Elect(c) /\ UNCHANGED <<phase, job, turnVars>>)
    /\ UNCHANGED errors
Wake(c)  == Ask(c) /\ UNCHANGED <<errors, phase, job, turnVars>>
Clock    == Tick /\ UNCHANGED <<errors, phase, job, turnVars>>
Fail(c)  == errors < MaxErrors /\ errors' = errors + 1 /\ Failure(c)

Next ==
    \/ \E c \in Controller : Work(c) \/ Wake(c) \/ Fail(c)
    \/ Clock
    \/ Environment /\ UNCHANGED errors

Safety == Init /\ [][Next]_vars

(* A process goes on with its turn, sleeps for an interval and not for     *)
(* ever, and time passes.                                                  *)
Fairness ==
    /\ \A c \in Controller : WF_vars(Work(c)) /\ WF_vars(Wake(c))
    /\ WF_vars(Clock)

Spec == Safety /\ Fairness

-----------------------------------------------------------------------------
(* How far a phase is on the way to an outcome.                            *)
Rank(p) == IF p = "Succeeded" THEN 2 ELSE IF p = "Failed" THEN 1 ELSE 0

(* As long as turns end in time, a reported outcome is not taken back,     *)
(* whoever leads: a workload that was reported Failed or Succeeded does    *)
(* not become Running again, as it would if a controller patched what it   *)
(* had read before another one did.  (Failed may become Succeeded: one     *)
(* failed pod is reported as failure while the Job still has retries.)     *)
OutcomeIsKept ==
    [][~overrun => \A w \in Workload : Rank(phase[w]) <= Rank(phase'[w])]_vars

(* Every workload gets some phase, and a Job that has succeeded is from    *)
(* some time on always reported as succeeded: through crashes, lost        *)
(* answers, changes of leader and leaders that outlast their Lease.  The   *)
(* Lease of a dead controller expires, and what one turn leaves undone or  *)
(* overwrites a later one repeats.                                         *)
OutcomeIsReported ==
    /\ \A w \in Workload : phase[w] = "new" ~> phase[w] \in Phases
    /\ \A w \in Workload :
          phase[w] # "absent" /\ "succeeded" \in Status(JobName[w])
             ~> [](phase[w] = "Succeeded")
=============================================================================
