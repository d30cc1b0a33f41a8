---------------------- MODULE WorkloadControllerProofs ----------------------
(***************************************************************************)
(* What the election and the reconciliation promise, for any number of     *)
(* replicas, any duration of the Lease, any turns and any clock skew.      *)
(***************************************************************************)
EXTENDS WorkloadController, TLAPS

(* Why a leader in time is alone.  It holds the Lease, and the Lease is as *)
(* old as its turn; and a controller that is about to replace a Lease with *)
(* a current copy holds it or has seen it expired.                         *)
LeaderHolds(c) ==
    pc[c] = "leading" /\ InTime(c) => holder = c /\ age = elapsed[c]

ReplacerMayTake(c) ==
    pc[c] = "replacing" /\ fresh[c] =>
       holder = c \/ age - elapsed[c] + ClockSkew > Duration

InTimeUnlessOverrun(c) == ~overrun => InTime(c)

LeaseInvariant ==
    /\ LeaseTypeOK
    /\ \A c \in Controller :
          LeaderHolds(c) /\ ReplacerMayTake(c) /\ InTimeUnlessOverrun(c)

LEMMA LeaseStarts == LeaseInit => LeaseInvariant
<1> SUFFICES ASSUME LeaseInit PROVE LeaseInvariant
  OBVIOUS
<1>1. Ancient \in Nat
  BY TimeAssumption, SMT DEF Ancient
<1>2. LeaseTypeOK
  <2>1. age \in 0..Ancient /\ 0 \in 0..Turn
    BY <1>1, TimeAssumption, SMT DEF LeaseInit
  <2> QED BY <2>1 DEF LeaseInit, LeaseTypeOK
<1>3. ASSUME NEW c \in Controller
      PROVE pc[c] = "asleep" /\ InTime(c)
  <2>1. pc[c] = "asleep" /\ elapsed[c] = 0
    BY DEF LeaseInit
  <2> QED BY <2>1, TimeAssumption, SMT DEF InTime
<1> QED
  BY <1>2, <1>3 DEF LeaseInvariant, LeaderHolds, ReplacerMayTake, InTimeUnlessOverrun

(* An accepted write gives c the Lease.  No other controller was leading   *)
(* in time: it would hold a Lease that c has seen expired.                 *)
LEMMA AcceptIsAlone ==
    ASSUME LeaseInvariant, NEW c \in Controller, Accept(c),
           NEW d \in Controller, d # c, pc[d] = "leading", InTime(d)
    PROVE FALSE
<1>1. holder = d /\ age = elapsed[d]
  BY DEF LeaseInvariant, LeaderHolds
<1>2. elapsed[c] \in Nat /\ elapsed[d] \in Nat /\ age \in Nat
  BY TimeAssumption, SMT DEF LeaseInvariant, LeaseTypeOK, Ancient
<1>3. age - elapsed[c] + ClockSkew <= Duration
  BY <1>1, <1>2, TimeAssumption, SMT DEF InTime
<1>4. CASE pc[c] = "replacing" /\ fresh[c]
  <2>1. age - elapsed[c] + ClockSkew > Duration
    BY <1>1, <1>4 DEF LeaseInvariant, ReplacerMayTake
  <2> QED BY <1>2, <1>3, <2>1, TimeAssumption, SMT
<1>5. CASE holder = NoLease
  BY <1>1, <1>5, HolderAssumption
<1> QED BY <1>4, <1>5 DEF Accept

(* A controller that goes to sleep disturbs nobody.                        *)
LEMMA SleepStep ==
    ASSUME LeaseInvariant, NEW c \in Controller, Sleep(c),
           holder' = holder \/ (holder = c /\ holder' = Former),
           age' = age, overrun' = overrun
    PROVE LeaseInvariant'
<1>1. LeaseTypeOK'
  BY TimeAssumption DEF LeaseInvariant, LeaseTypeOK, Sleep, Forget, Goto
<1>2. ASSUME NEW d \in Controller
      PROVE (LeaderHolds(d) /\ ReplacerMayTake(d) /\ InTimeUnlessOverrun(d))'
  <2>1. LeaderHolds(d) /\ ReplacerMayTake(d) /\ InTimeUnlessOverrun(d)
    BY DEF LeaseInvariant
  <2>2. CASE d = c
    <3>1. pc'[c] = "asleep" /\ elapsed'[c] = 0
      BY DEF LeaseInvariant, LeaseTypeOK, Sleep, Forget, Goto
    <3>2. InTime(c)'
      BY <3>1, TimeAssumption, SMT DEF InTime
    <3> QED BY <2>2, <3>1, <3>2 DEF LeaderHolds, ReplacerMayTake, InTimeUnlessOverrun
  <2>3. CASE d # c
    <3>1. pc'[d] = pc[d] /\ elapsed'[d] = elapsed[d] /\ fresh'[d] = fresh[d]
      BY <2>3 DEF LeaseInvariant, LeaseTypeOK, Sleep, Forget, Goto
    <3>2. holder = d => holder' = d
      BY <2>3
    <3> QED
      BY <2>1, <3>1, <3>2 DEF LeaderHolds, ReplacerMayTake, InTimeUnlessOverrun, InTime
  <2> QED BY <2>2, <2>3
<1> QED BY <1>1, <1>2 DEF LeaseInvariant

(* An accepted write: c holds a Lease as old as its turn, whatever c makes *)
(* of the answer, and no other copy is current.                            *)
LEMMA AcceptStep ==
    ASSUME LeaseInvariant, NEW c \in Controller, Accept(c),
           (Goto(c, "leading") /\ UNCHANGED elapsed) \/ Forget(c)
    PROVE LeaseInvariant'
<1>1. elapsed[c] \in 0..Turn /\ elapsed[c] \in 0..Ancient /\ 0 \in 0..Turn
  BY TimeAssumption, SMT DEF LeaseInvariant, LeaseTypeOK, Ancient
<1>2. LeaseTypeOK'
  BY <1>1 DEF LeaseInvariant, LeaseTypeOK, Accept, Forget, Goto
<1>3. ASSUME NEW d \in Controller
      PROVE (LeaderHolds(d) /\ ReplacerMayTake(d) /\ InTimeUnlessOverrun(d))'
  <2>1. fresh'[d] = FALSE /\ holder' = c /\ age' = elapsed[c] /\ overrun' = overrun
    BY DEF Accept
  <2>2. InTimeUnlessOverrun(d)
    BY DEF LeaseInvariant
  <2>3. CASE d = c
    <3>1. \/ elapsed'[c] = elapsed[c]
          \/ pc'[c] = "asleep" /\ elapsed'[c] = 0
      BY DEF LeaseInvariant, LeaseTypeOK, Forget, Goto
    <3>2. elapsed'[c] = 0 => InTime(c)'
      BY TimeAssumption, SMT DEF InTime
    <3> QED
      BY <2>1, <2>2, <2>3, <3>1, <3>2
      DEF LeaderHolds, ReplacerMayTake, InTimeUnlessOverrun, InTime
  <2>4. CASE d # c
    <3>1. pc'[d] = pc[d] /\ elapsed'[d] = elapsed[d]
      BY <2>4 DEF LeaseInvariant, LeaseTypeOK, Forget, Goto
    <3>2. ~(pc[d] = "leading" /\ InTime(d))
      BY <2>4, AcceptIsAlone
    <3> QED
      BY <2>1, <2>2, <3>1, <3>2 DEF LeaderHolds, ReplacerMayTake, InTimeUnlessOverrun, InTime
  <2> QED BY <2>3, <2>4
<1> QED BY <1>2, <1>3 DEF LeaseInvariant

(* Time passes: the Lease and the turn of its holder age together, and a   *)
(* Lease that c has seen expired stays so.                                 *)
LEMMA TickStep == LeaseInvariant /\ Tick => LeaseInvariant'
<1> SUFFICES ASSUME LeaseInvariant, Tick PROVE LeaseInvariant'
  OBVIOUS
<1>1. Ancient \in Nat /\ age \in 0..Ancient /\ age' \in 0..Ancient
  BY TimeAssumption, SMT DEF LeaseInvariant, LeaseTypeOK, Tick, Ancient
<1>2. ASSUME NEW c \in Controller
      PROVE /\ elapsed[c] \in 0..Turn
            /\ elapsed'[c] \in 0..Turn
            /\ pc'[c] = pc[c]
            /\ fresh'[c] = fresh[c]
            /\ pc[c] # "asleep" => elapsed'[c] = elapsed[c] + 1
  BY TimeAssumption, SMT DEF LeaseInvariant, LeaseTypeOK, Tick
<1>3. LeaseTypeOK'
  <2>1. elapsed' \in [Controller -> 0..Turn]
    BY <1>2 DEF Tick
  <2>2. overrun' \in BOOLEAN
    BY DEF Tick, LeaseInvariant, LeaseTypeOK
  <2> QED BY <1>1, <2>1, <2>2 DEF LeaseInvariant, LeaseTypeOK, Tick
<1>4. ASSUME NEW c \in Controller
      PROVE (LeaderHolds(c) /\ ReplacerMayTake(c) /\ InTimeUnlessOverrun(c))'
  <2>1. LeaderHolds(c) /\ ReplacerMayTake(c) /\ holder' = holder
    BY DEF LeaseInvariant, Tick
  <2>2. age' = IF age < Ancient THEN age + 1 ELSE age
    BY DEF Tick
  <2>3. LeaderHolds(c)'
    <3> SUFFICES ASSUME pc[c] = "leading", InTime(c)' PROVE holder = c /\ age' = elapsed'[c]
      BY <1>2, <2>1 DEF LeaderHolds
    <3>1. elapsed'[c] = elapsed[c] + 1
      BY <1>2
    <3>2. InTime(c) /\ elapsed[c] < Ancient
      BY <1>2, <3>1, TimeAssumption, SMT DEF InTime, Ancient
    <3> QED BY <1>1, <2>1, <2>2, <3>1, <3>2 DEF LeaderHolds
  <2>4. ReplacerMayTake(c)'
    <3> SUFFICES ASSUME pc[c] = "replacing", fresh[c], holder # c
                 PROVE age' - elapsed'[c] + ClockSkew > Duration
      BY <1>2, <2>1 DEF ReplacerMayTake
    <3>1. elapsed'[c] = elapsed[c] + 1
      BY <1>2
    <3>2. age - elapsed[c] + ClockSkew > Duration
      BY <2>1 DEF ReplacerMayTake
    <3>3. CASE age < Ancient
      BY <1>1, <1>2, <2>2, <3>1, <3>2, <3>3, TimeAssumption, SMT
    <3>4. CASE age = Ancient
      <4>1. age' = Ancient
        BY <1>1, <2>2, <3>4, SMT
      <4> QED BY <1>2, <4>1, TimeAssumption, SMT DEF Ancient
    <3> QED BY <1>1, <3>3, <3>4, SMT
  <2>5. InTimeUnlessOverrun(c)'
    <3> SUFFICES ASSUME ~overrun' PROVE InTime(c)'
      BY DEF InTimeUnlessOverrun
    <3>1. ~(elapsed'[c] + ClockSkew > Duration)
      BY DEF Tick
    <3> QED BY <1>2, <3>1, TimeAssumption, SMT DEF InTime
  <2> QED BY <2>3, <2>4, <2>5
<1> QED BY <1>3, <1>4 DEF LeaseInvariant

(* One step of the election, whatever the leader does in its turn.         *)
LEMMA LeaseStep ==
    ASSUME LeaseInvariant, [LeaseNext]_leaseVars
    PROVE LeaseInvariant'
<1> USE DEF LeaderHolds, ReplacerMayTake, InTimeUnlessOverrun, InTime
<1>1. ASSUME NEW c \in Controller, Ask(c) \/ LookMissing(c)
      PROVE LeaseInvariant'
  BY <1>1 DEF LeaseInvariant, LeaseTypeOK, Ask, LookMissing, Goto
<1>2. ASSUME NEW c \in Controller, LookHeld(c) \/ Lose(c) \/ FailToAsk(c) \/ EndTurn(c) \/ Die(c)
      PROVE LeaseInvariant'
  BY <1>2, SleepStep DEF LookHeld, Lose, FailToAsk, EndTurn, Die
<1>3. ASSUME NEW c \in Controller, LookFree(c)
      PROVE LeaseInvariant'
  <2>1. holder = c \/ age - elapsed[c] + ClockSkew > Duration
    <3>1. CASE holder = c
      BY <3>1
    <3>2. CASE \E skew \in -ClockSkew..ClockSkew : Expired(c, skew)
      <4>1. PICK skew \in -ClockSkew..ClockSkew : Expired(c, skew)
        BY <3>2
      <4>2. age \in Nat /\ elapsed[c] \in Nat
        BY TimeAssumption, SMT DEF LeaseInvariant, LeaseTypeOK, Ancient
      <4> QED BY <4>1, <4>2, TimeAssumption, SMT DEF Expired
    <3> QED BY <1>3, <3>1, <3>2 DEF LookFree
  <2> QED BY <1>3, <2>1 DEF LeaseInvariant, LeaseTypeOK, LookFree, Goto
<1>4. ASSUME NEW c \in Controller, Win(c) \/ WinUnknowingly(c)
      PROVE LeaseInvariant'
  BY <1>4, AcceptStep DEF Win, WinUnknowingly
<1>5. CASE UNCHANGED leaseVars
  BY <1>5 DEF leaseVars, LeaseInvariant, LeaseTypeOK
<1> QED
  BY <1>1, <1>2, <1>3, <1>4, <1>5, TickStep DEF LeaseNext, Elect

(* What the leader does in its turn is, to the election, one of its steps  *)
(* or none.                                                                *)
LEMMA TurnsRespectTheLease == [Next]_vars => [LeaseNext]_leaseVars
<1> SUFFICES ASSUME [Next]_vars PROVE [LeaseNext]_leaseVars
  OBVIOUS
<1>1. ASSUME NEW c \in Controller, Reconcile(c)
      PROVE [LeaseNext]_leaseVars
  BY <1>1 DEF Reconcile, List, Create, CreateConflict, Patch, Finish, GetMissing,
              GetFound, Take, AddJob, LeaseNext
<1>2. ASSUME NEW c \in Controller, Failure(c)
      PROVE [LeaseNext]_leaseVars
  BY <1>2 DEF Failure, SkipCall, CreateUnknowingly, AddJob, Crash, SkipGet, Take, LeaseNext
<1>3. CASE Environment
  BY <1>3 DEF Environment, Apply, PodStarts, PodEnds, StatusBecomes
<1>4. CASE UNCHANGED vars
  BY <1>4 DEF vars
<1> QED
  BY <1>1, <1>2, <1>3, <1>4 DEF Next, Work, Wake, Fail, Clock, LeaseNext

(* Leaders in time are alone, always: the theorem of the election.         *)
THEOREM LeadersInTimeAreAlwaysAlone == Safety => []LeadersInTimeAreAlone
<1>1. Init => LeaseInvariant
  BY LeaseStarts DEF Init
<1>2. LeaseInvariant /\ [Next]_vars => LeaseInvariant'
  BY LeaseStep, TurnsRespectTheLease
<1>3. LeaseInvariant => LeadersInTimeAreAlone
  BY DEF LeaseInvariant, LeaderHolds, LeadersInTimeAreAlone
<1> QED BY <1>1, <1>2, <1>3, PTL DEF Safety

-----------------------------------------------------------------------------
(* Why outcomes are kept.  A phase never claims more than the Job shows,   *)
(* and what a leader is about to patch claims no less than the phase,      *)
(* since nobody else patches while it leads in time.                       *)
Founded(w) == Rank(phase[w]) <= Rank(PhaseOf(Status(JobName[w])))

(* What the Job of the workload that c reconciles shows.                   *)
Shown(c) == Status(JobName[subject[c]])

PatchIsSound(c) ==
    InTurn(c, "patching") =>
       /\ Rank(report[c]) <= Rank(PhaseOf(Shown(c)))
       /\ ~overrun => Rank(phase[subject[c]]) <= Rank(report[c])

TurnIsNamed(c) ==
    /\ pc[c] # "leading" => doing[c] = "listing"
    /\ doing[c] \in {"creating", "patching"} => subject[c] \in Workload

OutcomeInvariant ==
    /\ TypeOK
    /\ \A w \in Workload : Founded(w)
    /\ \A c \in Controller : PatchIsSound(c) /\ TurnIsNamed(c)

LEMMA RankIsNatural == \A p : Rank(p) \in 0..2
BY SMT DEF Rank

(* What a Job shows never claims less than before.                         *)
LEMMA JobsAdvance ==
    ASSUME TypeOK, NEW n \in Name, NEW m \in Name, PodStarts(n) \/ PodEnds(n)
    PROVE Rank(PhaseOf(Status(m))) <= Rank(PhaseOf(Status(m)'))
<1>1. CASE m # n
  BY <1>1, RankIsNatural, SMT DEF PodStarts, PodEnds, StatusBecomes, Status, TypeOK
<1>2. CASE m = n
  <2>1. job[n] \in SUBSET {"active", "failed", "succeeded"} => Status(n) = job[n]
    BY NoJobAssumption DEF Status
  <2>2. CASE job[n] \in {{}, {"failed"}} /\ job'[n] = job[n] \cup {"active"}
    <3>1. Status(n) = job[n] /\ Status(n)' = job[n] \cup {"active"}
      BY <2>1, <2>2, NoJobAssumption DEF Status
    <3> QED BY <1>2, <2>2, <3>1 DEF Rank, PhaseOf
  <2>3. CASE /\ job[n] \in {{"active"}, {"active", "failed"}}
             /\ \E outcome \in {{}, {"failed"}, {"succeeded"}} :
                   job'[n] = (job[n] \ {"active"}) \cup outcome
    <3>1. PICK outcome \in {{}, {"failed"}, {"succeeded"}} :
                   job'[n] = (job[n] \ {"active"}) \cup outcome
      BY <2>3
    <3>2. Status(n) = job[n] /\ Status(n)' = (job[n] \ {"active"}) \cup outcome
      BY <2>1, <2>3, <3>1, NoJobAssumption DEF Status
    <3>3. "succeeded" \notin job[n] /\ ("failed" \in job[n] => "failed" \in Status(n)')
      BY <2>3, <3>2
    <3> QED BY <1>2, <3>2, <3>3 DEF Rank, PhaseOf
  <2> QED BY <2>2, <2>3 DEF PodStarts, PodEnds, StatusBecomes, TypeOK
<1> QED BY <1>1, <1>2

(* A step of c that touches neither phases nor Jobs disturbs no other      *)
(* controller and no workload.                                             *)
LEMMA LocalStep ==
    ASSUME OutcomeInvariant, NEW c \in Controller, UNCHANGED <<phase, job, overrun>>,
           \A d \in Controller \ {c} :
              /\ pc'[d] = pc[d]           /\ doing'[d] = doing[d]
              /\ subject'[d] = subject[d] /\ report'[d] = report[d],
           PatchIsSound(c)', TurnIsNamed(c)'
    PROVE /\ \A w \in Workload : Founded(w)'
          /\ \A d \in Controller : PatchIsSound(d)' /\ TurnIsNamed(d)'
<1>1. \A n : Status(n)' = Status(n)
  BY DEF Status
<1>2. \A w \in Workload : Founded(w)'
  BY <1>1 DEF OutcomeInvariant, Founded
<1>3. ASSUME NEW d \in Controller, d # c PROVE PatchIsSound(d)' /\ TurnIsNamed(d)'
  <2>1. PatchIsSound(d) /\ TurnIsNamed(d)
    BY DEF OutcomeInvariant
  <2>2. /\ pc'[d] = pc[d]           /\ doing'[d] = doing[d]
        /\ subject'[d] = subject[d] /\ report'[d] = report[d]
    BY <1>3
  <2>3. Shown(d)' = Shown(d)
    BY <2>2 DEF Shown, Status
  <2> QED BY <2>1, <2>2, <2>3 DEF PatchIsSound, TurnIsNamed, InTurn
<1> QED BY <1>2, <1>3

(* The leader's turn, and the failures in it.                              *)
LEMMA TurnStep ==
    ASSUME OutcomeInvariant, LeaseInvariant, LeaseInvariant', NEW c \in Controller,
           errors' \in 0..MaxErrors,
           \/ Reconcile(c)
           \/ Failure(c)
           \/ (Elect(c) \/ Ask(c)) /\ UNCHANGED <<phase, job, turnVars>>
    PROVE OutcomeInvariant'
<1> USE DEF InTurn, Then
<1>1. TypeOK /\ PatchIsSound(c) /\ TurnIsNamed(c) /\ LeaseTypeOK'
  BY DEF OutcomeInvariant, LeaseInvariant
<1>2. ASSUME List(c) \/ CreateConflict(c) \/ SkipCall(c) \/ Finish(c) \/ Crash(c)
             \/ \E w \in Workload : GetMissing(c, w) \/ SkipGet(c, w)
      PROVE OutcomeInvariant'
  <2>1. /\ UNCHANGED <<phase, job, overrun>>
        /\ doing' \in [Controller -> {"listing", "getting", "creating", "patching"}]
        /\ todo' \in [Controller -> SUBSET Workload]
        /\ subject' \in [Controller -> Workload \cup {NoWorkload}]
        /\ report' \in [Controller -> Phases]
    BY <1>1, <1>2 DEF TypeOK, Phases, List, CreateConflict, SkipCall, Finish, EndTurn, Crash, Die,
       GetMissing, SkipGet, Take, Done, Drop, leaseVars
  <2>2. \A d \in Controller \ {c} :
              /\ pc'[d] = pc[d]           /\ doing'[d] = doing[d]
              /\ subject'[d] = subject[d] /\ report'[d] = report[d]
    BY <1>1, <1>2 DEF TypeOK, LeaseTypeOK, List, CreateConflict, SkipCall, Finish, EndTurn, Crash, Die,
       GetMissing, SkipGet, Take, Done, Drop, Sleep, Forget, Goto, leaseVars
  <2>3. /\ doing'[c] # "patching"
        /\ doing'[c] = "creating" => subject'[c] \in Workload
        /\ pc'[c] # "leading" => doing'[c] = "listing"
    BY <1>1, <1>2 DEF TypeOK, LeaseTypeOK, List, CreateConflict, SkipCall, Finish, EndTurn, Crash, Die,
       GetMissing, SkipGet, Take, Done, Drop, Sleep, Forget, Goto, leaseVars
  <2>4. PatchIsSound(c)' /\ TurnIsNamed(c)'
    BY <2>3 DEF PatchIsSound, TurnIsNamed
  <2>5. TypeOK'
    BY <1>1, <2>1 DEF TypeOK
  <2> QED BY <2>1, <2>2, <2>4, <2>5, LocalStep DEF OutcomeInvariant
<1>3. ASSUME NEW w \in Workload, GetFound(c, w)
      PROVE OutcomeInvariant'
  <2>1. /\ UNCHANGED <<phase, job, overrun, pc>>
        /\ doing' = [doing EXCEPT ![c] = "patching"]
        /\ subject' = [subject EXCEPT ![c] = w]
        /\ report' = [report EXCEPT ![c] = PhaseOf(job[JobName[w]])]
        /\ pc[c] = "leading" /\ job[JobName[w]] # NoJob
    BY <1>3 DEF GetFound, Take, leaseVars
  <2>2. PhaseOf(job[JobName[w]]) \in Phases
    BY DEF PhaseOf, Phases
  <2>3. /\ doing'[c] = "patching" /\ subject'[c] = w
        /\ report'[c] = PhaseOf(Status(JobName[w]))
    BY <1>1, <2>1 DEF TypeOK, Status
  <2>4. Founded(w) /\ Shown(c)' = Status(JobName[w])
    BY <2>1, <2>3 DEF OutcomeInvariant, Shown, Status
  <2>5. PatchIsSound(c)'
    <3>1. Rank(report'[c]) <= Rank(PhaseOf(Shown(c)'))
      BY <2>3, <2>4, RankIsNatural, SMT
    <3>2. Rank(phase'[subject'[c]]) <= Rank(report'[c])
      BY <2>1, <2>3, <2>4 DEF Founded
    <3>3. Rank(report'[c]) = Rank(report[c])' /\ Rank(PhaseOf(Shown(c)')) = Rank(PhaseOf(Shown(c)))'
      BY DEF Rank, PhaseOf
    <3> QED BY <3>1, <3>2, <3>3 DEF PatchIsSound, Rank, PhaseOf
  <2>6. TurnIsNamed(c)'
    BY <2>1, <2>3 DEF TurnIsNamed
  <2>7. TypeOK'
    BY <1>1, <1>3, <2>1, <2>2 DEF TypeOK, GetFound, Take
  <2>8. \A d \in Controller \ {c} :
              /\ pc'[d] = pc[d]           /\ doing'[d] = doing[d]
              /\ subject'[d] = subject[d] /\ report'[d] = report[d]
    BY <1>1, <2>1 DEF TypeOK
  <2> QED BY <2>1, <2>5, <2>6, <2>7, <2>8, LocalStep DEF OutcomeInvariant
<1>4. ASSUME Create(c) \/ CreateUnknowingly(c)
      PROVE OutcomeInvariant'
  <2>1. AddJob(c) /\ subject[c] \in Workload
    BY <1>1, <1>4 DEF Create, CreateUnknowingly, AddJob, TurnIsNamed
  <2>2. \A n \in Name : Status(n)' = Status(n)
    BY <1>1, <2>1, NoJobAssumption DEF AddJob, Status, TypeOK
  <2>3. \A w \in Workload : JobName[w] \in Name
    BY NameAssumption
  <2>4. \A w \in Workload : Founded(w)'
    BY <2>1, <2>2, <2>3 DEF OutcomeInvariant, Founded, AddJob
  <2>5. /\ doing' \in [Controller -> {"listing", "getting", "creating", "patching"}]
        /\ subject' \in [Controller -> Workload \cup {NoWorkload}]
        /\ report' \in [Controller -> Phases]
        /\ pc'[c] = "leading" /\ report'[c] = "Submitted"
        /\ \/ doing'[c] = "patching" /\ subject'[c] = subject[c]
           \/ doing'[c] = "getting"
    BY <1>1, <1>4 DEF Create, CreateUnknowingly, AddJob, Done, Drop, TypeOK, Phases, leaseVars
  <2>6. job' \in [Name -> {NoJob} \cup SUBSET {"active", "failed", "succeeded"}]
    BY <1>1, <2>1 DEF AddJob, TypeOK
  <2>7. TypeOK'
    BY <1>1, <2>1, <2>5, <2>6 DEF AddJob, TypeOK
  <2>8. PatchIsSound(c)'
    <3> SUFFICES ASSUME doing'[c] = "patching" PROVE PatchIsSound(c)'
      BY DEF PatchIsSound
    <3>1. Status(JobName[subject[c]]) = {} /\ subject'[c] = subject[c]
      BY <2>1, <2>5, SMT DEF AddJob, Status
    <3>2. Rank("Submitted") = 0 /\ Rank(PhaseOf({})) = 0
      BY DEF Rank, PhaseOf
    <3>3. Rank(phase[subject[c]]) <= 0
      BY <2>1, <3>1, <3>2 DEF OutcomeInvariant, Founded
    <3>4. Shown(c)' = {}
      BY <1>1, <2>1, <2>3, <3>1, NoJobAssumption DEF Shown, Status, AddJob, TypeOK
    <3>5. Rank(report'[c]) <= Rank(PhaseOf(Shown(c)'))
      BY <2>5, <3>2, <3>4
    <3>6. Rank(phase'[subject'[c]]) <= Rank(report'[c])
      BY <2>1, <2>5, <3>1, <3>2, <3>3 DEF AddJob
    <3> QED BY <3>5, <3>6 DEF PatchIsSound, Rank, PhaseOf
  <2>9. TurnIsNamed(c)'
    BY <2>1, <2>5 DEF TurnIsNamed
  <2>10. ASSUME NEW d \in Controller, d # c
         PROVE PatchIsSound(d)' /\ TurnIsNamed(d)'
    <3>1. PatchIsSound(d) /\ TurnIsNamed(d)
      BY DEF OutcomeInvariant
    <3>2. /\ pc'[d] = pc[d]           /\ doing'[d] = doing[d]
          /\ subject'[d] = subject[d] /\ report'[d] = report[d]
          /\ phase' = phase /\ overrun' = overrun
      BY <1>1, <1>4, <2>10 DEF Create, CreateUnknowingly, AddJob, Done, Drop, TypeOK, leaseVars
    <3>3. ASSUME doing[d] = "patching" PROVE Shown(d)' = Shown(d)
      <4>1. subject[d] \in Workload
        BY <3>1, <3>3 DEF TurnIsNamed
      <4>2. JobName[subject[d]] \in Name
        BY <2>3, <4>1
      <4> QED BY <1>1, <2>1, <3>2, <4>2, NoJobAssumption DEF Shown, Status, AddJob, TypeOK
    <3> QED BY <3>1, <3>2, <3>3 DEF PatchIsSound, TurnIsNamed
  <2> QED BY <2>4, <2>7, <2>8, <2>9, <2>10 DEF OutcomeInvariant
<1>5. ASSUME Patch(c)
      PROVE OutcomeInvariant'
  <2>1. /\ subject[c] \in Workload /\ pc[c] = "leading"
        /\ phase' = [phase EXCEPT ![subject[c]] = report[c]]
        /\ UNCHANGED <<pc, elapsed, job, overrun, todo>>
        /\ Rank(report[c]) <= Rank(PhaseOf(Status(JobName[subject[c]])))
    BY <1>1, <1>5 DEF Patch, TurnIsNamed, PatchIsSound, Shown, leaseVars
  <2>2. /\ doing' = [doing EXCEPT ![c] = "getting"]
        /\ subject' = [subject EXCEPT ![c] = NoWorkload]
        /\ report' = [report EXCEPT ![c] = "Submitted"]
    BY <1>5 DEF Patch, Done, Drop
  <2>3. TypeOK'
    BY <1>1, <2>1, <2>2 DEF TypeOK, Phases
  <2>4. \A n : Status(n)' = Status(n)
    BY <2>1 DEF Status
  <2>5. ASSUME NEW w \in Workload PROVE Founded(w)'
    BY <1>1, <2>1, <2>4 DEF Founded, OutcomeInvariant, TypeOK
  <2>6. PatchIsSound(c)' /\ TurnIsNamed(c)'
    BY <1>1, <2>1, <2>2 DEF PatchIsSound, TurnIsNamed, TypeOK
  <2>7. ASSUME NEW d \in Controller, d # c
        PROVE PatchIsSound(d)' /\ TurnIsNamed(d)'
    <3>1. PatchIsSound(d) /\ TurnIsNamed(d)
      BY DEF OutcomeInvariant
    <3>2. /\ pc'[d] = pc[d]           /\ doing'[d] = doing[d]
          /\ subject'[d] = subject[d] /\ report'[d] = report[d]
      BY <1>1, <2>1, <2>2, <2>7 DEF TypeOK
    <3>3. pc[d] = "leading" => overrun
      <4> SUFFICES ASSUME pc[d] = "leading", ~overrun PROVE FALSE
        BY DEF LeaseInvariant, LeaseTypeOK
      <4>1. InTime(c) /\ InTime(d)
        BY DEF LeaseInvariant, InTimeUnlessOverrun
      <4> QED BY <2>1, <2>7, <4>1 DEF LeaseInvariant, LeaderHolds
    <3>4. Shown(d)' = Shown(d)
      BY <2>1, <3>2 DEF Shown, Status
    <3> QED BY <2>1, <3>1, <3>2, <3>3, <3>4 DEF PatchIsSound, TurnIsNamed
  <2> QED BY <2>3, <2>5, <2>6, <2>7 DEF OutcomeInvariant
<1>6. ASSUME Elect(c) \/ Ask(c) \/ FailToAsk(c) \/ WinUnknowingly(c),
             UNCHANGED <<phase, job, turnVars>>
      PROVE OutcomeInvariant'
  <2>1. /\ pc[c] # "leading" /\ overrun' = overrun
        /\ \A d \in Controller \ {c} : pc'[d] = pc[d]
    BY <1>1, <1>6 DEF Elect, Ask, FailToAsk, WinUnknowingly, LookMissing, LookHeld, LookFree, Win,
       Lose, Accept, Sleep, Forget, Goto, TypeOK, LeaseTypeOK
  <2>2. TypeOK'
    BY <1>1, <1>6 DEF TypeOK, turnVars
  <2>3. doing'[c] = "listing" /\ UNCHANGED <<phase, job, doing, subject, report>>
    BY <1>1, <1>6, <2>1 DEF TurnIsNamed, turnVars
  <2>4. PatchIsSound(c)' /\ TurnIsNamed(c)'
    BY <2>3 DEF PatchIsSound, TurnIsNamed
  <2> QED BY <2>1, <2>2, <2>3, <2>4, LocalStep DEF OutcomeInvariant
<1> QED
  BY <1>2, <1>3, <1>4, <1>5, <1>6 DEF Reconcile, Failure

(* Users and Kubernetes: new workloads claim nothing, and Jobs advance.    *)
LEMMA EnvironmentStep ==
    ASSUME OutcomeInvariant, LeaseInvariant', Environment, UNCHANGED errors
    PROVE OutcomeInvariant'
<1>1. TypeOK /\ LeaseTypeOK'
  BY DEF OutcomeInvariant, LeaseInvariant
<1>2. UNCHANGED <<pc, overrun, doing, todo, subject, report>>
  BY DEF Environment, Apply, PodStarts, PodEnds, StatusBecomes, leaseVars, turnVars
<1>3. ASSUME NEW w \in Workload, Apply(w)
      PROVE OutcomeInvariant'
  <2>1. /\ phase[w] = "absent" /\ UNCHANGED job
        /\ phase' = [phase EXCEPT ![w] = "new"]
    BY <1>3 DEF Apply
  <2>2. \A v \in Workload : phase'[v] = phase[v] \/ phase'[v] = "new"
    BY <1>1, <2>1 DEF TypeOK
  <2>3. Rank("new") = 0
    BY DEF Rank
  <2>4. ASSUME NEW v \in Workload PROVE Founded(v)'
    <3>1. Founded(v) /\ Status(JobName[v])' = Status(JobName[v])
      BY <2>1 DEF OutcomeInvariant, Status
    <3>2. Rank(PhaseOf(Status(JobName[v]))) \in 0..2
      BY RankIsNatural
    <3> QED BY <2>2, <2>3, <3>1, <3>2 DEF Founded
  <2>5. TypeOK'
    BY <1>1, <1>2, <2>1 DEF TypeOK
  <2>6. ASSUME NEW c \in Controller PROVE PatchIsSound(c)' /\ TurnIsNamed(c)'
    <3>1. PatchIsSound(c) /\ TurnIsNamed(c) /\ Shown(c)' = Shown(c)
      BY <1>2, <2>1 DEF OutcomeInvariant, Shown, Status
    <3>2. Rank(report[c]) \in 0..2
      BY RankIsNatural
    <3>3. doing[c] = "patching" => phase'[subject[c]] = phase[subject[c]] \/ phase'[subject[c]] = "new"
      BY <2>2, <3>1 DEF TurnIsNamed
    <3> QED BY <1>2, <2>3, <3>1, <3>2, <3>3 DEF PatchIsSound, TurnIsNamed, InTurn
  <2> QED BY <2>4, <2>5, <2>6 DEF OutcomeInvariant
<1>4. ASSUME NEW n \in Name, PodStarts(n) \/ PodEnds(n)
      PROVE OutcomeInvariant'
  <2>1. UNCHANGED phase
    BY <1>4 DEF PodStarts, PodEnds, StatusBecomes
  <2>2. job' \in [Name -> {NoJob} \cup SUBSET {"active", "failed", "succeeded"}]
    BY <1>1, <1>4 DEF PodStarts, PodEnds, StatusBecomes, TypeOK
  <2>3. TypeOK'
    BY <1>1, <1>2, <2>1, <2>2 DEF TypeOK
  <2>4. \A w \in Workload : Rank(PhaseOf(Status(JobName[w]))) <= Rank(PhaseOf(Status(JobName[w])'))
    BY <1>1, <1>4, JobsAdvance, NameAssumption
  <2>5. ASSUME NEW w \in Workload PROVE Founded(w)'
    <3>1. Founded(w)
      BY DEF OutcomeInvariant
    <3>2. /\ Rank(phase[w]) \in 0..2 /\ Rank(PhaseOf(Status(JobName[w]))) \in 0..2
          /\ Rank(PhaseOf(Status(JobName[w])')) \in 0..2
      BY RankIsNatural
    <3>3. Rank(phase[w]) <= Rank(PhaseOf(Status(JobName[w])'))
      BY <2>4, <3>1, <3>2, SMT DEF Founded
    <3> QED BY <2>1, <3>3 DEF Founded, Rank, PhaseOf
  <2>6. ASSUME NEW c \in Controller PROVE PatchIsSound(c)' /\ TurnIsNamed(c)'
    <3>1. PatchIsSound(c) /\ TurnIsNamed(c)
      BY DEF OutcomeInvariant
    <3>2. ASSUME doing[c] = "patching" PROVE Rank(PhaseOf(Shown(c))) <= Rank(PhaseOf(Shown(c)'))
      <4>1. subject[c] \in Workload
        BY <3>1, <3>2 DEF TurnIsNamed
      <4>2. Shown(c) = Status(JobName[subject[c]]) /\ Shown(c)' = Status(JobName[subject[c]])'
        BY <1>2 DEF Shown, Status
      <4>3. Rank(PhaseOf(Status(JobName[subject[c]]))) <= Rank(PhaseOf(Status(JobName[subject[c]])'))
        BY <1>2, <2>4, <4>1 DEF Status
      <4> QED BY <4>2, <4>3
    <3>3. /\ Rank(report[c]) \in 0..2 /\ Rank(PhaseOf(Shown(c))) \in 0..2
          /\ Rank(PhaseOf(Shown(c)')) \in 0..2
      BY RankIsNatural
    <3>4. doing[c] = "patching" /\ pc[c] = "leading" => Rank(report[c]) <= Rank(PhaseOf(Shown(c)'))
      BY <3>1, <3>2, <3>3, SMT DEF PatchIsSound, InTurn
    <3> QED BY <1>2, <2>1, <3>1, <3>4 DEF PatchIsSound, TurnIsNamed, InTurn, Rank, PhaseOf
  <2> QED BY <2>3, <2>5, <2>6 DEF OutcomeInvariant
<1> QED BY <1>3, <1>4 DEF Environment

(* One step of the whole.                                                  *)
LEMMA OutcomeStep ==
    LeaseInvariant /\ OutcomeInvariant /\ [Next]_vars =>
       LeaseInvariant' /\ OutcomeInvariant'
<1> SUFFICES ASSUME LeaseInvariant, OutcomeInvariant, [Next]_vars
             PROVE LeaseInvariant' /\ OutcomeInvariant'
  OBVIOUS
<1>1. LeaseInvariant'
  BY LeaseStep, TurnsRespectTheLease
<1>2. errors \in 0..MaxErrors
  BY DEF OutcomeInvariant, TypeOK
<1>3. ASSUME NEW c \in Controller, Work(c) \/ Wake(c)
      PROVE OutcomeInvariant'
  <2>1. errors' \in 0..MaxErrors
    BY <1>2, <1>3 DEF Work, Wake
  <2>2. \/ Reconcile(c)
        \/ (Elect(c) \/ Ask(c)) /\ UNCHANGED <<phase, job, turnVars>>
    BY <1>3 DEF Work, Wake
  <2>3. CASE Reconcile(c)
    BY <1>1, <2>1, <2>3, TurnStep
  <2>4. CASE (Elect(c) \/ Ask(c)) /\ UNCHANGED <<phase, job, turnVars>>
    BY <1>1, <2>1, <2>4, TurnStep
  <2> QED BY <2>2, <2>3, <2>4
<1>4. ASSUME NEW c \in Controller, Fail(c)
      PROVE OutcomeInvariant'
  <2>1. errors' \in 0..MaxErrors
    BY <1>2, <1>4, ErrorsAssumption, SMT DEF Fail
  <2>2. Failure(c)
    BY <1>4 DEF Fail
  <2> QED BY <1>1, <2>1, <2>2, TurnStep
<1>5. ASSUME Clock \/ UNCHANGED vars
      PROVE OutcomeInvariant'
  <2>1. UNCHANGED <<pc, phase, job, turnVars, errors>> /\ (~overrun' => ~overrun)
    <3>1. CASE Clock
      BY <3>1 DEF Clock, Tick
    <3>2. CASE UNCHANGED vars
      BY <3>2 DEF vars, leaseVars
    <3> QED BY <1>5, <3>1, <3>2
  <2>2. TypeOK'
    BY <1>1, <2>1 DEF OutcomeInvariant, LeaseInvariant, TypeOK, turnVars
  <2>3. \A w \in Workload : Founded(w)'
    BY <2>1 DEF OutcomeInvariant, Founded, Status
  <2>4. ASSUME NEW c \in Controller PROVE PatchIsSound(c)' /\ TurnIsNamed(c)'
    <3>1. PatchIsSound(c) /\ TurnIsNamed(c) /\ Shown(c)' = Shown(c)
      BY <2>1 DEF OutcomeInvariant, Shown, Status, turnVars
    <3> QED BY <2>1, <3>1 DEF PatchIsSound, TurnIsNamed, InTurn, turnVars
  <2> QED BY <2>2, <2>3, <2>4 DEF OutcomeInvariant
<1> QED
  BY <1>1, <1>3, <1>4, <1>5, EnvironmentStep DEF Next

(* What a step does to the phases, from the invariant.                     *)
LEMMA PhaseStep ==
    ASSUME OutcomeInvariant, [Next]_vars, ~overrun, NEW w \in Workload
    PROVE Rank(phase[w]) <= Rank(phase'[w])
<1>1. Rank(phase[w]) \in 0..2
  BY RankIsNatural
<1>2. CASE UNCHANGED phase
  BY <1>1, <1>2, SMT
<1>3. ASSUME NEW c \in Controller, Patch(c)
      PROVE Rank(phase[w]) <= Rank(phase'[w])
  <2>1. Rank(phase[subject[c]]) <= Rank(report[c])
    BY <1>3 DEF OutcomeInvariant, PatchIsSound, Patch
  <2> QED BY <1>1, <1>3, <2>1 DEF Patch, OutcomeInvariant, TypeOK
<1>4. ASSUME NEW v \in Workload, Apply(v)
      PROVE Rank(phase[w]) <= Rank(phase'[w])
  <2>1. phase[v] = "absent" /\ phase' = [phase EXCEPT ![v] = "new"]
    BY <1>4 DEF Apply
  <2>2. Rank("absent") = 0 /\ Rank("new") = 0
    BY DEF Rank
  <2> QED BY <1>1, <2>1, <2>2 DEF OutcomeInvariant, TypeOK
<1>5. [Next]_vars =>
        \/ UNCHANGED phase
        \/ \E c \in Controller : Patch(c)
        \/ \E v \in Workload : Apply(v)
  BY DEF Next, Work, Wake, Clock, Fail, Failure, Reconcile, Environment, List, Create,
         CreateConflict, Finish, GetMissing, GetFound, Take, AddJob, SkipCall, SkipGet,
         CreateUnknowingly, Crash, PodStarts, PodEnds, StatusBecomes, vars
<1> QED BY <1>2, <1>3, <1>4, <1>5

LEMMA OutcomeStarts == Init => LeaseInvariant /\ OutcomeInvariant
<1> SUFFICES ASSUME Init PROVE OutcomeInvariant
  BY LeaseStarts DEF Init
<1>1. LeaseTypeOK
  BY LeaseStarts DEF Init, LeaseInvariant
<1>2. TypeOK
  BY <1>1, ErrorsAssumption DEF Init, TypeOK, Phases
<1>3. ASSUME NEW w \in Workload PROVE Founded(w)
  <2>1. phase[w] = "absent" /\ Rank("absent") = 0
    BY DEF Init, Rank
  <2>2. Rank(PhaseOf(Status(JobName[w]))) \in 0..2
    BY RankIsNatural
  <2> QED BY <2>1, <2>2 DEF Founded
<1>4. ASSUME NEW c \in Controller PROVE PatchIsSound(c) /\ TurnIsNamed(c)
  BY DEF Init, PatchIsSound, TurnIsNamed, InTurn
<1> QED BY <1>2, <1>3, <1>4 DEF OutcomeInvariant

(* Every variable has its type, always.                                    *)
THEOREM ControllerTypeCorrect == Safety => []TypeOK
<1>1. OutcomeInvariant => TypeOK
  BY DEF OutcomeInvariant
<1> QED BY <1>1, OutcomeStarts, OutcomeStep, PTL DEF Safety

(* As long as turns end in time, a reported outcome is not taken back, for *)
(* any number of replicas and workloads, whatever names collide.           *)
THEOREM OutcomeIsAlwaysKept == Safety => OutcomeIsKept
<1>1. OutcomeInvariant /\ [Next]_vars =>
         [~overrun => \A w \in Workload : Rank(phase[w]) <= Rank(phase'[w])]_vars
  BY PhaseStep
<1> QED BY <1>1, OutcomeStarts, OutcomeStep, PTL DEF Safety, OutcomeIsKept
=============================================================================
