--------------------------- MODULE LeaseElection ---------------------------
(***************************************************************************)
(* The election of the workload controller's leader over a Kubernetes      *)
(* Lease (LeaseElector, controllers/workload_controller.py).               *)
(*                                                                         *)
(* is_leader notes the time, reads the Lease, and if it may have it writes *)
(* it back with the noted time.  The API server refuses a write whose copy *)
(* is out of date, and a second creation.  A controller that has got the   *)
(* Lease reconciles and then sleeps; it does not look at the Lease again   *)
(* while it reconciles.  Controllers lead a turn at a time, and the Lease  *)
(* is never given back.                                                    *)
(***************************************************************************)
EXTENDS Integers

CONSTANTS
    Controller,     \* the replicas of the controller
    NoLease,        \* there is no Lease object yet
    Former,         \* an identity that no running process has
    Duration,       \* LEADER_LEASE_SECONDS
    Turn,           \* bound: the time from is_leader to the end of the loop
    ClockSkew,      \* bound: how far the clocks of two replicas differ
    MaxErrors       \* bound: the number of failed calls and crashes

ASSUME HolderAssumption ==
    /\ NoLease \notin Controller
    /\ Former \notin Controller
    /\ NoLease # Former
ASSUME TimeAssumption ==
    /\ Duration \in Nat \ {0}
    /\ Turn \in Nat
    /\ ClockSkew \in 0..Duration
ASSUME ErrorsAssumption == MaxErrors \in Nat

VARIABLES
    holder,     \* spec.holder_identity of the Lease
    age,        \* the time since its spec.renew_time
    pc,         \* pc[c]: where c is in its loop
    elapsed,    \* elapsed[c]: the time since c noted `now` in is_leader
    fresh,      \* fresh[c]: the copy of the Lease that c has read is current
    overrun,    \* history: some turn has outlasted the Lease it may have got
    errors      \* how many calls have failed and processes have crashed

leaseVars == <<holder, age, pc, elapsed, fresh, overrun>>

(* A Lease of this age has expired by every clock; time is not counted on. *)
Ancient == Duration + Turn + ClockSkew + 1

LeaseTypeOK ==
    /\ holder \in Controller \cup {NoLease, Former}
    /\ age \in 0..Ancient
    /\ pc \in [Controller -> {"asleep", "asking", "replacing", "creating", "leading"}]
    /\ elapsed \in [Controller -> 0..Turn]
    /\ fresh \in [Controller -> BOOLEAN]
    /\ overrun \in BOOLEAN

LeaseInit ==
    /\ holder \in {NoLease, Former}
    /\ age = 0
    /\ pc = [c \in Controller |-> "asleep"]
    /\ elapsed = [c \in Controller |-> 0]
    /\ fresh = [c \in Controller |-> FALSE]
    /\ overrun = FALSE

Goto(c, place) == pc' = [pc EXCEPT ![c] = place]

(* is_leader or the loop returns, its variables are gone, and c sleeps.    *)
Forget(c) ==
    /\ Goto(c, "asleep")
    /\ elapsed' = [elapsed EXCEPT ![c] = 0]
Sleep(c) == Forget(c) /\ fresh' = [fresh EXCEPT ![c] = FALSE]

(* Deliberately wrong: a mutant that takes a Lease that is just in time.   *)
ExpiresEarly(c, skew) == age - elapsed[c] + skew >= Duration

(* Deliberately wrong: a mutant that leaves another's Lease alone forever. *)
NeverExpires(c, skew) == FALSE

(* What c sees at the time it noted, with a clock that is `skew` ahead of  *)
(* the clock of the process that set renew_time.                           *)
Expired(c, skew) == age - elapsed[c] + skew > Duration

-----------------------------------------------------------------------------
(* is_leader: `now` is noted and the Lease is asked for.                   *)
Ask(c) ==
    /\ pc[c] = "asleep"
    /\ Goto(c, "asking")
    /\ UNCHANGED <<holder, age, elapsed, fresh, overrun>>

(* The read finds no Lease: status 404, so one is to be created.           *)
LookMissing(c) ==
    /\ pc[c] = "asking"
    /\ holder = NoLease
    /\ Goto(c, "creating")
    /\ UNCHANGED <<holder, age, elapsed, fresh, overrun>>

(* The read finds another's valid Lease: c is not the leader.              *)
LookHeld(c) ==
    /\ pc[c] = "asking"
    /\ holder \notin {NoLease, c}
    /\ \E skew \in -ClockSkew..ClockSkew : ~Expired(c, skew)
    /\ Sleep(c)
    /\ UNCHANGED <<holder, age, overrun>>

(* The read finds c's own Lease or an expired one: c is to replace it.     *)
LookFree(c) ==
    /\ pc[c] = "asking"
    /\ holder # NoLease
    /\ holder = c \/ \E skew \in -ClockSkew..ClockSkew : Expired(c, skew)
    /\ fresh' = [fresh EXCEPT ![c] = TRUE]
    /\ Goto(c, "replacing")
    /\ UNCHANGED <<holder, age, elapsed, overrun>>

(* The API server accepts c's write, with the time that c noted before it  *)
(* read.  Every other copy of the Lease is out of date from now on.        *)
Accept(c) ==
    /\ \/ pc[c] = "replacing" /\ fresh[c]
       \/ pc[c] = "creating" /\ holder = NoLease
    /\ holder' = c
    /\ age' = elapsed[c]
    /\ fresh' = [d \in Controller |-> FALSE]
    /\ UNCHANGED overrun

Win(c) == Accept(c) /\ Goto(c, "leading") /\ UNCHANGED elapsed

(* The write was accepted, and the answer is an error: c does not lead.    *)
WinUnknowingly(c) == Accept(c) /\ Forget(c)

(* The API server refuses the write: the copy is old, or a Lease exists.   *)
Lose(c) ==
    /\ \/ pc[c] = "replacing" /\ ~fresh[c]
       \/ pc[c] = "creating" /\ holder # NoLease
    /\ Sleep(c)
    /\ UNCHANGED <<holder, age, overrun>>

(* An API call of is_leader fails without effect: False.                   *)
FailToAsk(c) ==
    /\ pc[c] \in {"asking", "replacing", "creating"}
    /\ Sleep(c)
    /\ UNCHANGED <<holder, age, overrun>>

(* The loop over the workloads is through, and c sleeps.                   *)
EndTurn(c) ==
    /\ pc[c] = "leading"
    /\ Sleep(c)
    /\ UNCHANGED <<holder, age, overrun>>

(* The process dies, or an exception leaves run().  The next one has a new *)
(* identity, so that the Lease of the dead one has to expire.              *)
Die(c) ==
    /\ holder' = IF holder = c THEN Former ELSE holder
    /\ Sleep(c)
    /\ UNCHANGED <<age, overrun>>

(* Time passes.  Nothing in the code keeps a turn shorter than the Lease;  *)
(* `overrun` remembers that one was not.                                   *)
Tick ==
    /\ \A c \in Controller : pc[c] # "asleep" => elapsed[c] < Turn
    /\ age' = IF age < Ancient THEN age + 1 ELSE age
    /\ elapsed' = [c \in Controller |->
                     IF pc[c] = "asleep" THEN 0 ELSE elapsed[c] + 1]
    /\ overrun' = (overrun \/ \E c \in Controller : elapsed'[c] + ClockSkew > Duration)
    /\ UNCHANGED <<holder, pc, fresh>>

(* is_leader when no call fails.                                           *)
Elect(c) == LookMissing(c) \/ LookHeld(c) \/ LookFree(c) \/ Win(c) \/ Lose(c)

LeaseNext ==
    \/ \E c \in Controller :
          Ask(c) \/ Elect(c) \/ WinUnknowingly(c) \/ FailToAsk(c) \/ EndTurn(c) \/ Die(c)
    \/ Tick

-----------------------------------------------------------------------------
(* A controller that is still in time is the only one in time: a second    *)
(* one leads only when the first has outlasted its Lease.  This is what    *)
(* the election gives for "Lease-based controller leadership"              *)
(* (README.md:18), whatever is delayed, lost or restarted.                 *)
InTime(c) == elapsed[c] + ClockSkew <= Duration

LeadersInTimeAreAlone ==
    \A c, d \in Controller :
        (pc[c] = "leading" /\ InTime(c)) /\ (pc[d] = "leading" /\ InTime(d)) => c = d
=============================================================================
