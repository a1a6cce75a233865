---------------------------- MODULE JobLifecycle ----------------------------
(***************************************************************************)
(* What the job.v1 store promises to those who use it, gateway routes,     *)
(* workers and clients that poll: the life of a job without versions,      *)
(* leases, clocks, events and keys.  A job runs for one owner at a time;   *)
(* it is run again only out of its retry budget; success and cancellation  *)
(* are final; several running jobs may be given up for lost at once.       *)
(***************************************************************************)
EXTENDS Naturals

CONSTANTS
    Jobs,
    Owners,   \* who may run a job
    Nobody,
    Budget    \* the largest number of retries a job may be given

VARIABLES
    phase,  \* job -> its state
    owner,  \* job -> who runs it, or Nobody
    left    \* job -> retries that are left

lifeVars == <<phase, owner, left>>

LifeInit ==
    /\ phase = [j \in Jobs |-> "ABSENT"]
    /\ owner = [j \in Jobs |-> Nobody]
    /\ left = [j \in Jobs |-> 0]

Move(j, p, o, n) ==
    /\ phase' = [phase EXCEPT ![j] = p]
    /\ owner' = [owner EXCEPT ![j] = o]
    /\ left' = [left EXCEPT ![j] = n]

Submit(j, n) == phase[j] = "ABSENT" /\ Move(j, "QUEUED", Nobody, n)

Claim(j, o) == phase[j] = "QUEUED" /\ Move(j, "RUNNING", o, left[j])

Succeed(j) == phase[j] = "RUNNING" /\ Move(j, "SUCCEEDED", Nobody, left[j])

Fail(j) == phase[j] \in {"QUEUED", "RUNNING"} /\ Move(j, "FAILED", Nobody, left[j])

Withdraw(j) ==
    /\ phase[j] \in {"QUEUED", "RUNNING", "FAILED", "LOST"}
    /\ Move(j, "CANCELED", Nobody, left[j])

Requeue(j) ==
    /\ phase[j] \in {"FAILED", "LOST"} /\ left[j] > 0
    /\ Move(j, "QUEUED", Nobody, left[j] - 1)

GiveUp(S) ==
    /\ \A j \in S : phase[j] = "RUNNING"
    /\ phase' = [j \in Jobs |-> IF j \in S THEN "LOST" ELSE phase[j]]
    /\ owner' = [j \in Jobs |-> IF j \in S THEN Nobody ELSE owner[j]]
    /\ UNCHANGED left

LifeNext ==
    \/ \E j \in Jobs, n \in 0..Budget : Submit(j, n)
    \/ \E j \in Jobs, o \in Owners : Claim(j, o)
    \/ \E j \in Jobs : Succeed(j) \/ Fail(j) \/ Withdraw(j) \/ Requeue(j)
    \/ \E S \in SUBSET Jobs : GiveUp(S)

LifeSpec == LifeInit /\ [][LifeNext]_lifeVars
=============================================================================
