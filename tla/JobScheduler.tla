---------------------------- MODULE JobScheduler ----------------------------
(***************************************************************************)
(* The in-memory job scheduler, openpine/jobs/scheduler.py: a queue sorted *)
(* by priority and creation time, deduplication by idempotency key, and a  *)
(* map of the serialization keys that are in use.  Every method runs under *)
(* one re-entrant lock, so a method is one action; what its callers do     *)
(* between two methods is interleaved freely.                              *)
(*                                                                         *)
(* A job is identified by its idempotency key: enqueue makes one job per   *)
(* key for as long as the process lives.                                   *)
(***************************************************************************)
EXTENDS Integers, Sequences, FiniteSets

CONSTANTS
    Jobs,             \* idempotency keys
    SerKeys,          \* serialization keys
    SerKey,           \* the serialization key of a job
    Priority,         \* the priority of a job
    Times,            \* creation times the wall clock may show
    None

ASSUME SchedAssumption == SerKey \in [Jobs -> SerKeys] /\ None \notin Jobs

VARIABLES
    status,   \* Job.status of the jobs in _jobs, "absent" for the others
    created,  \* Job.created_at
    queue,    \* _queue
    running   \* _running: the job that holds a serialization key, or None

schedVars == <<status, created, queue, running>>

Statuses == {"absent", "pending", "running", "done", "failed", "cancelled"}

SchedTypeOK ==
    /\ status \in [Jobs -> Statuses]
    /\ created \in [Jobs -> Times]
    /\ queue \in Seq(Jobs)
    /\ running \in [SerKeys -> Jobs \cup {None}]

SchedInit ==
    /\ status = [j \in Jobs |-> "absent"]
    /\ created \in {[j \in Jobs |-> t] : t \in Times}
    /\ queue = <<>>
    /\ running = [k \in SerKeys |-> None]

(* _requeue_sort orders by descending priority, then by creation time; the *)
(* sort is stable, so the job that was appended goes behind its equals.    *)
StaysBefore(i, j, t) ==
    \/ Priority[i] > Priority[j]
    \/ Priority[i] = Priority[j] /\ created[i] <= t

Inserted(j, t) ==
    LET n == Cardinality({i \in DOMAIN queue : StaysBefore(queue[i], j, t)})
    IN SubSeq(queue, 1, n) \o <<j>> \o SubSeq(queue, n + 1, Len(queue))

(* enqueue; a known key returns the existing job, whatever its status.     *)
Enqueue(j, t) ==
    IF status[j] # "absent"
    THEN UNCHANGED schedVars
    ELSE /\ status' = [status EXCEPT ![j] = "pending"]
         /\ created' = [created EXCEPT ![j] = t]
         /\ queue' = Inserted(j, t)
         /\ UNCHANGED running

Eligible(i) == status[queue[i]] = "pending" /\ running[SerKey[queue[i]]] = None

(* Mutant: the job is returned and stays in the queue.                     *)
Dequeue_Keeps(i) ==
    /\ Eligible(i)
    /\ \A h \in 1..(i - 1) : ~Eligible(h)
    /\ UNCHANGED schedVars

(* dequeue of the first job that is pending and whose key is free.  The    *)
(* job is neither marked nor is its key taken.                             *)
Dequeue(i) ==
    /\ Eligible(i)
    /\ \A h \in 1..(i - 1) : ~Eligible(h)
    /\ queue' = SubSeq(queue, 1, i - 1) \o SubSeq(queue, i + 1, Len(queue))
    /\ UNCHANGED <<status, created, running>>

MarkRunning(j) ==
    /\ status' = [status EXCEPT ![j] = "running"]
    /\ running' = [running EXCEPT ![SerKey[j]] = j]
    /\ UNCHANGED <<created, queue>>

(* The common part of mark_done, mark_failed and cancel: the key is freed  *)
(* if this job is the one that holds it.                                   *)
Finished(j, s) ==
    /\ status' = [status EXCEPT ![j] = s]
    /\ running' = [running EXCEPT ![SerKey[j]] = IF @ = j THEN None ELSE @]
    /\ UNCHANGED <<created, queue>>

MarkDone(j) == Finished(j, "done")

MarkFailed(j) == Finished(j, "failed")

CancelJob(j) ==
    /\ status[j] \in {"pending", "running"}
    /\ Finished(j, "cancelled")

(* A restart of the process forgets everything.                            *)
SchedRestart ==
    /\ status' = [j \in Jobs |-> "absent"]
    /\ queue' = <<>>
    /\ running' = [k \in SerKeys |-> None]
    /\ UNCHANGED created
=============================================================================
