------------------------------ MODULE JobStore ------------------------------
(***************************************************************************)
(* The transactional job.v1 store, openpine/jobs/transactional_store.py.   *)
(*                                                                         *)
(* The SQLite database holds a table of jobs and a table of events.  Every *)
(* public method runs in one BEGIN IMMEDIATE transaction that is rolled    *)
(* back when it raises, so a method is one atomic action here and a call   *)
(* that raises is a stuttering step.  Writers are any number of gateway    *)
(* requests and workers; nothing but the tables carries state between two  *)
(* calls, so a crash of a caller is the absence of its next call.          *)
(*                                                                         *)
(* expected_version is a filter on calls: a call whose expected_version is *)
(* stale raises, one whose expected_version is current or None proceeds.   *)
(* The calls that proceed are the ones modelled.                           *)
(***************************************************************************)
EXTENDS Integers, Sequences, FiniteSets, Functions

CONSTANTS
    JobIds,       \* ids a caller may create a job with
    Owners,       \* lease owners
    CreateKeys,   \* idempotency keys given to create
    CancelKeys,   \* idempotency keys given to cancel; they become event ids
    MaxRetries,   \* bound on the max_retries a job is created with
    MaxVersion,   \* bound: no job is changed more often than this
    MaxTime,      \* bound on the wall clock
    None          \* Python's None

ASSUME BoundsAssumption ==
    /\ MaxRetries \in Nat
    /\ MaxVersion \in Nat
    /\ MaxTime \in Nat

ASSUME IdsAssumption ==
    /\ IsFiniteSet(JobIds)
    /\ None \notin JobIds \cup Owners \cup CreateKeys \cup CancelKeys

VARIABLES
    jobs,    \* the jobs table: a row for every id, state "ABSENT" when there is none
    events,  \* the events table in the order of its AUTOINCREMENT key
    now      \* the wall clock, time.time()

vars == <<jobs, events, now>>

States == {"QUEUED", "RUNNING", "SUCCEEDED", "FAILED", "CANCELED", "LOST"}

Terminal == {"SUCCEEDED", "FAILED", "CANCELED", "LOST"}

(* RETRY_WAIT has outgoing transitions in the code and no incoming one.    *)
AllowedTransitions ==
    [s \in States |->
        CASE s = "QUEUED"  -> {"RUNNING", "FAILED", "CANCELED"}
          [] s = "RUNNING" -> {"SUCCEEDED", "FAILED", "CANCELED", "LOST"}
          [] s \in {"FAILED", "LOST"} -> {"QUEUED", "CANCELED"}
          [] OTHER -> {}]

EventTypes == {"created", "child_linked", "running", "lease_renewed",
               "succeeded", "failed", "canceled", "retried", "lost"}

(* Mutant: an event id without the version it announces.                   *)
EventId_NoVersion(j, type, version) == <<j, type, 0>>

EventId(j, type, version) == <<j, type, version>>

EventIds == (JobIds \X EventTypes \X Nat) \cup CancelKeys

(* Callers pick cancel keys that are not spelled like a stable event id.   *)
ASSUME CancelKeysAssumption ==
    \A c \in CancelKeys : c \notin JobIds \X EventTypes \X Nat

NoDeadline == 0

Absent ==
    [state |-> "ABSENT", version |-> 0, owner |-> None, deadline |-> NoDeadline,
     finished |-> FALSE, retries |-> 0, maxRetries |-> 0, key |-> None,
     parent |-> None, children |-> {}, cursor |-> None]

Job ==
    [state: States \cup {"ABSENT"}, version: Nat, owner: Owners \cup {None},
     deadline: Nat, finished: BOOLEAN, retries: Nat, maxRetries: Nat,
     key: CreateKeys \cup {None}, parent: JobIds \cup {None},
     children: SUBSET JobIds, cursor: EventIds \cup {None}]

Event == [id: EventIds, job: JobIds, type: EventTypes, version: Nat, state: States]

TypeOK ==
    /\ jobs \in [JobIds -> Job]
    /\ events \in Seq(Event)
    /\ now \in Nat

Exists(j) == jobs[j].state # "ABSENT"

Logged(log, id) == \E i \in DOMAIN log : log[i].id = id

(* The row of an event and the row of its job are written together.  An id *)
(* that is in the table already keeps its row and the new event is dropped.*)
WithEvent(log, id, j, type, row) ==
    IF Logged(log, id)
    THEN log
    ELSE Append(log, [id |-> id, job |-> j, type |-> type,
                      version |-> row.version, state |-> row.state])

(* The persisted event_cursor moves only when the event got a row.         *)
WithCursor(log, id, row) ==
    IF Logged(log, id) THEN row ELSE [row EXCEPT !.cursor = id]

Store(j, row, type, id) ==
    /\ jobs[j].version < MaxVersion
    /\ jobs' = [jobs EXCEPT ![j] = WithCursor(events, id, row)]
    /\ events' = WithEvent(events, id, j, type, row)

(* A change of j to row, its version bumped, under the stable event id.    *)
Bump(j, row, type) ==
    LET v == jobs[j].version + 1
    IN Store(j, [row EXCEPT !.version = v], type, EventId(j, type, v))

Transition(j, target, row, type) ==
    /\ Exists(j)
    /\ target \in AllowedTransitions[jobs[j].state]
    /\ Bump(j, [row EXCEPT !.state = target], type)

Unleased(row) == [row EXCEPT !.owner = None, !.deadline = NoDeadline]

LiveLease(j, o) ==
    /\ jobs[j].owner = o
    /\ jobs[j].deadline # NoDeadline
    /\ jobs[j].deadline >= now

NewJob(j, k, m, p) ==
    [Absent EXCEPT !.state = "QUEUED", !.version = 1, !.key = k,
                   !.maxRetries = m, !.parent = p,
                   !.cursor = EventId(j, "created", 1)]

Init ==
    /\ jobs = [j \in JobIds |-> Absent]
    /\ events = <<>>
    /\ now = 0

(* create without a parent.  A known key returns the existing job and a    *)
(* known id raises.                                                        *)
Create(j, k, m) ==
    /\ ~Exists(j)
    /\ k # None => \A i \in JobIds : jobs[i].key # k
    /\ jobs' = [jobs EXCEPT ![j] = NewJob(j, k, m, None)]
    /\ events' = WithEvent(events, EventId(j, "created", 1), j, "created",
                           NewJob(j, k, m, None))
    /\ UNCHANGED now

Linked(row, p, j) ==
    LET v == row.version + 1
    IN [row EXCEPT !.children = @ \cup {j}, !.version = v,
                   !.cursor = EventId(p, "child_linked", v)]

(* create with a parent row: the parent is rewritten first, then the       *)
(* child's event is appended.  The child is inserted before its parent is  *)
(* looked up, so a job may name itself; the cursor update of its "created" *)
(* event then misses the row, whose version has moved on.                  *)
CreateChild(j, k, m, p) ==
    LET inserted == [jobs EXCEPT ![j] = NewJob(j, k, m, p)]
        parent == Linked(inserted[p], p, j)
    IN /\ ~Exists(j)
       /\ k # None => \A i \in JobIds : jobs[i].key # k
       /\ p = j \/ Exists(p)
       /\ inserted[p].version < MaxVersion
       /\ jobs' = [inserted EXCEPT ![p] = parent]
       /\ events' = WithEvent(WithEvent(events, parent.cursor, p, "child_linked", parent),
                              EventId(j, "created", 1), j, "created",
                              NewJob(j, k, m, p))
       /\ UNCHANGED now

MarkRunning(j, o, deadline) ==
    /\ deadline > now
    /\ Transition(j, "RUNNING",
                  [jobs[j] EXCEPT !.owner = o, !.deadline = deadline], "running")
    /\ UNCHANGED now

RenewLease(j, o, deadline) ==
    /\ deadline > now
    /\ Exists(j)
    /\ LiveLease(j, o)
    /\ Bump(j, [jobs[j] EXCEPT !.deadline = deadline], "lease_renewed")
    /\ UNCHANGED now

MarkSucceeded(j, o) ==
    /\ jobs[j].state = "RUNNING"
    /\ LiveLease(j, o)
    /\ Transition(j, "SUCCEEDED", [Unleased(jobs[j]) EXCEPT !.finished = TRUE],
                  "succeeded")
    /\ UNCHANGED now

(* o is None when the caller names no owner.                               *)
MarkFailed(j, o) ==
    /\ jobs[j].state = "RUNNING" => o # None /\ LiveLease(j, o)
    /\ Transition(j, "FAILED", [Unleased(jobs[j]) EXCEPT !.finished = TRUE],
                  "failed")
    /\ UNCHANGED now

(* cancel; the caller's idempotency key, if any, is the id of the event.   *)
Cancel(j, key) ==
    LET v == jobs[j].version + 1
        id == IF key = None THEN EventId(j, "canceled", v) ELSE key
    IN /\ Exists(j)
       /\ "CANCELED" \in AllowedTransitions[jobs[j].state]
       /\ Store(j, [Unleased(jobs[j]) EXCEPT !.state = "CANCELED",
                                             !.finished = TRUE,
                                             !.version = v], "canceled", id)
       /\ UNCHANGED now

(* Mutant: counts the retries that are left, from zero down.               *)
Retry_CountsDown(j) ==
    /\ Transition(j, "QUEUED", [jobs[j] EXCEPT !.retries = @ - 1, !.finished = FALSE],
                  "retried")
    /\ UNCHANGED now

(* Mutant: the finish time of the failed attempt stays.                    *)
Retry_KeepsFinish(j) ==
    /\ jobs[j].retries + 1 <= jobs[j].maxRetries
    /\ Transition(j, "QUEUED", [jobs[j] EXCEPT !.retries = @ + 1], "retried")
    /\ UNCHANGED now

(* Mutant: one retry too many.                                             *)
Retry_OffByOne(j) ==
    /\ jobs[j].retries <= jobs[j].maxRetries
    /\ Transition(j, "QUEUED", [jobs[j] EXCEPT !.retries = @ + 1, !.finished = FALSE],
                  "retried")
    /\ UNCHANGED now

(* retry; a job that is queued again already is returned as it is.         *)
Retry(j) ==
    /\ ~(jobs[j].state = "QUEUED" /\ jobs[j].retries > 0)
    /\ jobs[j].retries + 1 <= jobs[j].maxRetries
    /\ Transition(j, "QUEUED",
                  [jobs[j] EXCEPT !.retries = @ + 1, !.finished = FALSE],
                  "retried")
    /\ UNCHANGED now

(* Mutant: a lease is lost at its deadline, when its owner may still use it.*)
Expired_AtDeadline(j) ==
    /\ jobs[j].state = "RUNNING"
    /\ jobs[j].deadline <= now

Expired(j) ==
    /\ jobs[j].state = "RUNNING"
    /\ jobs[j].deadline # NoDeadline
    /\ jobs[j].deadline < now

LostRow(j) ==
    [Unleased(jobs[j]) EXCEPT !.state = "LOST", !.finished = TRUE,
                              !.version = @ + 1,
                              !.cursor = EventId(j, "lost", jobs[j].version + 1)]

LostEvent(j) ==
    [id |-> EventId(j, "lost", jobs[j].version + 1), job |-> j, type |-> "lost",
     version |-> jobs[j].version + 1, state |-> "LOST"]

ExpiredJobs == {j \in JobIds : Expired(j)}

(* The orders in which a set can be walked.                                *)
Orders(S) == Bijection(1..Cardinality(S), S)

(* recover_lost_leases: every expired lease, in one transaction.  The code *)
(* walks the ids in their sort order, which model values do not have.      *)
RecoverLostLeases(order) ==
    /\ ExpiredJobs # {}
    /\ \A j \in ExpiredJobs : jobs[j].version < MaxVersion
    /\ jobs' = [j \in JobIds |-> IF Expired(j) THEN LostRow(j) ELSE jobs[j]]
    /\ events' = events \o [i \in DOMAIN order |-> LostEvent(order[i])]
    /\ UNCHANGED now

(* The wall clock may be set forward or back between two calls.            *)
ClockStep(t) ==
    /\ now' = t
    /\ UNCHANGED <<jobs, events>>

Deadlines == 1..(MaxTime + 1)

Next ==
    \/ \E j \in JobIds, k \in CreateKeys \cup {None}, m \in 0..MaxRetries : Create(j, k, m)
    \/ \E j, p \in JobIds, k \in CreateKeys \cup {None}, m \in 0..MaxRetries :
            CreateChild(j, k, m, p)
    \/ \E j \in JobIds, o \in Owners, d \in Deadlines : MarkRunning(j, o, d)
    \/ \E j \in JobIds, o \in Owners, d \in Deadlines : RenewLease(j, o, d)
    \/ \E j \in JobIds, o \in Owners : MarkSucceeded(j, o)
    \/ \E j \in JobIds, o \in Owners \cup {None} : MarkFailed(j, o)
    \/ \E j \in JobIds, key \in CancelKeys \cup {None} : Cancel(j, key)
    \/ \E j \in JobIds : Retry(j)
    \/ \E order \in Orders(ExpiredJobs) : RecoverLostLeases(order)
    \/ \E t \in 0..MaxTime : ClockStep(t)

Spec == Init /\ [][Next]_vars

-----------------------------------------------------------------------------
(* Properties.                                                             *)

(* The lease fields of a row are set exactly while it is RUNNING, and its  *)
(* finish time exactly while it is terminal: every path out of RUNNING     *)
(* drops the lease (so recovery can find every running job by its          *)
(* deadline) and retry clears what the failed attempt left.                *)
LifecycleFields ==
    \A j \in JobIds :
        /\ jobs[j].state = "RUNNING" <=> jobs[j].owner # None
        /\ jobs[j].state = "RUNNING" <=> jobs[j].deadline # NoDeadline
        /\ jobs[j].state \in Terminal <=> jobs[j].finished

EventsOf(j) == {i \in DOMAIN events : events[i].job = j}

Unlogged(j) ==
    {v \in 1..jobs[j].version : \A i \in EventsOf(j) : events[i].version # v}

(* Every version of every row was announced by exactly one event, written  *)
(* in the same transaction.  The one exception is a cancellation under an  *)
(* idempotency key that is an event id already: at most one version of a   *)
(* row, and only of a CANCELED one, has no event.                          *)
EventPerVersion ==
    \A j \in JobIds :
        /\ \A a, b \in EventsOf(j) : events[a].version = events[b].version => a = b
        /\ \A a \in EventsOf(j) : events[a].version \in 1..jobs[j].version
        /\ \A v, w \in Unlogged(j) : v = w /\ jobs[j].state = "CANCELED"

(* A client that replays the events of a job walks its life: the states of *)
(* consecutive versions are equal or an allowed transition apart, the      *)
(* event of the row's version shows the row's state, and the event_cursor  *)
(* stored with the job names the newest event of that job, so that a       *)
(* client that resumes from it misses nothing.                             *)
LogReplays ==
    \A j \in JobIds :
        /\ \A a, b \in EventsOf(j) : events[b].version = events[a].version + 1 =>
               \/ events[b].state = events[a].state
               \/ events[b].state \in AllowedTransitions[events[a].state]
        /\ \A a \in EventsOf(j) :
               events[a].version = jobs[j].version => events[a].state = jobs[j].state
        /\ Exists(j) => \E a \in EventsOf(j) :
               /\ events[a].id = jobs[j].cursor
               /\ \A b \in EventsOf(j) : events[b].version <= events[a].version

(* A job is handed to a worker at most once per queueing: the number of    *)
(* times it was started never exceeds one more than its retries, which     *)
(* never exceed the budget it was created with.                            *)
StartsWithinBudget ==
    \A j \in JobIds :
        /\ jobs[j].retries <= jobs[j].maxRetries
        /\ Cardinality({i \in EventsOf(j) : events[i].type = "running"}) <=
               jobs[j].retries + 1

(* Recovery and the owner's calls never disagree on a lease: a job that a  *)
(* step marks LOST had no owner whose calls the store would still accept.  *)
LiveLeaseNotLost ==
    [][\A j \in JobIds :
          jobs[j].state # "LOST" /\ jobs'[j].state = "LOST" =>
              \A o \in Owners : ~LiveLease(j, o)]_vars

(* The events of a job tell its life: each version once, each step an      *)
(* allowed one, the cursor at the newest, and no start beyond the budget   *)
(* (create, _transition_in_transaction, _append_event_in_transaction).     *)
HistoryIsTrue == EventPerVersion /\ LogReplays /\ StartsWithinBudget

Lifecycle ==
    INSTANCE JobLifecycle WITH
        Jobs <- JobIds, Nobody <- None, Budget <- MaxRetries,
        phase <- [j \in JobIds |-> jobs[j].state],
        owner <- [j \in JobIds |-> jobs[j].owner],
        left <- [j \in JobIds |-> jobs[j].maxRetries - jobs[j].retries]

(* The store implements the life of a job as its users see it: with its    *)
(* leases, wall clock, recovery and event log every call is a step of      *)
(* JobLifecycle or changes nothing of it.                                  *)
ImplementsLifecycle == Lifecycle!LifeSpec
=============================================================================
