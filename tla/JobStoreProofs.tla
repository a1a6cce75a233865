--------------------------- MODULE JobStoreProofs ---------------------------
(* Proofs about what the gateway stores and shows of it.  The transitions  *)
(* of the job store keep its tables consistent and its history true, and   *)
(* the store implements JobLifecycle, for any number of jobs, owners and   *)
(* keys.  The data page shows exactly the bars of the entries it found,    *)
(* and what it reports as deleted is gone, for any markets and ranges.     *)
EXTENDS JobStore, DataInventory, FiniteSetTheorems, TLAPS

(* The events of EventIds that the store makes up itself are ids.          *)
LEMMA EventIdType ==
    ASSUME NEW j \in JobIds, NEW type \in EventTypes, NEW v \in Nat
    PROVE  EventId(j, type, v) \in EventIds
BY Zenon DEF EventId, EventIds

(* The empty row is a row.                                                 *)
LEMMA AbsentType == Absent \in Job
BY Zenon DEF Absent, Job, NoDeadline

(* Storing a row and appending its event keeps both tables well typed.     *)
LEMMA StoreType ==
    ASSUME TypeOK, NEW j \in JobIds, NEW row \in Job, row.state \in States,
           NEW type \in EventTypes, NEW id \in EventIds,
           Store(j, row, type, id)
    PROVE  jobs' \in [JobIds -> Job] /\ events' \in Seq(Event)
<1>1. WithCursor(events, id, row) \in Job
  BY Zenon DEF WithCursor, Job
<1>2. WithEvent(events, id, j, type, row) \in Seq(Event)
  <2>1. [id |-> id, job |-> j, type |-> type,
         version |-> row.version, state |-> row.state] \in Event
    BY Zenon DEF Event, Job
  <2> QED BY <2>1 DEF WithEvent, TypeOK
<1> QED BY <1>1, <1>2, Zenon DEF Store, TypeOK

LEMMA BumpType ==
    ASSUME TypeOK, NEW j \in JobIds, NEW row \in Job, row.state \in States,
           NEW type \in EventTypes, Bump(j, row, type)
    PROVE  jobs' \in [JobIds -> Job] /\ events' \in Seq(Event)
<1> DEFINE v == jobs[j].version + 1
<1>1. v \in Nat
  BY DEF TypeOK, Job
<1>2. [row EXCEPT !.version = v] \in Job /\ [row EXCEPT !.version = v].state \in States
  BY <1>1, Zenon DEF Job
<1>3. EventId(j, type, v) \in EventIds
  BY <1>1, EventIdType, Zenon
<1> HIDE DEF v
<1>4. Store(j, [row EXCEPT !.version = v], type, EventId(j, type, v))
  BY Zenon DEF Bump, v
<1> QED BY <1>2, <1>3, <1>4, StoreType, Zenon

LEMMA TransitionType ==
    ASSUME TypeOK, NEW j \in JobIds, NEW row \in Job, NEW target \in States,
           NEW type \in EventTypes, Transition(j, target, row, type)
    PROVE  jobs' \in [JobIds -> Job] /\ events' \in Seq(Event)
<1>1. [row EXCEPT !.state = target] \in Job
  BY Zenon DEF Job
<1>2. [row EXCEPT !.state = target].state \in States
  BY Zenon DEF Job
<1>3. Bump(j, [row EXCEPT !.state = target], type)
  BY Zenon DEF Transition
<1> QED BY <1>1, <1>2, <1>3, BumpType, Zenon

LEMMA NewJobType ==
    ASSUME NEW j \in JobIds, NEW k \in CreateKeys \cup {None},
           NEW m \in Nat, NEW p \in JobIds \cup {None}
    PROVE  NewJob(j, k, m, p) \in Job /\ NewJob(j, k, m, p).state \in States
<1>1. EventId(j, "created", 1) \in EventIds
  BY EventIdType, Zenon DEF EventTypes
<1> QED BY <1>1, AbsentType, Zenon DEF NewJob, Absent, Job, States, NoDeadline

(* Appending an event of a well-typed row to a well-typed log.             *)
LEMMA WithEventType ==
    ASSUME NEW log \in Seq(Event), NEW id \in EventIds, NEW j \in JobIds,
           NEW type \in EventTypes, NEW row \in Job, row.state \in States
    PROVE  WithEvent(log, id, j, type, row) \in Seq(Event)
<1>1. [id |-> id, job |-> j, type |-> type,
       version |-> row.version, state |-> row.state] \in Event
  BY Zenon DEF Event, Job
<1> QED BY <1>1 DEF WithEvent

LEMMA LinkedType ==
    ASSUME NEW row \in Job, NEW p \in JobIds, NEW j \in JobIds
    PROVE  /\ Linked(row, p, j) \in Job
           /\ Linked(row, p, j).state = row.state
           /\ Linked(row, p, j).version = row.version + 1
           /\ Linked(row, p, j).cursor \in EventIds
<1>1. EventId(p, "child_linked", row.version + 1) \in EventIds
  BY EventIdType DEF EventTypes, Job
<1>2. row.children \cup {j} \in SUBSET JobIds /\ row.version + 1 \in Nat
  BY DEF Job
<1> QED BY <1>1, <1>2, Zenon DEF Linked, Job

LEMMA RecoverType ==
    ASSUME TypeOK, NEW order \in Orders(ExpiredJobs), RecoverLostLeases(order)
    PROVE  jobs' \in [JobIds -> Job] /\ events' \in Seq(Event)
<1>1. ASSUME NEW j \in JobIds PROVE LostRow(j) \in Job
  <2>1. jobs[j].version + 1 \in Nat /\ jobs[j] \in Job
    BY DEF TypeOK, Job
  <2>2. EventId(j, "lost", jobs[j].version + 1) \in EventIds
    BY <2>1, EventIdType, Zenon DEF EventTypes
  <2>3. Unleased(jobs[j]) \in Job /\ Unleased(jobs[j]).version = jobs[j].version
    BY <2>1, Zenon DEF Unleased, Job, NoDeadline
  <2>4. "LOST" \in States
    BY Zenon DEF States
  <2> HIDE DEF Unleased
  <2> QED BY <2>1, <2>2, <2>3, <2>4, Zenon DEF LostRow, Job
<1>2. ASSUME NEW j \in JobIds PROVE LostEvent(j) \in Event
  <2>1. jobs[j].version + 1 \in Nat
    BY DEF TypeOK, Job
  <2>2. EventId(j, "lost", jobs[j].version + 1) \in EventIds
    BY <2>1, EventIdType, Zenon DEF EventTypes
  <2> QED BY <2>1, <2>2, Zenon DEF LostEvent, Event, EventTypes, States
<1>3. jobs' \in [JobIds -> Job]
  BY <1>1, Zenon DEF RecoverLostLeases, TypeOK
<1>4. [i \in DOMAIN order |-> LostEvent(order[i])] \in Seq(Event)
  <2>1. IsFiniteSet(ExpiredJobs)
    BY IdsAssumption, FS_Subset, Zenon DEF ExpiredJobs
  <2>2. Cardinality(ExpiredJobs) \in Nat
    BY <2>1, FS_CardinalityType, Zenon
  <2>3. order \in [1..Cardinality(ExpiredJobs) -> ExpiredJobs]
    BY Zenon DEF Orders, Bijection, Injection
  <2>4. ASSUME NEW i \in DOMAIN order PROVE LostEvent(order[i]) \in Event
    BY <1>2, <2>3, Zenon DEF ExpiredJobs
  <2> QED BY <2>2, <2>3, <2>4
<1>5. events' \in Seq(Event)
  BY <1>4 DEF RecoverLostLeases, TypeOK
<1> QED BY <1>3, <1>5, Zenon

(* The changes the handlers make to a row keep it a row.                   *)
LEMMA RowUpdates ==
    ASSUME NEW row \in Job, NEW o \in Owners \cup {None}, NEW d \in Nat, NEW v \in Nat
    PROVE  /\ [row EXCEPT !.owner = o, !.deadline = d] \in Job
           /\ [row EXCEPT !.deadline = d] \in Job
           /\ [row EXCEPT !.deadline = d].state = row.state
           /\ [Unleased(row) EXCEPT !.finished = TRUE] \in Job
           /\ [row EXCEPT !.retries = v, !.finished = FALSE] \in Job
           /\ [Unleased(row) EXCEPT !.state = "CANCELED", !.finished = TRUE,
                                     !.version = v] \in Job
           /\ [Unleased(row) EXCEPT !.state = "CANCELED", !.finished = TRUE,
                                     !.version = v].state = "CANCELED"
<1>1. [row EXCEPT !.owner = o, !.deadline = d] \in Job
  BY Zenon DEF Job
<1>2. [row EXCEPT !.deadline = d] \in Job /\ [row EXCEPT !.deadline = d].state = row.state
  BY Zenon DEF Job
<1>3. [Unleased(row) EXCEPT !.finished = TRUE] \in Job
  BY Zenon DEF Job, Unleased, NoDeadline
<1>4. [row EXCEPT !.retries = v, !.finished = FALSE] \in Job
  BY Zenon DEF Job
<1>5. [Unleased(row) EXCEPT !.state = "CANCELED", !.finished = TRUE, !.version = v] \in Job
  BY Zenon DEF Job, Unleased, NoDeadline, States
<1>6. [Unleased(row) EXCEPT !.state = "CANCELED", !.finished = TRUE,
                            !.version = v].state = "CANCELED"
  BY Zenon DEF Job, Unleased
<1> QED BY <1>1, <1>2, <1>3, <1>4, <1>5, <1>6, Zenon

(* Every step of the store keeps its tables well typed.                    *)
LEMMA TypeStep ==
    ASSUME TypeOK, [Next]_vars
    PROVE  TypeOK'
<1>0. CASE UNCHANGED vars
  BY <1>0, Zenon DEF vars, TypeOK
<1> USE DEF TypeOK
<1>1. ASSUME NEW j \in JobIds, NEW k \in CreateKeys \cup {None},
             NEW m \in 0..MaxRetries, Create(j, k, m)
      PROVE  TypeOK'
  <2>1. m \in Nat
    BY BoundsAssumption
  <2>2. NewJob(j, k, m, None) \in Job /\ NewJob(j, k, m, None).state \in States
    BY <2>1, NewJobType, Zenon
  <2>3. EventId(j, "created", 1) \in EventIds
    BY EventIdType, Zenon DEF EventTypes
  <2>4. events' \in Seq(Event)
    BY <1>1, <2>2, <2>3, WithEventType, Zenon DEF Create, EventTypes
  <2> QED BY <1>1, <2>2, <2>4, Zenon DEF Create
<1>2. ASSUME NEW j \in JobIds, NEW p \in JobIds, NEW k \in CreateKeys \cup {None},
             NEW m \in 0..MaxRetries, CreateChild(j, k, m, p)
      PROVE  TypeOK'
  <2> DEFINE new == NewJob(j, k, m, p)
             inserted == [jobs EXCEPT ![j] = new]
             parent == Linked(inserted[p], p, j)
  <2>1. m \in Nat
    BY BoundsAssumption
  <2>2. new \in Job /\ new.state \in States
    BY <2>1, NewJobType, Zenon
  <2>3. inserted \in [JobIds -> Job]
    BY <2>2, Zenon
  <2>4. inserted[p].state \in States
    BY <1>2, <2>2, Zenon DEF CreateChild, Exists, Job
  <2>5. parent \in Job /\ parent.state \in States /\ parent.cursor \in EventIds
    BY <2>3, <2>4, LinkedType
  <2>6. EventId(j, "created", 1) \in EventIds
    BY EventIdType, Zenon DEF EventTypes
  <2>7. WithEvent(events, parent.cursor, p, "child_linked", parent) \in Seq(Event)
    BY <2>5, WithEventType, Zenon DEF EventTypes
  <2>8. WithEvent(WithEvent(events, parent.cursor, p, "child_linked", parent),
                  EventId(j, "created", 1), j, "created", new) \in Seq(Event)
    BY <2>2, <2>6, <2>7, WithEventType, Zenon DEF EventTypes
  <2>9. /\ jobs' = [inserted EXCEPT ![p] = parent]
        /\ events' = WithEvent(WithEvent(events, parent.cursor, p, "child_linked", parent),
                               EventId(j, "created", 1), j, "created", new)
        /\ now' = now
    BY <1>2, Zenon DEF CreateChild
  <2> HIDE DEF parent, inserted, new
  <2> QED BY <2>3, <2>5, <2>8, <2>9, Zenon
<1>3. ASSUME NEW j \in JobIds, NEW o \in Owners, NEW d \in Deadlines, MarkRunning(j, o, d)
      PROVE  TypeOK'
  <2>0. d \in Nat
    BY BoundsAssumption DEF Deadlines
  <2>1. [jobs[j] EXCEPT !.owner = o, !.deadline = d] \in Job
    BY <2>0, RowUpdates, Zenon
  <2> QED BY <1>3, <2>1, TransitionType, Zenon DEF MarkRunning, States, EventTypes
<1>4. ASSUME NEW j \in JobIds, NEW o \in Owners, NEW d \in Deadlines, RenewLease(j, o, d)
      PROVE  TypeOK'
  <2>0. d \in Nat
    BY BoundsAssumption DEF Deadlines
  <2>1. [jobs[j] EXCEPT !.deadline = d] \in Job
    BY <2>0, RowUpdates, Zenon
  <2>2. [jobs[j] EXCEPT !.deadline = d].state \in States
    BY <1>4, Zenon DEF RenewLease, Exists, Job
  <2> QED BY <1>4, <2>1, <2>2, BumpType, Zenon DEF RenewLease, EventTypes
<1>5. ASSUME NEW j \in JobIds, NEW o \in Owners \cup {None}
      PROVE  [Unleased(jobs[j]) EXCEPT !.finished = TRUE] \in Job
  BY RowUpdates, Zenon
<1>6. ASSUME NEW j \in JobIds, NEW o \in Owners, MarkSucceeded(j, o)
      PROVE  TypeOK'
  BY <1>5, <1>6, TransitionType, Zenon DEF MarkSucceeded, States, EventTypes
<1>7. ASSUME NEW j \in JobIds, NEW o \in Owners \cup {None}, MarkFailed(j, o)
      PROVE  TypeOK'
  BY <1>5, <1>7, TransitionType, Zenon DEF MarkFailed, States, EventTypes
<1>8. ASSUME NEW j \in JobIds, NEW key \in CancelKeys \cup {None}, Cancel(j, key)
      PROVE  TypeOK'
  <2> DEFINE v == jobs[j].version + 1
             id == IF key = None THEN EventId(j, "canceled", v) ELSE key
             row == [Unleased(jobs[j]) EXCEPT !.state = "CANCELED", !.finished = TRUE,
                                              !.version = v]
  <2>1. v \in Nat
    BY DEF Job
  <2>2. id \in EventIds
    BY <2>1, EventIdType, Zenon DEF EventIds, EventTypes
  <2>3. row \in Job /\ row.state \in States
    BY <2>1, RowUpdates, Zenon DEF States
  <2>4. Store(j, row, "canceled", id) /\ now' = now
    BY <1>8, Zenon DEF Cancel
  <2> HIDE DEF v, id, row
  <2> QED BY <2>2, <2>3, <2>4, StoreType, Zenon DEF EventTypes
<1>9. ASSUME NEW j \in JobIds, Retry(j)
      PROVE  TypeOK'
  <2>0. jobs[j].retries + 1 \in Nat
    BY DEF Job
  <2>1. [jobs[j] EXCEPT !.retries = @ + 1, !.finished = FALSE] \in Job
    BY <2>0, RowUpdates, Zenon
  <2> QED BY <1>9, <2>1, TransitionType, Zenon DEF Retry, States, EventTypes
<1>10. ASSUME NEW order \in Orders(ExpiredJobs), RecoverLostLeases(order)
       PROVE  TypeOK'
  BY <1>10, RecoverType, Zenon DEF RecoverLostLeases
<1>11. ASSUME NEW t \in 0..MaxTime, ClockStep(t)
       PROVE  TypeOK'
  BY <1>11, BoundsAssumption DEF ClockStep
<1> QED BY <1>0, <1>1, <1>2, <1>3, <1>4, <1>6, <1>7, <1>8, <1>9, <1>10, <1>11, Zenon DEF Next

(* The rows and events every call writes have the shape the next call      *)
(* reads.                                                                  *)
THEOREM JobStoreTypeOK == Spec => []TypeOK
<1>1. Init => TypeOK
  BY AbsentType DEF Init, TypeOK
<1>2. TypeOK /\ [Next]_vars => TypeOK'
  BY TypeStep, Zenon
<1> QED BY <1>1, <1>2, PTL DEF Spec

-----------------------------------------------------------------------------
(* The event log.                                                          *)

LoggedAt(log, j, v) == \E i \in DOMAIN log : log[i].job = j /\ log[i].version = v

(* Event ids are stable ids, or keys that cancellations were called with.  *)
IdOK(e) ==
    \/ e.id = EventId(e.job, e.type, e.version)
    \/ e.id \in CancelKeys

(* EventPerVersion of a jobs table and a log, with the shape of the ids    *)
(* that makes the id of the next change of a row a new one.                *)
LogOK(js, log) ==
    /\ \A i \in DOMAIN log :
          /\ IdOK(log[i])
          /\ 1 <= log[i].version
          /\ log[i].version <= js[log[i].job].version
    /\ \A a, b \in DOMAIN log :
          log[a].job = log[b].job /\ log[a].version = log[b].version => a = b
    /\ \A j \in JobIds : \A v \in 1..js[j].version :
          ~LoggedAt(log, j, v) => js[j].state = "CANCELED"
    /\ \A j \in JobIds : \A v, w \in 1..js[j].version :
          ~LoggedAt(log, j, v) /\ ~LoggedAt(log, j, w) => v = w

LEMMA FreshId ==
    ASSUME NEW js \in [JobIds -> Job], NEW log \in Seq(Event), LogOK(js, log),
           NEW j \in JobIds, NEW type \in EventTypes, NEW v \in Nat,
           v > js[j].version
    PROVE  ~Logged(log, EventId(j, type, v))
<1>1. SUFFICES ASSUME NEW i \in DOMAIN log, log[i].id = EventId(j, type, v)
               PROVE  FALSE
  BY Zenon DEF Logged
<1>2. log[i] \in Event
  OBVIOUS
<1>3. CASE log[i].id = EventId(log[i].job, log[i].type, log[i].version)
  <2>1. log[i].job = j /\ log[i].version = v
    BY <1>1, <1>2, <1>3 DEF EventId
  <2>2. log[i].version <= js[j].version
    BY <2>1, Zenon DEF LogOK
  <2> QED BY <2>1, <2>2 DEF Job
<1>4. CASE log[i].id \in CancelKeys
  <2>1. EventId(j, type, v) \in JobIds \X EventTypes \X Nat
    BY Zenon DEF EventId
  <2> QED BY <1>1, <1>4, <2>1, CancelKeysAssumption, Zenon
<1> QED BY <1>3, <1>4, Zenon DEF LogOK, IdOK

LEMMA AppendLog ==
    ASSUME NEW js \in [JobIds -> Job], NEW log \in Seq(Event), LogOK(js, log),
           NEW j \in JobIds, NEW row \in Job, row.version = js[j].version + 1,
           js[j].state = "CANCELED" => row.state = "CANCELED",
           NEW e \in Event, e.job = j, e.version = row.version, IdOK(e)
    PROVE  LogOK([js EXCEPT ![j] = row], Append(log, e))
<1> DEFINE js2 == [js EXCEPT ![j] = row]
           log2 == Append(log, e)
<1>0. /\ DOMAIN log = 1..Len(log) /\ Len(log) \in Nat
      /\ DOMAIN log2 = 1..(Len(log) + 1)
      /\ \A i \in DOMAIN log : i \in DOMAIN log2 /\ log2[i] = log[i] /\ log[i] \in Event
      /\ log2[Len(log) + 1] = e
      /\ \A i \in DOMAIN log2 : i \in DOMAIN log \/ i = Len(log) + 1
  OBVIOUS
<1>1. /\ js2 \in [JobIds -> Job]
      /\ js2[j] = row
      /\ \A k \in JobIds : k # j => js2[k] = js[k]
  BY Zenon
<1>2. \A k \in JobIds : js[k].version \in Nat /\ js2[k].version \in Nat /\ js[k].version <= js2[k].version
  BY <1>1 DEF Job
<1>3. \A i \in DOMAIN log : log[i].job \in JobIds /\ log[i].version \in Nat
  BY <1>0, Zenon DEF Event
<1>4. \A k \in JobIds, v \in Nat : LoggedAt(log, k, v) => LoggedAt(log2, k, v)
  BY <1>0, Zenon DEF LoggedAt
<1>5. LoggedAt(log2, j, row.version)
  BY <1>0 DEF LoggedAt
<1> HIDE DEF js2, log2
<1>6. ASSUME NEW i \in DOMAIN log2
      PROVE  IdOK(log2[i]) /\ 1 <= log2[i].version /\ log2[i].version <= js2[log2[i].job].version
  <2>1. CASE i \in DOMAIN log
    <3>1. IdOK(log[i]) /\ 1 <= log[i].version /\ log[i].version <= js[log[i].job].version
      BY <2>1, Zenon DEF LogOK
    <3> QED BY <2>1, <3>1, <1>0, <1>2, <1>3
  <2>2. CASE i = Len(log) + 1
    BY <2>2, <1>0, <1>1, <1>2
  <2> QED BY <2>1, <2>2, <1>0, Zenon
<1>7. ASSUME NEW a \in DOMAIN log2, NEW b \in DOMAIN log2,
             log2[a].job = log2[b].job, log2[a].version = log2[b].version
      PROVE  a = b
  <2>1. ASSUME NEW i \in DOMAIN log, log[i].job = e.job, log[i].version = e.version
        PROVE  FALSE
    <3>1. log[i].version <= js[log[i].job].version
      BY Zenon DEF LogOK
    <3> QED BY <2>1, <3>1, <1>2
  <2>2. CASE a \in DOMAIN log /\ b \in DOMAIN log
    BY <1>7, <2>2, <1>0, Zenon DEF LogOK
  <2>3. CASE a \notin DOMAIN log \/ b \notin DOMAIN log
    BY <1>7, <2>1, <2>3, <1>0, Zenon
  <2> QED BY <2>2, <2>3, Zenon
<1>8. ASSUME NEW k \in JobIds, NEW v \in 1..js2[k].version, ~LoggedAt(log2, k, v)
      PROVE  v \in 1..js[k].version /\ ~LoggedAt(log, k, v)
  BY <1>1, <1>2, <1>4, <1>5, <1>8
<1>9. ASSUME NEW k \in JobIds, NEW v \in 1..js2[k].version, ~LoggedAt(log2, k, v)
      PROVE  js2[k].state = "CANCELED"
  BY <1>8, <1>9, <1>1, Zenon DEF LogOK
<1>10. ASSUME NEW k \in JobIds, NEW v \in 1..js2[k].version, NEW w \in 1..js2[k].version,
              ~LoggedAt(log2, k, v), ~LoggedAt(log2, k, w)
       PROVE  v = w
  BY <1>8, <1>10, Zenon DEF LogOK
<1> QED BY <1>6, <1>7, <1>9, <1>10, Zenon DEF LogOK, js2, log2

LEMMA DropLog ==
    ASSUME NEW js \in [JobIds -> Job], NEW log \in Seq(Event), LogOK(js, log),
           NEW j \in JobIds, NEW row \in Job, row.version = js[j].version + 1,
           js[j].state # "CANCELED", row.state = "CANCELED"
    PROVE  LogOK([js EXCEPT ![j] = row], log)
<1> DEFINE js2 == [js EXCEPT ![j] = row]
<1>1. /\ js2[j] = row
      /\ \A k \in JobIds : k # j => js2[k] = js[k]
      /\ \A k \in JobIds : js[k].version \in Nat /\ js2[k].version \in Nat
      /\ \A k \in JobIds : js[k].version <= js2[k].version
  BY DEF Job
<1>2. \A i \in DOMAIN log : log[i].job \in JobIds /\ log[i].version \in Nat
  <2>1. \A i \in DOMAIN log : log[i] \in Event
    OBVIOUS
  <2> QED BY <2>1, Zenon DEF Event
<1> HIDE DEF js2
<1>3. ASSUME NEW i \in DOMAIN log PROVE log[i].version <= js2[log[i].job].version
  BY <1>1, <1>2 DEF LogOK
<1>4. ASSUME NEW v \in 1..js2[j].version, ~LoggedAt(log, j, v)
      PROVE  v = row.version
  <2>1. \A u \in 1..js[j].version : LoggedAt(log, j, u)
    BY Zenon DEF LogOK
  <2> QED BY <1>1, <1>4, <2>1
<1>5. ASSUME NEW k \in JobIds, NEW v \in 1..js2[k].version, ~LoggedAt(log, k, v)
      PROVE  js2[k].state = "CANCELED"
  BY <1>1, <1>5, Zenon DEF LogOK
<1>6. ASSUME NEW k \in JobIds, NEW v \in 1..js2[k].version, NEW w \in 1..js2[k].version,
             ~LoggedAt(log, k, v), ~LoggedAt(log, k, w)
      PROVE  v = w
  <2>1. CASE k = j
    BY <1>4, <1>6, <2>1, Zenon
  <2>2. CASE k # j
    BY <1>1, <1>6, <2>2, Zenon DEF LogOK
  <2> QED BY <2>1, <2>2, Zenon
<1> QED BY <1>3, <1>5, <1>6, Zenon DEF LogOK, js2

(* A change under the stable id of the row's new version.                  *)
LEMMA BumpLog ==
    ASSUME TypeOK, LogOK(jobs, events), NEW j \in JobIds, NEW row \in Job,
           row.state \in States, jobs[j].state # "CANCELED",
           NEW type \in EventTypes, Bump(j, row, type)
    PROVE  LogOK(jobs, events)'
<1> DEFINE v == jobs[j].version + 1
           id == EventId(j, type, v)
           next == [row EXCEPT !.version = v]
           stored == [next EXCEPT !.cursor = id]
           e == [id |-> id, job |-> j, type |-> type, version |-> next.version,
                 state |-> next.state]
<1>1. v \in Nat /\ v > jobs[j].version
  BY DEF TypeOK, Job
<1>2. id \in EventIds
  BY <1>1, EventIdType, Zenon
<1>3. next \in Job /\ next.version = v /\ next.state \in States
  BY <1>1, Zenon DEF Job
<1>4. stored \in Job /\ stored.version = v /\ stored.state = next.state
  BY <1>2, <1>3, Zenon DEF Job
<1>5. ~Logged(events, id)
  BY <1>1, FreshId, Zenon DEF TypeOK
<1>6. jobs' = [jobs EXCEPT ![j] = stored] /\ events' = Append(events, e)
  BY <1>5, Zenon DEF Bump, Store, WithCursor, WithEvent
<1>7. e \in Event /\ e.job = j /\ e.version = v /\ IdOK(e)
  BY <1>1, <1>2, <1>3, Zenon DEF Event, IdOK
<1> HIDE DEF v, id, next, stored, e
<1>8. stored.version = jobs[j].version + 1
  BY <1>4, Zenon DEF v
<1>9. LogOK([jobs EXCEPT ![j] = stored], Append(events, e))
  BY <1>4, <1>7, <1>8, AppendLog, Zenon DEF TypeOK
<1> QED BY <1>6, <1>9, Zenon

LEMMA CancelLog ==
    ASSUME TypeOK, LogOK(jobs, events), NEW j \in JobIds,
           NEW key \in CancelKeys \cup {None}, Cancel(j, key)
    PROVE  LogOK(jobs, events)'
<1> DEFINE v == jobs[j].version + 1
           id == IF key = None THEN EventId(j, "canceled", v) ELSE key
           row == [Unleased(jobs[j]) EXCEPT !.state = "CANCELED", !.finished = TRUE,
                                            !.version = v]
           e == [id |-> id, job |-> j, type |-> "canceled", version |-> row.version,
                 state |-> row.state]
<1>1. v \in Nat
  BY DEF TypeOK, Job
<1>2. id \in EventIds
  BY <1>1, EventIdType, Zenon DEF EventIds, EventTypes
<1>3. row \in Job /\ row.state = "CANCELED"
  BY <1>1, RowUpdates, Zenon DEF TypeOK
<1>4. row.version = v
  BY <1>1 DEF Unleased, TypeOK, Job
<1>5. jobs[j].state # "CANCELED"
  BY Zenon DEF Cancel, AllowedTransitions, States
<1>6. jobs' = [jobs EXCEPT ![j] = WithCursor(events, id, row)]
      /\ events' = WithEvent(events, id, j, "canceled", row)
  BY Zenon DEF Cancel, Store
<1>7. e \in Event /\ e.job = j /\ e.version = v
  BY <1>1, <1>2, <1>3, <1>4, Zenon DEF Event, EventTypes, States
<1>8. IdOK(e)
  BY <1>4, Zenon DEF IdOK
<1> HIDE DEF id, row, e, v
<1>9. CASE Logged(events, id)
  <2>1. jobs' = [jobs EXCEPT ![j] = row] /\ events' = events
    BY <1>6, <1>9, Zenon DEF WithCursor, WithEvent
  <2>2. LogOK([jobs EXCEPT ![j] = row], events)
    BY <1>3, <1>4, <1>5, DropLog, Zenon DEF TypeOK, v
  <2> QED BY <2>1, <2>2, Zenon
<1>10. CASE ~Logged(events, id)
  <2>1. jobs' = [jobs EXCEPT ![j] = [row EXCEPT !.cursor = id]] /\ events' = Append(events, e)
    BY <1>6, <1>10, Zenon DEF WithCursor, WithEvent, e
  <2>2. /\ [row EXCEPT !.cursor = id] \in Job
        /\ [row EXCEPT !.cursor = id].version = v
        /\ [row EXCEPT !.cursor = id].state = "CANCELED"
    BY <1>2, <1>3, <1>4, Zenon DEF Job
  <2>3. LogOK([jobs EXCEPT ![j] = [row EXCEPT !.cursor = id]], Append(events, e))
    BY <1>7, <1>8, <2>2, AppendLog, Zenon DEF TypeOK, v
  <2> QED BY <2>1, <2>3, Zenon
<1> QED BY <1>9, <1>10, Zenon

(* Rows that do not exist have version 0, so that a new row is version 1.  *)
AbsentVersion == \A j \in JobIds : ~Exists(j) => jobs[j].version = 0

LEMMA NewJobFields ==
    ASSUME NEW j \in JobIds, NEW k \in CreateKeys \cup {None},
           NEW m \in Nat, NEW p \in JobIds \cup {None}
    PROVE  /\ NewJob(j, k, m, p).version = 1
           /\ NewJob(j, k, m, p).state = "QUEUED"
           /\ NewJob(j, k, m, p).owner = None
           /\ NewJob(j, k, m, p).deadline = NoDeadline
           /\ NewJob(j, k, m, p).finished = FALSE
BY Zenon DEF NewJob, Absent

LEMMA CreateLog ==
    ASSUME TypeOK, LogOK(jobs, events), AbsentVersion,
           NEW j \in JobIds, NEW k \in CreateKeys \cup {None}, NEW m \in Nat,
           Create(j, k, m)
    PROVE  LogOK(jobs, events)'
<1> DEFINE new == NewJob(j, k, m, None)
           id == EventId(j, "created", 1)
           e == [id |-> id, job |-> j, type |-> "created", version |-> new.version,
                 state |-> new.state]
<1>1. new \in Job /\ new.state \in States /\ new.version = 1
  BY NewJobType, NewJobFields, Zenon
<1>2. jobs[j].version = 0 /\ jobs[j].state = "ABSENT"
  BY Zenon DEF AbsentVersion, Create, Exists
<1>3. ~Logged(events, id)
  BY <1>2, FreshId DEF TypeOK, EventTypes
<1>4. jobs' = [jobs EXCEPT ![j] = new] /\ events' = Append(events, e)
  BY <1>3, Zenon DEF Create, WithEvent
<1>5. e \in Event /\ e.job = j /\ e.version = 1 /\ IdOK(e)
  BY <1>1, EventIdType DEF Event, IdOK, EventTypes
<1> HIDE DEF new, id, e
<1>6. LogOK([jobs EXCEPT ![j] = new], Append(events, e))
  <2>1. /\ new.version = jobs[j].version + 1
        /\ jobs[j].state = "CANCELED" => new.state = "CANCELED"
        /\ e.version = new.version
    BY <1>1, <1>2, <1>5
  <2> QED BY <1>1, <1>5, <2>1, AppendLog, Zenon DEF TypeOK
<1> QED BY <1>4, <1>6, Zenon

LEMMA CreateChildLog ==
    ASSUME TypeOK, LogOK(jobs, events), AbsentVersion,
           NEW j \in JobIds, NEW p \in JobIds, p # j,
           NEW k \in CreateKeys \cup {None}, NEW m \in Nat,
           CreateChild(j, k, m, p)
    PROVE  LogOK(jobs, events)'
<1> DEFINE new == NewJob(j, k, m, p)
           parent == Linked(jobs[p], p, j)
           link == EventId(p, "child_linked", jobs[p].version + 1)
           id == EventId(j, "created", 1)
           e == [id |-> link, job |-> p, type |-> "child_linked",
                 version |-> parent.version, state |-> parent.state]
           f == [id |-> id, job |-> j, type |-> "created",
                 version |-> new.version, state |-> new.state]
           js == [jobs EXCEPT ![p] = parent]
           log == Append(events, e)
<1>1. new \in Job /\ new.state \in States /\ new.version = 1
  BY NewJobType, NewJobFields, Zenon
<1>2. jobs[j].version = 0 /\ jobs[j].state = "ABSENT"
  BY Zenon DEF AbsentVersion, CreateChild, Exists
<1>3. jobs[p].state \in States /\ jobs[p] \in Job /\ jobs[p].version \in Nat
  BY Zenon DEF CreateChild, Exists, TypeOK, Job
<1>4. /\ parent \in Job /\ parent.state = jobs[p].state
      /\ parent.version = jobs[p].version + 1
  BY <1>3, LinkedType, Zenon
<1>5. parent.cursor = link
  BY <1>3, Zenon DEF Linked, Job
<1>6. ~Logged(events, link)
  BY <1>3, FreshId DEF TypeOK, EventTypes
<1>7. e \in Event /\ e.job = p /\ e.version = parent.version /\ IdOK(e)
  BY <1>3, <1>4, EventIdType DEF Event, IdOK, EventTypes
<1>8. f \in Event /\ f.job = j /\ f.version = 1 /\ IdOK(f)
  BY <1>1, EventIdType DEF Event, IdOK, EventTypes
<1>9. [jobs EXCEPT ![j] = new][p] = jobs[p]
  BY Zenon DEF TypeOK
<1>10. /\ jobs' = [[jobs EXCEPT ![j] = new] EXCEPT ![p] = parent]
       /\ events' = WithEvent(WithEvent(events, link, p, "child_linked", parent),
                              id, j, "created", new)
  BY <1>5, <1>9, Zenon DEF CreateChild
<1>11. WithEvent(events, link, p, "child_linked", parent) = log
  BY <1>6, Zenon DEF WithEvent
<1> HIDE DEF new, parent, link, id, e, f
<1>12. js \in [JobIds -> Job] /\ log \in Seq(Event) /\ js[j] = jobs[j]
  BY <1>4, <1>7 DEF TypeOK
<1>13. LogOK(js, log)
  BY <1>3, <1>4, <1>7, AppendLog, Zenon DEF TypeOK
<1> HIDE DEF js, log
<1>14. ~Logged(log, id)
  BY <1>2, <1>12, <1>13, FreshId DEF EventTypes, id
<1>15. events' = Append(log, f)
  BY <1>10, <1>11, <1>14, Zenon DEF WithEvent, f
<1>16. LogOK([js EXCEPT ![j] = new], Append(log, f))
  <2>1. /\ new.version = js[j].version + 1
        /\ js[j].state = "CANCELED" => new.state = "CANCELED"
        /\ f.version = new.version
    BY <1>1, <1>2, <1>8, <1>12
  <2> QED BY <1>1, <1>8, <1>12, <1>13, <2>1, AppendLog, Zenon
<1>17. jobs' = [js EXCEPT ![j] = new]
  BY <1>10, Zenon DEF js, TypeOK
<1> QED BY <1>15, <1>16, <1>17, Zenon

(* A job that names itself as its parent gets versions 1 and 2 in one      *)
(* transaction, logged in the reverse order.                               *)
LEMMA CreateSelfLog ==
    ASSUME TypeOK, LogOK(jobs, events), AbsentVersion, NEW j \in JobIds,
           NEW k \in CreateKeys \cup {None}, NEW m \in Nat,
           CreateChild(j, k, m, j)
    PROVE  LogOK(jobs, events)'
<1> DEFINE new == NewJob(j, k, m, j)
           self == Linked(new, j, j)
           link == EventId(j, "child_linked", 2)
           id == EventId(j, "created", 1)
           e == [id |-> link, job |-> j, type |-> "child_linked",
                 version |-> self.version, state |-> self.state]
           f == [id |-> id, job |-> j, type |-> "created",
                 version |-> new.version, state |-> new.state]
           n == Len(events)
<1>1. new \in Job /\ new.state = "QUEUED" /\ new.version = 1
  BY NewJobType, NewJobFields, Zenon
<1>2. jobs[j].version = 0
  BY Zenon DEF AbsentVersion, CreateChild, Exists
<1>3. self \in Job /\ self.state = "QUEUED" /\ self.version = 2
  BY <1>1, LinkedType
<1>4. self.cursor = link
  BY <1>1 DEF Linked, Job
<1>5. [jobs EXCEPT ![j] = new][j] = new
  BY Zenon DEF TypeOK
<1>6. /\ jobs' = [[jobs EXCEPT ![j] = new] EXCEPT ![j] = self]
      /\ events' = WithEvent(WithEvent(events, link, j, "child_linked", self),
                             id, j, "created", new)
  BY <1>4, <1>5, Zenon DEF CreateChild
<1>7. ~Logged(events, link) /\ ~Logged(events, id)
  BY <1>2, FreshId DEF TypeOK, EventTypes
<1>8. e \in Event /\ f \in Event
  BY <1>1, <1>3, EventIdType DEF Event, EventTypes, States
<1>9. /\ e.job = j /\ e.version = 2 /\ IdOK(e)
      /\ f.job = j /\ f.version = 1 /\ IdOK(f)
  BY <1>1, <1>3, Zenon DEF IdOK
<1>10. link # id
  BY Zenon DEF EventId
<1>11. WithEvent(events, link, j, "child_linked", self) = Append(events, e)
  BY <1>7, Zenon DEF WithEvent
<1>12. e.id = link
  BY Zenon
<1> HIDE DEF new, self, link, id, e, f
<1>13. ~Logged(Append(events, e), id)
  BY <1>7, <1>8, <1>10, <1>12 DEF Logged, TypeOK
<1>14. events' = Append(Append(events, e), f)
  BY <1>6, <1>11, <1>13, Zenon DEF WithEvent, f
<1>15. /\ n \in Nat /\ DOMAIN events = 1..n /\ DOMAIN events' = 1..(n + 2)
       /\ \A i \in DOMAIN events : events'[i] = events[i] /\ events[i] \in Event
       /\ events'[n + 1] = e /\ events'[n + 2] = f
       /\ \A i \in DOMAIN events' : i \in DOMAIN events \/ i = n + 1 \/ i = n + 2
  BY <1>8, <1>14 DEF TypeOK
<1>16. /\ jobs'[j] = self
       /\ \A i \in JobIds : i # j => jobs'[i] = jobs[i]
  BY <1>6, Zenon DEF TypeOK
<1> HIDE DEF n
<1>17. \A i \in DOMAIN events : events[i].job # j
  BY <1>2, <1>15 DEF LogOK, Event
<1>18. \A i \in DOMAIN events : events[i].job \in JobIds
  BY <1>15, Zenon DEF Event
<1>19. ASSUME NEW i \in DOMAIN events'
       PROVE  /\ IdOK(events'[i]) /\ 1 <= events'[i].version
              /\ events'[i].version <= jobs'[events'[i].job].version
  BY <1>3, <1>9, <1>15, <1>16, <1>17, <1>18 DEF LogOK
<1>20. ASSUME NEW a \in DOMAIN events', NEW b \in DOMAIN events',
              events'[a].job = events'[b].job, events'[a].version = events'[b].version
       PROVE  a = b
  BY <1>9, <1>15, <1>17, <1>20 DEF LogOK
<1>21. ASSUME NEW i \in JobIds, NEW v \in 1..jobs'[i].version, ~LoggedAt(events', i, v)
       PROVE  i # j /\ v \in 1..jobs[i].version /\ ~LoggedAt(events, i, v)
  <2>1. i # j
    <3>1. LoggedAt(events', j, 1) /\ LoggedAt(events', j, 2)
      BY <1>9, <1>15 DEF LoggedAt
    <3>2. i = j => v = 1 \/ v = 2
      BY <1>3, <1>16
    <3> QED BY <1>21, <3>1, <3>2, Zenon
  <2>2. LoggedAt(events, i, v) => LoggedAt(events', i, v)
    BY <1>15 DEF LoggedAt
  <2> QED BY <1>16, <1>21, <2>1, <2>2, Zenon
<1> QED BY <1>16, <1>19, <1>20, <1>21, Zenon DEF LogOK

LEMMA RecoverLog ==
    ASSUME TypeOK, LogOK(jobs, events), NEW order \in Orders(ExpiredJobs),
           RecoverLostLeases(order)
    PROVE  LogOK(jobs, events)'
<1> DEFINE n == Len(events)
           c == Cardinality(ExpiredJobs)
<1>1. c \in Nat
  BY IdsAssumption, FS_Subset, FS_CardinalityType, Zenon DEF ExpiredJobs
<1>2. /\ order \in [1..c -> ExpiredJobs]
      /\ \A a, b \in 1..c : order[a] = order[b] => a = b
      /\ \A x \in ExpiredJobs : \E a \in 1..c : order[a] = x
  BY Zenon DEF Orders, Bijection, Injection, Surjection, IsInjective
<1>3. \A x \in ExpiredJobs : x \in JobIds /\ Expired(x)
  BY Zenon DEF ExpiredJobs
<1>4. /\ \A x \in JobIds : jobs[x] \in Job /\ jobs[x].version \in Nat
      /\ \A x \in JobIds : x \in ExpiredJobs => jobs[x].state = "RUNNING"
  BY Zenon DEF TypeOK, Job, ExpiredJobs, Expired
<1>5. \A x \in JobIds : LostRow(x).version = jobs[x].version + 1 /\ LostRow(x).state = "LOST"
  BY <1>4 DEF LostRow, Unleased, Job
<1>6. ASSUME NEW x \in JobIds
      PROVE  /\ x \in ExpiredJobs => /\ jobs'[x].version = jobs[x].version + 1
                                     /\ jobs'[x].state = "LOST"
             /\ x \notin ExpiredJobs => jobs'[x] = jobs[x]
  <2>1. jobs'[x] = IF Expired(x) THEN LostRow(x) ELSE jobs[x]
    BY Zenon DEF RecoverLostLeases
  <2>2. x \in ExpiredJobs <=> Expired(x)
    BY Zenon DEF ExpiredJobs
  <2> QED BY <1>5, <2>1, <2>2, Zenon
<1>7. \A x \in JobIds : /\ LostEvent(x).job = x
                         /\ LostEvent(x).version = jobs[x].version + 1
                         /\ IdOK(LostEvent(x))
  BY Zenon DEF LostEvent, IdOK
<1>8. /\ n \in Nat /\ DOMAIN events = 1..n
      /\ \A i \in DOMAIN events : events[i] \in Event
  BY DEF TypeOK
<1>9. /\ DOMAIN events' = 1..(n + c)
      /\ \A i \in 1..n : events'[i] = events[i]
      /\ \A i \in 1..c : events'[n + i] = LostEvent(order[i])
  <2> DEFINE lost == [i \in DOMAIN order |-> LostEvent(order[i])]
  <2>1. lost \in Seq({LostEvent(x) : x \in ExpiredJobs}) /\ Len(lost) = c
    BY <1>1, <1>2
  <2>2. events' = events \o lost
    BY Zenon DEF RecoverLostLeases
  <2>3. \A i \in 1..c : lost[i] = LostEvent(order[i])
    BY <1>2, Zenon
  <2> HIDE DEF lost
  <2> QED BY <1>1, <1>8, <2>1, <2>2, <2>3 DEF TypeOK
<1> HIDE DEF n, c
<1>10. \A i \in DOMAIN events' : i \in 1..n \/ \E a \in 1..c : i = n + a
  <2>1. ASSUME NEW i \in 1..(n + c), i \notin 1..n PROVE i - n \in 1..c /\ i = n + (i - n)
    BY <1>1, <1>8, <2>1
  <2> QED BY <1>9, <2>1, Zenon
<1>11. \A i \in 1..n : events[i].job \in JobIds /\ events[i].version \in Nat
  BY <1>8, Zenon DEF Event
<1>12. ASSUME NEW x \in JobIds
       PROVE  jobs'[x].version \in Nat /\ jobs[x].version <= jobs'[x].version
  BY <1>4, <1>6
<1>13. ASSUME NEW i \in DOMAIN events'
       PROVE  /\ IdOK(events'[i]) /\ 1 <= events'[i].version
              /\ events'[i].version <= jobs'[events'[i].job].version
  <2>1. CASE i \in 1..n
    BY <2>1, <1>8, <1>9, <1>11, <1>12, <1>4 DEF LogOK
  <2>2. ASSUME NEW a \in 1..c, i = n + a
        PROVE  /\ IdOK(events'[i]) /\ 1 <= events'[i].version
               /\ events'[i].version <= jobs'[events'[i].job].version
    <3>1. order[a] \in ExpiredJobs /\ order[a] \in JobIds
      BY <1>2, <1>3, Zenon
    <3>2. events'[i] = LostEvent(order[a])
      BY <1>9, <2>2, Zenon
    <3> QED BY <3>1, <3>2, <1>4, <1>6, <1>7
  <2> QED BY <2>1, <2>2, <1>10, Zenon
<1>14. ASSUME NEW i \in 1..n, NEW a \in 1..c, events[i].job = LostEvent(order[a]).job,
              events[i].version = LostEvent(order[a]).version
       PROVE  FALSE
  <2>1. order[a] \in JobIds
    BY <1>2, <1>3, Zenon
  <2>2. events[i].version <= jobs[order[a]].version
    BY <1>8, <1>14, <1>7, <2>1, Zenon DEF LogOK
  <2> QED BY <1>4, <1>7, <1>14, <2>1, <2>2
<1>15. ASSUME NEW a \in DOMAIN events', NEW b \in DOMAIN events',
              events'[a].job = events'[b].job, events'[a].version = events'[b].version
       PROVE  a = b
  <2>1. CASE a \in 1..n /\ b \in 1..n
    BY <1>8, <1>9, <1>15, <2>1, Zenon DEF LogOK
  <2>2. ASSUME NEW i \in 1..c, a = n + i PROVE a = b
    <3>1. b \notin 1..n
      BY <1>9, <1>14, <1>15, <2>2, Zenon
    <3>2. PICK h \in 1..c : b = n + h
      BY <1>10, <3>1, Zenon
    <3>3. order[i] = order[h]
      BY <1>2, <1>3, <1>7, <1>9, <1>15, <2>2, <3>2, Zenon
    <3> QED BY <1>2, <2>2, <3>2, <3>3, Zenon
  <2>3. ASSUME NEW i \in 1..c, b = n + i, a \in 1..n PROVE a = b
    BY <1>9, <1>14, <1>15, <2>3, Zenon
  <2> QED BY <2>1, <2>2, <2>3, <1>10, Zenon
<1>16. ASSUME NEW x \in JobIds, NEW v \in 1..jobs'[x].version, ~LoggedAt(events', x, v)
       PROVE  v \in 1..jobs[x].version /\ ~LoggedAt(events, x, v)
  <2>1. LoggedAt(events, x, v) => LoggedAt(events', x, v)
    BY <1>1, <1>8, <1>9 DEF LoggedAt
  <2>2. CASE x \in ExpiredJobs
    <3>1. PICK a \in 1..c : order[a] = x
      BY <1>2, <2>2, Zenon
    <3>2. n + a \in DOMAIN events'
      BY <1>1, <1>8, <1>9
    <3>3. LoggedAt(events', x, jobs[x].version + 1)
      BY <1>7, <1>9, <3>1, <3>2 DEF LoggedAt
    <3> QED BY <1>4, <1>6, <1>16, <2>1, <2>2, <3>3
  <2>3. CASE x \notin ExpiredJobs
    BY <1>6, <1>16, <2>1, <2>3, Zenon
  <2> QED BY <2>2, <2>3, Zenon
<1>17. ASSUME NEW x \in JobIds, NEW v \in 1..jobs'[x].version, ~LoggedAt(events', x, v)
       PROVE  jobs'[x].state = "CANCELED"
  <2>1. jobs[x].state = "CANCELED"
    BY <1>16, <1>17, Zenon DEF LogOK
  <2> QED BY <2>1, <1>4, <1>6, Zenon
<1> QED BY <1>13, <1>15, <1>16, <1>17, Zenon DEF LogOK

-----------------------------------------------------------------------------
(* Lease and finish fields.                                                *)

RowOK(r) ==
    /\ r.state = "RUNNING" <=> r.owner # None
    /\ r.state = "RUNNING" <=> r.deadline # NoDeadline
    /\ r.state \in Terminal <=> r.finished = TRUE
    /\ r.state = "ABSENT" => r.version = 0

RowsOK == \A j \in JobIds : RowOK(jobs[j])

LEMMA StoreRow ==
    ASSUME TypeOK, RowsOK, NEW j \in JobIds, NEW row \in Job, RowOK(row),
           NEW type \in EventTypes, NEW id \in EventIds, Store(j, row, type, id)
    PROVE  RowsOK'
<1>1. RowOK(WithCursor(events, id, row))
  BY Zenon DEF WithCursor, RowOK, Job
<1>2. \A k \in JobIds : jobs'[k] = IF k = j THEN WithCursor(events, id, row) ELSE jobs[k]
  BY Zenon DEF Store, TypeOK
<1> QED BY <1>1, <1>2, Zenon DEF RowsOK

LEMMA BumpRow ==
    ASSUME TypeOK, RowsOK, NEW j \in JobIds, NEW row \in Job, RowOK(row),
           row.state # "ABSENT", NEW type \in EventTypes, Bump(j, row, type)
    PROVE  RowsOK'
<1> DEFINE v == jobs[j].version + 1
           next == [row EXCEPT !.version = v]
<1>1. v \in Nat
  BY DEF TypeOK, Job
<1>2. next \in Job
  BY <1>1, Zenon DEF Job
<1>3. /\ next.state = row.state /\ next.owner = row.owner
      /\ next.deadline = row.deadline /\ next.finished = row.finished
  BY <1>1, Zenon DEF Job
<1>4. EventId(j, type, v) \in EventIds
  BY <1>1, EventIdType, Zenon
<1>5. Store(j, next, type, EventId(j, type, v))
  BY Zenon DEF Bump
<1> HIDE DEF next, v
<1>6. RowOK(next)
  BY <1>3, Zenon DEF RowOK
<1> QED BY <1>2, <1>4, <1>5, <1>6, StoreRow, Zenon

(* A transition whose new row has the lease and finish fields that its     *)
(* target state asks for.                                                  *)
LEMMA TransitionRow ==
    ASSUME TypeOK, RowsOK, NEW j \in JobIds, NEW row \in Job, NEW target \in States,
           target = "RUNNING" <=> row.owner # None,
           target = "RUNNING" <=> row.deadline # NoDeadline,
           target \in Terminal <=> row.finished = TRUE,
           NEW type \in EventTypes, Transition(j, target, row, type)
    PROVE  RowsOK'
<1> DEFINE next == [row EXCEPT !.state = target]
<1>1. /\ next \in Job /\ next.state = target /\ next.owner = row.owner
      /\ next.deadline = row.deadline /\ next.finished = row.finished
  BY Zenon DEF Job
<1>2. Bump(j, next, type)
  BY Zenon DEF Transition
<1>3. target # "ABSENT"
  BY Zenon DEF States
<1> HIDE DEF next
<1>4. RowOK(next)
  BY <1>1, <1>3, Zenon DEF RowOK
<1> QED BY <1>1, <1>2, <1>3, <1>4, BumpRow, Zenon

LEMMA UnleasedFields ==
    ASSUME NEW row \in Job
    PROVE  /\ [Unleased(row) EXCEPT !.finished = TRUE].owner = None
           /\ [Unleased(row) EXCEPT !.finished = TRUE].deadline = NoDeadline
           /\ [Unleased(row) EXCEPT !.finished = TRUE].finished = TRUE
BY Zenon DEF Unleased, Job

LEMMA RowStep ==
    ASSUME TypeOK, RowsOK, [Next]_vars
    PROVE  RowsOK'
<1>0. CASE UNCHANGED vars
  BY <1>0, Zenon DEF vars, RowsOK
<1>T. \A j \in JobIds : jobs[j] \in Job /\ RowOK(jobs[j])
  BY Zenon DEF TypeOK, RowsOK
<1>1. ASSUME NEW j \in JobIds, NEW k \in CreateKeys \cup {None},
             NEW m \in 0..MaxRetries, Create(j, k, m)
      PROVE  RowsOK'
  <2>0. m \in Nat
    BY BoundsAssumption
  <2>1. RowOK(NewJob(j, k, m, None))
    BY <2>0, NewJobFields, Zenon DEF RowOK, Terminal
  <2>2. jobs' = [jobs EXCEPT ![j] = NewJob(j, k, m, None)]
    BY <1>1, Zenon DEF Create
  <2> QED BY <1>T, <2>1, <2>2, Zenon DEF RowsOK, TypeOK
<1>2. ASSUME NEW j \in JobIds, NEW p \in JobIds, NEW k \in CreateKeys \cup {None},
             NEW m \in 0..MaxRetries, CreateChild(j, k, m, p)
      PROVE  RowsOK'
  <2> DEFINE new == NewJob(j, k, m, p)
             inserted == [jobs EXCEPT ![j] = new]
             parent == Linked(inserted[p], p, j)
  <2>0. m \in Nat
    BY BoundsAssumption
  <2>1. new \in Job /\ RowOK(new) /\ new.state # "ABSENT"
    BY <2>0, NewJobType, NewJobFields, Zenon DEF RowOK, Terminal
  <2>2. inserted[p] \in Job /\ RowOK(inserted[p]) /\ inserted[p].state # "ABSENT"
    BY <1>2, <1>T, <2>1, Zenon DEF CreateChild, Exists, TypeOK
  <2>3. /\ parent.state = inserted[p].state /\ parent.owner = inserted[p].owner
        /\ parent.deadline = inserted[p].deadline /\ parent.finished = inserted[p].finished
    BY <2>2, Zenon DEF Linked, Job
  <2>4. jobs' = [inserted EXCEPT ![p] = parent]
    BY <1>2, Zenon DEF CreateChild
  <2>5. \A i \in JobIds : i # p => inserted[i] = new \/ inserted[i] = jobs[i]
    BY Zenon DEF TypeOK
  <2>6. inserted \in [JobIds -> Job]
    BY <2>1, Zenon DEF TypeOK
  <2> HIDE DEF new, inserted, parent
  <2>7. RowOK(parent)
    BY <2>2, <2>3, Zenon DEF RowOK
  <2> QED BY <1>T, <2>1, <2>4, <2>5, <2>6, <2>7, Zenon DEF RowsOK
<1>3. ASSUME NEW j \in JobIds, NEW o \in Owners, NEW d \in Deadlines, MarkRunning(j, o, d)
      PROVE  RowsOK'
  <2> DEFINE row == [jobs[j] EXCEPT !.owner = o, !.deadline = d]
  <2>0. d \in Nat /\ d # NoDeadline /\ o # None
    BY BoundsAssumption, IdsAssumption DEF Deadlines, NoDeadline
  <2>1. row \in Job
    BY <1>T, <2>0, RowUpdates, Zenon
  <2>2. row.owner = o /\ row.deadline = d /\ row.finished = jobs[j].finished
    BY <1>T DEF Job
  <2>3. Transition(j, "RUNNING", row, "running")
    BY <1>3, Zenon DEF MarkRunning
  <2>4. jobs[j].state = "QUEUED"
    BY <2>3, <1>T, Zenon DEF Transition, Exists, AllowedTransitions, Job, States
  <2>5. jobs[j].finished # TRUE
    BY <1>T, <2>4, Zenon DEF RowOK, Terminal
  <2> HIDE DEF row
  <2> QED BY <2>0, <2>1, <2>2, <2>3, <2>5, TransitionRow, Zenon DEF States, Terminal, EventTypes
<1>4. ASSUME NEW j \in JobIds, NEW o \in Owners, NEW d \in Deadlines, RenewLease(j, o, d)
      PROVE  RowsOK'
  <2> DEFINE row == [jobs[j] EXCEPT !.deadline = d]
  <2>0. d \in Nat /\ d # NoDeadline /\ o # None
    BY BoundsAssumption, IdsAssumption DEF Deadlines, NoDeadline
  <2>1. row \in Job
    BY <1>T, <2>0, RowUpdates, Zenon
  <2>2. /\ row.owner = jobs[j].owner /\ row.deadline = d
        /\ row.finished = jobs[j].finished /\ row.state = jobs[j].state
    BY <1>T DEF Job
  <2>3. Bump(j, row, "lease_renewed") /\ jobs[j].owner = o
    BY <1>4, Zenon DEF RenewLease, LiveLease
  <2>4. jobs[j].state = "RUNNING"
    BY <1>T, <2>0, <2>3, Zenon DEF RowOK
  <2> HIDE DEF row
  <2>5. RowOK(row) /\ row.state # "ABSENT"
    BY <1>T, <2>0, <2>2, <2>4, Zenon DEF RowOK
  <2> QED BY <2>1, <2>3, <2>5, BumpRow, Zenon DEF EventTypes
<1>5. ASSUME NEW j \in JobIds, NEW target \in Terminal, NEW type \in EventTypes,
             Transition(j, target, [Unleased(jobs[j]) EXCEPT !.finished = TRUE], type)
      PROVE  RowsOK'
  <2> DEFINE row == [Unleased(jobs[j]) EXCEPT !.finished = TRUE]
  <2>1. row \in Job /\ row.owner = None /\ row.deadline = NoDeadline /\ row.finished = TRUE
    <3>1. [Unleased(jobs[j]) EXCEPT !.finished = TRUE] \in Job
      <4>1. None \in Owners \cup {None} /\ 0 \in Nat
        BY Zenon
      <4> QED BY <1>T, <4>1, RowUpdates, Zenon
    <3> QED BY <1>T, <3>1, UnleasedFields, Zenon
  <2>2. target \in States /\ target # "RUNNING"
    BY Zenon DEF Terminal, States
  <2>3. Transition(j, target, row, type)
    BY <1>5, Zenon
  <2> HIDE DEF row
  <2> QED BY <2>1, <2>2, <2>3, TransitionRow, Zenon
<1>6. ASSUME NEW j \in JobIds, NEW o \in Owners, MarkSucceeded(j, o)
      PROVE  RowsOK'
  BY <1>5, <1>6, Zenon DEF MarkSucceeded, Terminal, EventTypes
<1>7. ASSUME NEW j \in JobIds, NEW o \in Owners \cup {None}, MarkFailed(j, o)
      PROVE  RowsOK'
  BY <1>5, <1>7, Zenon DEF MarkFailed, Terminal, EventTypes
<1>8. ASSUME NEW j \in JobIds, NEW key \in CancelKeys \cup {None}, Cancel(j, key)
      PROVE  RowsOK'
  <2> DEFINE v == jobs[j].version + 1
             id == IF key = None THEN EventId(j, "canceled", v) ELSE key
             row == [Unleased(jobs[j]) EXCEPT !.state = "CANCELED", !.finished = TRUE,
                                              !.version = v]
  <2>1. v \in Nat
    BY <1>T DEF Job
  <2>2. id \in EventIds
    BY <2>1, EventIdType, Zenon DEF EventIds, EventTypes
  <2>3. row \in Job /\ row.state = "CANCELED"
    BY <1>T, <2>1, RowUpdates, Zenon
  <2>4. row.owner = None /\ row.deadline = NoDeadline /\ row.finished = TRUE
    BY <1>T DEF Unleased, Job
  <2>5. Store(j, row, "canceled", id)
    BY <1>8, Zenon DEF Cancel
  <2> HIDE DEF v, id, row
  <2>6. RowOK(row)
    BY <2>3, <2>4, Zenon DEF RowOK, Terminal
  <2> QED BY <2>2, <2>3, <2>5, <2>6, StoreRow, Zenon DEF EventTypes
<1>9. ASSUME NEW j \in JobIds, Retry(j)
      PROVE  RowsOK'
  <2> DEFINE row == [jobs[j] EXCEPT !.retries = @ + 1, !.finished = FALSE]
  <2>0. jobs[j].retries + 1 \in Nat
    BY <1>T DEF Job
  <2>1. row \in Job
    BY <1>T, <2>0, RowUpdates, Zenon
  <2>2. row.owner = jobs[j].owner /\ row.deadline = jobs[j].deadline /\ row.finished = FALSE
    BY <1>T DEF Job
  <2>3. Transition(j, "QUEUED", row, "retried")
    BY <1>9, Zenon DEF Retry
  <2>4. jobs[j].state # "RUNNING"
    BY <2>3, Zenon DEF Transition, AllowedTransitions, States
  <2> HIDE DEF row
  <2>5. row.owner = None /\ row.deadline = NoDeadline
    BY <1>T, <2>2, <2>4, Zenon DEF RowOK
  <2> QED BY <2>1, <2>2, <2>3, <2>5, TransitionRow, Zenon DEF States, Terminal, EventTypes
<1>10. ASSUME NEW order \in Orders(ExpiredJobs), RecoverLostLeases(order)
       PROVE  RowsOK'
  <2>1. ASSUME NEW j \in JobIds PROVE RowOK(LostRow(j))
    <3>1. /\ LostRow(j).state = "LOST" /\ LostRow(j).owner = None
          /\ LostRow(j).deadline = NoDeadline /\ LostRow(j).finished = TRUE
      BY <1>T DEF LostRow, Unleased, Job
    <3> QED BY <3>1, Zenon DEF RowOK, Terminal
  <2>2. \A j \in JobIds : jobs'[j] = IF Expired(j) THEN LostRow(j) ELSE jobs[j]
    BY <1>10, Zenon DEF RecoverLostLeases
  <2> QED BY <1>T, <2>1, <2>2, Zenon DEF RowsOK
<1>11. ASSUME NEW t \in 0..MaxTime, ClockStep(t)
       PROVE  RowsOK'
  BY <1>11, Zenon DEF ClockStep, RowsOK
<1> QED BY <1>0, <1>1, <1>2, <1>3, <1>4, <1>6, <1>7, <1>8, <1>9, <1>10, <1>11, Zenon DEF Next

LEMMA LogStep ==
    ASSUME TypeOK, RowsOK, LogOK(jobs, events), [Next]_vars
    PROVE  LogOK(jobs, events)'
<1>0. CASE UNCHANGED vars
  BY <1>0, Zenon DEF vars
<1>T. \A j \in JobIds : jobs[j] \in Job /\ RowOK(jobs[j])
  BY Zenon DEF TypeOK, RowsOK
<1>A. AbsentVersion
  BY <1>T, Zenon DEF AbsentVersion, Exists, RowOK
<1>1. ASSUME NEW j \in JobIds, NEW row \in Job, NEW target \in States,
             NEW type \in EventTypes, Transition(j, target, row, type)
      PROVE  LogOK(jobs, events)'
  <2>1. jobs[j].state # "CANCELED"
    BY <1>1, Zenon DEF Transition, AllowedTransitions, States
  <2>2. [row EXCEPT !.state = target] \in Job /\ [row EXCEPT !.state = target].state \in States
    BY Zenon DEF Job
  <2> QED BY <1>1, <2>1, <2>2, BumpLog, Zenon DEF Transition
<1>2. ASSUME NEW j \in JobIds, NEW k \in CreateKeys \cup {None},
             NEW m \in 0..MaxRetries, Create(j, k, m)
      PROVE  LogOK(jobs, events)'
  <2>1. m \in Nat
    BY BoundsAssumption
  <2> QED BY <1>2, <1>A, <2>1, CreateLog, Zenon
<1>3. ASSUME NEW j \in JobIds, NEW p \in JobIds, NEW k \in CreateKeys \cup {None},
             NEW m \in 0..MaxRetries, CreateChild(j, k, m, p)
      PROVE  LogOK(jobs, events)'
  <2>1. m \in Nat
    BY BoundsAssumption
  <2> QED BY <1>3, <1>A, <2>1, CreateChildLog, CreateSelfLog, Zenon
<1>4. ASSUME NEW j \in JobIds, NEW o \in Owners, NEW d \in Deadlines, MarkRunning(j, o, d)
      PROVE  LogOK(jobs, events)'
  <2>0. d \in Nat
    BY BoundsAssumption DEF Deadlines
  <2>1. [jobs[j] EXCEPT !.owner = o, !.deadline = d] \in Job
    BY <1>T, <2>0, RowUpdates, Zenon
  <2> QED BY <1>1, <1>4, <2>1, Zenon DEF MarkRunning, States, EventTypes
<1>5. ASSUME NEW j \in JobIds, NEW o \in Owners, NEW d \in Deadlines, RenewLease(j, o, d)
      PROVE  LogOK(jobs, events)'
  <2>0. d \in Nat /\ o # None
    BY BoundsAssumption, IdsAssumption DEF Deadlines
  <2>1. /\ [jobs[j] EXCEPT !.deadline = d] \in Job
        /\ [jobs[j] EXCEPT !.deadline = d].state = jobs[j].state
    BY <1>T, <2>0, RowUpdates, Zenon
  <2>2. jobs[j].state = "RUNNING"
    BY <1>5, <1>T, <2>0, Zenon DEF RenewLease, LiveLease, RowOK
  <2> QED BY <1>5, <2>1, <2>2, BumpLog, Zenon DEF RenewLease, States, EventTypes
<1>6. ASSUME NEW j \in JobIds PROVE [Unleased(jobs[j]) EXCEPT !.finished = TRUE] \in Job
  <2>1. None \in Owners \cup {None} /\ 0 \in Nat
    BY Zenon
  <2> QED BY <1>T, <2>1, RowUpdates, Zenon
<1>7. ASSUME NEW j \in JobIds, NEW o \in Owners, MarkSucceeded(j, o)
      PROVE  LogOK(jobs, events)'
  BY <1>1, <1>6, <1>7, Zenon DEF MarkSucceeded, States, EventTypes
<1>8. ASSUME NEW j \in JobIds, NEW o \in Owners \cup {None}, MarkFailed(j, o)
      PROVE  LogOK(jobs, events)'
  BY <1>1, <1>6, <1>8, Zenon DEF MarkFailed, States, EventTypes
<1>9. ASSUME NEW j \in JobIds, Retry(j)
      PROVE  LogOK(jobs, events)'
  <2>0. jobs[j].retries + 1 \in Nat
    BY <1>T DEF Job
  <2>1. [jobs[j] EXCEPT !.retries = @ + 1, !.finished = FALSE] \in Job
    BY <1>T, <2>0, RowUpdates, Zenon
  <2> QED BY <1>1, <1>9, <2>1, Zenon DEF Retry, States, EventTypes
<1>10. ASSUME NEW t \in 0..MaxTime, ClockStep(t)
       PROVE  LogOK(jobs, events)'
  BY <1>10, Zenon DEF ClockStep
<1> QED BY <1>0, <1>2, <1>3, <1>4, <1>5, <1>7, <1>8, <1>9, <1>10, CancelLog, RecoverLog, Zenon
        DEF Next

(* The conjunction that is inductive.                                      *)
IInv == TypeOK /\ RowsOK /\ LogOK(jobs, events)

LEMMA InitInv == Init => IInv
<1>1. SUFFICES ASSUME Init PROVE IInv
  BY Zenon
<1>2. TypeOK
  BY <1>1, AbsentType DEF Init, TypeOK
<1>3. RowsOK
  BY <1>1, Zenon DEF Init, RowsOK, RowOK, Absent, Terminal, NoDeadline
<1>4. LogOK(jobs, events)
  <2>1. /\ DOMAIN events = {}
        /\ \A j \in JobIds : jobs[j].version = 0
    BY <1>1 DEF Init, Absent
  <2> QED BY <2>1 DEF LogOK
<1> QED BY <1>2, <1>3, <1>4, Zenon DEF IInv

(* Every reachable state of the store: types, rows and their journal agree. *)
THEOREM JobStoreInductive == Spec => []IInv
<1>1. Init => IInv
  BY InitInv, Zenon
<1>2. IInv /\ [Next]_vars => IInv'
  BY TypeStep, RowStep, LogStep, Zenon DEF IInv
<1> QED BY <1>1, <1>2, PTL DEF Spec

(* Whatever the number of callers and however the clock jumps, a row has   *)
(* lease fields exactly while it is RUNNING and a finish time exactly      *)
(* while it is terminal.                                                   *)
THEOREM JobStoreLifecycle == Spec => []LifecycleFields
<1>1. IInv => LifecycleFields
  <2>1. SUFFICES ASSUME IInv, NEW j \in JobIds
                 PROVE  /\ jobs[j].state = "RUNNING" <=> jobs[j].owner # None
                        /\ jobs[j].state = "RUNNING" <=> jobs[j].deadline # NoDeadline
                        /\ jobs[j].state \in Terminal <=> jobs[j].finished
    BY Zenon DEF LifecycleFields
  <2>2. RowOK(jobs[j]) /\ jobs[j].finished \in BOOLEAN
    BY <2>1, Zenon DEF IInv, RowsOK, TypeOK, Job
  <2> QED BY <2>2, Zenon DEF RowOK
<1> QED BY <1>1, JobStoreInductive, PTL

(* Every version of every row has exactly one event, but for a             *)
(* cancellation under a key that was used before.                          *)
THEOREM JobStoreEventPerVersion == Spec => []EventPerVersion
<1>1. IInv => EventPerVersion
  <2> SUFFICES ASSUME IInv, NEW j \in JobIds
               PROVE  /\ \A a, b \in EventsOf(j) : events[a].version = events[b].version => a = b
                      /\ \A a \in EventsOf(j) : events[a].version \in 1..jobs[j].version
                      /\ \A v, w \in Unlogged(j) : v = w /\ jobs[j].state = "CANCELED"
    BY Zenon DEF EventPerVersion
  <2>1. LogOK(jobs, events)
    BY Zenon DEF IInv
  <2>2. \A a, b \in EventsOf(j) : events[a].version = events[b].version => a = b
    BY <2>1, Zenon DEF LogOK, EventsOf
  <2>3. \A a \in DOMAIN events : events[a].version \in Nat
    <3>1. \A a \in DOMAIN events : events[a] \in Event
      BY DEF IInv, TypeOK
    <3> QED BY <3>1, Zenon DEF Event
  <2>4. \A a \in EventsOf(j) : events[a].version \in 1..jobs[j].version
    BY <2>1, <2>3 DEF LogOK, EventsOf, IInv, TypeOK, Job
  <2>5. \A v \in Unlogged(j) : v \in 1..jobs[j].version /\ ~LoggedAt(events, j, v)
    BY Zenon DEF Unlogged, EventsOf, LoggedAt
  <2>6. \A v, w \in Unlogged(j) : v = w /\ jobs[j].state = "CANCELED"
    BY <2>1, <2>5, Zenon DEF LogOK
  <2> QED BY <2>2, <2>4, <2>6, Zenon
<1> QED BY <1>1, JobStoreInductive, PTL

-----------------------------------------------------------------------------
(* The history of a job.                                                   *)

Starts(j) == {i \in EventsOf(j) : events[i].type = "running"}

(* StartsWithinBudget, one start less while the job waits in the queue for *)
(* the next one.                                                           *)
BudgetOK(j) ==
    /\ jobs[j].retries <= jobs[j].maxRetries
    /\ Cardinality(Starts(j)) <= jobs[j].retries + 1
    /\ jobs[j].state = "QUEUED" => Cardinality(Starts(j)) <= jobs[j].retries

HistoryInv == IInv /\ LogReplays /\ \A j \in JobIds : BudgetOK(j)

(* What one step may do to one job and to its events.                      *)
Grown ==
    /\ DOMAIN events \subseteq DOMAIN events'
    /\ \A i \in DOMAIN events : events'[i] = events[i]

Fresh(j) == {i \in DOMAIN events' \ DOMAIN events : events'[i].job = j}

(* The row moves to its next version for a reason that type names.         *)
Made(j, type) ==
    /\ jobs[j].state = "ABSENT" /\ jobs'[j].state = "QUEUED" /\ type = "created"
    /\ jobs'[j].retries = 0

Touched(j, type) ==
    /\ jobs[j].state # "ABSENT" /\ jobs'[j].state = jobs[j].state /\ type # "running"
    /\ jobs'[j].retries = jobs[j].retries /\ jobs'[j].maxRetries = jobs[j].maxRetries

Turned(j, type) ==
    /\ jobs[j].state \in States
    /\ jobs'[j].state \in AllowedTransitions[jobs[j].state]
    /\ jobs'[j].maxRetries = jobs[j].maxRetries
    /\ jobs'[j].state = "QUEUED" =>
           jobs'[j].retries = jobs[j].retries + 1 /\ jobs'[j].retries <= jobs[j].maxRetries
    /\ jobs'[j].state # "QUEUED" => jobs'[j].retries = jobs[j].retries
    /\ type = "running" => jobs'[j].state = "RUNNING"
    /\ jobs'[j].state = "LOST" => Expired(j)

Kept(j) == jobs'[j] = jobs[j] /\ Fresh(j) = {}

Moved(j) ==
    \E x \in DOMAIN events' \ DOMAIN events :
        /\ Fresh(j) = {x}
        /\ jobs'[j].version = jobs[j].version + 1
        /\ events'[x].version = jobs'[j].version
        /\ events'[x].state = jobs'[j].state
        /\ events'[x].id = jobs'[j].cursor
        /\ \/ Made(j, events'[x].type)
           \/ Touched(j, events'[x].type)
           \/ Turned(j, events'[x].type)

(* A cancellation whose event was dropped.                                 *)
Dropped(j) ==
    /\ Fresh(j) = {}
    /\ jobs'[j].version = jobs[j].version + 1
    /\ jobs'[j].cursor = jobs[j].cursor
    /\ jobs[j].state # "ABSENT" /\ jobs'[j].state = "CANCELED"
    /\ jobs'[j].retries = jobs[j].retries /\ jobs'[j].maxRetries = jobs[j].maxRetries

(* A job created as its own child.                                         *)
SelfMade(j) ==
    \E x, y \in DOMAIN events' \ DOMAIN events :
        /\ Fresh(j) = {x, y}
        /\ jobs[j].version = 0 /\ jobs'[j].version = 2
        /\ jobs[j].state = "ABSENT" /\ jobs'[j].state = "QUEUED"
        /\ jobs'[j].retries = 0
        /\ events'[x].version = 2 /\ events'[x].state = "QUEUED"
        /\ events'[x].type # "running" /\ events'[x].id = jobs'[j].cursor
        /\ events'[y].version = 1 /\ events'[y].state = "QUEUED"
        /\ events'[y].type # "running"

Told(j) == Kept(j) \/ Moved(j) \/ Dropped(j) \/ SelfMade(j)

(* The events of a job after a step are the old ones and the fresh ones.   *)
LEMMA EventsGrow ==
    ASSUME Grown, NEW j \in JobIds
    PROVE  /\ EventsOf(j)' = EventsOf(j) \cup Fresh(j)
           /\ \A i \in EventsOf(j) : events'[i] = events[i]
BY Zenon DEF Grown, EventsOf, Fresh

LEMMA StartsAreFinite ==
    ASSUME TypeOK, NEW j \in JobIds
    PROVE  IsFiniteSet(Starts(j)) /\ Cardinality(Starts(j)) \in Nat
<1>1. IsFiniteSet(DOMAIN events)
  <2>1. Len(events) \in Nat /\ DOMAIN events = 1..Len(events)
    BY DEF TypeOK
  <2> QED BY <2>1, FS_Interval
<1>2. Starts(j) \subseteq DOMAIN events
  BY Zenon DEF Starts, EventsOf
<1> QED BY <1>1, <1>2, FS_Subset, FS_CardinalityType, Zenon

LEMMA EventTyped ==
    ASSUME TypeOK, LogOK(jobs, events), NEW j \in JobIds, NEW a \in EventsOf(j)
    PROVE  /\ events[a].version \in Nat /\ events[a].state \in States
           /\ 1 <= events[a].version /\ events[a].version <= jobs[j].version
<1>1. a \in DOMAIN events /\ events[a] \in Event /\ events[a].job = j
  BY DEF EventsOf, TypeOK
<1> QED BY <1>1, Zenon DEF LogOK, Event

(* The log replays after a step, job by job.                               *)
Replays(j) ==
    /\ \A a, b \in EventsOf(j) : events[b].version = events[a].version + 1 =>
           \/ events[b].state = events[a].state
           \/ events[b].state \in AllowedTransitions[events[a].state]
    /\ \A a \in EventsOf(j) :
           events[a].version = jobs[j].version => events[a].state = jobs[j].state
    /\ Exists(j) => \E a \in EventsOf(j) :
           /\ events[a].id = jobs[j].cursor
           /\ \A b \in EventsOf(j) : events[b].version <= events[a].version

LEMMA ReplaysKept ==
    ASSUME IInv, IInv', Grown, NEW j \in JobIds, Replays(j), Kept(j)
    PROVE  Replays(j)'
<1>1. EventsOf(j)' = EventsOf(j) /\ jobs'[j] = jobs[j]
  BY EventsGrow, Zenon DEF Kept
<1>2. \A i \in EventsOf(j) : events'[i] = events[i]
  BY EventsGrow, Zenon
<1> QED BY <1>1, <1>2, Zenon DEF Replays, Exists

LEMMA ReplaysDropped ==
    ASSUME IInv, IInv', Grown, NEW j \in JobIds, Replays(j), Dropped(j)
    PROVE  Replays(j)'
<1>1. EventsOf(j)' = EventsOf(j)
  BY EventsGrow, Zenon DEF Dropped
<1>2. \A i \in EventsOf(j) : events'[i] = events[i]
  BY EventsGrow, Zenon
<1>3. \A a \in EventsOf(j) : events[a].version # jobs'[j].version
  <2>1. jobs[j].version \in Nat
    BY Zenon DEF IInv, TypeOK, Job
  <2>2. \A a \in EventsOf(j) : events[a].version \in Nat /\ events[a].version <= jobs[j].version
    BY EventTyped, Zenon DEF IInv
  <2> QED BY <2>1, <2>2 DEF Dropped
<1> QED BY <1>1, <1>2, <1>3, Zenon DEF Replays, Exists, Dropped

LEMMA ReplaysMoved ==
    ASSUME IInv, IInv', Grown, NEW j \in JobIds, Replays(j), Moved(j)
    PROVE  Replays(j)'
<1>1. PICK x \in DOMAIN events' \ DOMAIN events :
        /\ Fresh(j) = {x}
        /\ jobs'[j].version = jobs[j].version + 1
        /\ events'[x].version = jobs'[j].version
        /\ events'[x].state = jobs'[j].state
        /\ events'[x].id = jobs'[j].cursor
        /\ \/ Made(j, events'[x].type)
           \/ Touched(j, events'[x].type)
           \/ Turned(j, events'[x].type)
  BY Zenon DEF Moved
<1>2. /\ EventsOf(j)' = EventsOf(j) \cup {x}
      /\ \A i \in EventsOf(j) : events'[i] = events[i]
  BY <1>1, EventsGrow, Zenon
<1>3. \A a \in EventsOf(j) : /\ events[a].version \in Nat
                             /\ 1 <= events[a].version
                             /\ events[a].version <= jobs[j].version
  BY EventTyped, Zenon DEF IInv
<1>4. jobs[j].version \in Nat
  BY Zenon DEF IInv, TypeOK, Job
<1>5. ASSUME NEW a \in EventsOf(j), events[a].version = jobs[j].version
      PROVE  \/ events'[x].state = events[a].state
             \/ events'[x].state \in AllowedTransitions[events[a].state]
  <2>1. events[a].state = jobs[j].state
    BY <1>5, Zenon DEF Replays
  <2>2. jobs[j].state # "ABSENT"
    <3>1. jobs[j].state = "ABSENT" => jobs[j].version = 0
      BY Zenon DEF IInv, RowsOK, RowOK
    <3> QED BY <3>1, <1>3, <1>5
  <2> QED BY <1>1, <2>1, <2>2, Zenon DEF Made, Touched, Turned
<1>6. ASSUME NEW a \in EventsOf(j)', NEW b \in EventsOf(j)',
             events'[b].version = events'[a].version + 1
      PROVE  \/ events'[b].state = events'[a].state
             \/ events'[b].state \in AllowedTransitions[events'[a].state]
  <2>1. CASE a \in EventsOf(j) /\ b \in EventsOf(j)
    BY <1>2, <1>6, <2>1, ZenonT(40) DEF Replays
  <2>2. CASE a \in EventsOf(j) /\ b = x
    <3>1. events'[a] = events[a] /\ events[a].version = jobs[j].version
      BY <1>1, <1>2, <1>3, <1>4, <1>6, <2>2
    <3> QED BY <1>5, <2>2, <3>1, Zenon
  <2>3. CASE a = x
    <3>1. b = x \/ b \in EventsOf(j)
      BY <1>2, Zenon
    <3>2. CASE b = x
      BY <1>1, <1>4, <1>6, <2>3, <3>2, Zenon
    <3>3. CASE b \in EventsOf(j)
      BY <1>1, <1>2, <1>3, <1>4, <1>6, <2>3, <3>3
    <3> QED BY <3>1, <3>2, <3>3, Zenon
  <2> QED BY <1>2, <2>1, <2>2, <2>3, Zenon
<1>7. ASSUME NEW a \in EventsOf(j)', events'[a].version = jobs'[j].version
      PROVE  events'[a].state = jobs'[j].state
  <2>1. a \notin EventsOf(j)
    BY <1>1, <1>2, <1>3, <1>4, <1>7
  <2> QED BY <1>1, <1>2, <2>1, Zenon
<1>8. \A b \in EventsOf(j)' : events'[b].version <= events'[x].version
  BY <1>1, <1>2, <1>3, <1>4
<1>9. x \in EventsOf(j)'
  BY <1>2, Zenon
<1> QED BY <1>1, <1>6, <1>7, <1>8, <1>9, Zenon DEF Replays

LEMMA ReplaysSelfMade ==
    ASSUME IInv, IInv', Grown, NEW j \in JobIds, Replays(j), SelfMade(j)
    PROVE  Replays(j)'
<1>1. PICK x, y \in DOMAIN events' \ DOMAIN events :
        /\ Fresh(j) = {x, y}
        /\ jobs[j].version = 0 /\ jobs'[j].version = 2
        /\ jobs'[j].state = "QUEUED"
        /\ events'[x].version = 2 /\ events'[x].state = "QUEUED"
        /\ events'[x].id = jobs'[j].cursor
        /\ events'[y].version = 1 /\ events'[y].state = "QUEUED"
  BY Zenon DEF SelfMade
<1>2. EventsOf(j) = {}
  <2>1. \A a \in EventsOf(j) : /\ events[a].version \in Nat
                               /\ 1 <= events[a].version
                               /\ events[a].version <= jobs[j].version
    BY EventTyped, Zenon DEF IInv
  <2> QED BY <1>1, <2>1
<1>3. EventsOf(j)' = {x, y}
  BY <1>1, <1>2, EventsGrow, Zenon
<1>4. \A a, b \in EventsOf(j)' : events'[b].state = events'[a].state
  BY <1>1, <1>3, Zenon
<1>5. \A a \in EventsOf(j)' : events'[a].state = jobs'[j].state
  BY <1>1, <1>3, Zenon
<1>6. \A b \in EventsOf(j)' : events'[b].version <= events'[x].version
  BY <1>1, <1>3
<1>7. x \in EventsOf(j)'
  BY <1>3, Zenon
<1> QED BY <1>1, <1>4, <1>5, <1>6, <1>7, Zenon DEF Replays

LEMMA StartsGrow ==
    ASSUME Grown, NEW j \in JobIds
    PROVE  Starts(j)' = Starts(j) \cup {i \in Fresh(j) : events'[i].type = "running"}
<1>1. /\ EventsOf(j)' = EventsOf(j) \cup Fresh(j)
      /\ \A i \in EventsOf(j) : events'[i] = events[i]
  BY EventsGrow, Zenon
<1>2. Starts(j)' = {i \in EventsOf(j)' : events'[i].type = "running"}
  BY Zenon DEF Starts
<1> QED BY <1>1, <1>2, Zenon DEF Starts

(* A start takes the job out of the queue, and only a retry puts it back.  *)
LEMMA BudgetStep ==
    ASSUME IInv, IInv', Grown, NEW j \in JobIds, BudgetOK(j), Told(j)
    PROVE  BudgetOK(j)'
<1> DEFINE c == Cardinality(Starts(j))
           d == Cardinality(Starts(j)')
<1>1. /\ jobs[j].retries \in Nat /\ jobs[j].maxRetries \in Nat
      /\ jobs'[j].retries \in Nat /\ jobs'[j].maxRetries \in Nat
  BY Zenon DEF IInv, TypeOK, Job
<1>2. IsFiniteSet(Starts(j)) /\ c \in Nat
  BY StartsAreFinite, Zenon DEF IInv
<1>3. /\ c <= jobs[j].retries + 1 /\ jobs[j].retries <= jobs[j].maxRetries
      /\ jobs[j].state = "QUEUED" => c <= jobs[j].retries
  BY Zenon DEF BudgetOK
<1>4. jobs[j].state = "ABSENT" => Starts(j) = {}
  <2>1. jobs[j].state = "ABSENT" => jobs[j].version = 0
    BY Zenon DEF IInv, RowsOK, RowOK
  <2>2. \A a \in EventsOf(j) : /\ events[a].version \in Nat
                               /\ 1 <= events[a].version
                               /\ events[a].version <= jobs[j].version
    BY EventTyped, Zenon DEF IInv
  <2>3. jobs[j].state = "ABSENT" => EventsOf(j) = {}
    BY <2>1, <2>2
  <2> QED BY <2>3, Zenon DEF Starts
<1>5. jobs[j].state = "ABSENT" => c = 0
  BY <1>4, FS_EmptySet, Zenon
<1>6. BudgetOK(j)' <=> /\ jobs'[j].retries <= jobs'[j].maxRetries
                       /\ d <= jobs'[j].retries + 1
                       /\ jobs'[j].state = "QUEUED" => d <= jobs'[j].retries
  BY Zenon DEF BudgetOK
<1>7. ASSUME \A i \in Fresh(j) : events'[i].type # "running" PROVE d = c
  <2>1. Starts(j)' = Starts(j)
    BY <1>7, StartsGrow, Zenon
  <2> QED BY <2>1, Zenon
<1> HIDE DEF c, d
<1>8. CASE Kept(j)
  BY <1>3, <1>6, <1>7, <1>8, Zenon DEF Kept
<1>9. CASE Dropped(j)
  <2>1. d = c
    BY <1>7, <1>9, Zenon DEF Dropped
  <2> QED BY <1>3, <1>6, <1>9, <2>1, Zenon DEF Dropped
<1>10. CASE SelfMade(j)
  <2>1. /\ \A i \in Fresh(j) : events'[i].type # "running"
        /\ jobs[j].state = "ABSENT" /\ jobs'[j].retries = 0
    BY <1>10, Zenon DEF SelfMade
  <2>2. d = 0
    BY <1>5, <1>7, <2>1, Zenon
  <2> QED BY <1>1, <1>6, <2>1, <2>2
<1>11. CASE Moved(j)
  <2>1. PICK x \in DOMAIN events' \ DOMAIN events :
          /\ Fresh(j) = {x}
          /\ \/ Made(j, events'[x].type)
             \/ Touched(j, events'[x].type)
             \/ Turned(j, events'[x].type)
    BY <1>11, Zenon DEF Moved
  <2>2. events'[x].type # "running" => d = c
    BY <1>7, <2>1, Zenon
  <2>3. CASE Made(j, events'[x].type)
    <3>1. d = 0 /\ jobs'[j].retries = 0
      BY <1>5, <2>2, <2>3, Zenon DEF Made
    <3> QED BY <1>1, <1>6, <3>1
  <2>4. CASE Touched(j, events'[x].type)
    BY <1>3, <1>6, <2>2, <2>4, Zenon DEF Touched
  <2>5. CASE Turned(j, events'[x].type)
    <3>1. CASE events'[x].type = "running"
      <4>1. Starts(j)' = Starts(j) \cup {x}
        BY <2>1, <3>1, StartsGrow, Zenon
      <4>2. d = c + 1
        <5>1. x \notin Starts(j)
          BY Zenon DEF Starts, EventsOf
        <5>2. Cardinality(Starts(j) \cup {x}) = Cardinality(Starts(j)) + 1
          BY <1>2, <5>1, FS_AddElement, Zenon
        <5> QED BY <1>2, <4>1, <5>2, Zenon DEF c, d
      <4>3. jobs'[j].state = "RUNNING" /\ jobs[j].state \in States
            /\ jobs'[j].state \in AllowedTransitions[jobs[j].state]
        BY <2>5, <3>1, Zenon DEF Turned
      <4>4. jobs[j].state = "QUEUED"
        BY <4>3, Zenon DEF AllowedTransitions, States
      <4>5. jobs'[j].retries = jobs[j].retries /\ jobs'[j].maxRetries = jobs[j].maxRetries
        BY <2>5, <4>3, Zenon DEF Turned
      <4> QED BY <1>1, <1>2, <1>3, <1>6, <4>2, <4>3, <4>4, <4>5
    <3>2. CASE events'[x].type # "running"
      <4>1. d = c
        BY <2>2, <3>2, Zenon
      <4>2. CASE jobs'[j].state = "QUEUED"
        BY <1>1, <1>2, <1>3, <1>6, <2>5, <4>1, <4>2 DEF Turned
      <4>3. CASE jobs'[j].state # "QUEUED"
        BY <1>3, <1>6, <2>5, <4>1, <4>3, Zenon DEF Turned
      <4> QED BY <4>2, <4>3, Zenon
    <3> QED BY <3>1, <3>2, Zenon
  <2> QED BY <2>1, <2>3, <2>4, <2>5, Zenon
<1> QED BY <1>8, <1>9, <1>10, <1>11, Zenon DEF Told

(* A row and its event, written together.                                  *)
LEMMA AppendTold ==
    ASSUME TypeOK, NEW j \in JobIds, NEW row \in Job, NEW e \in Event, e.job = j,
           jobs' = [jobs EXCEPT ![j] = row], events' = Append(events, e),
           row.version = jobs[j].version + 1, e.version = row.version,
           e.state = row.state, e.id = row.cursor,
           Made(j, e.type) \/ Touched(j, e.type) \/ Turned(j, e.type)
    PROVE  Grown /\ \A i \in JobIds : Told(i)
<1> DEFINE x == Len(events) + 1
<1>1. /\ DOMAIN events' = DOMAIN events \cup {x} /\ x \notin DOMAIN events
      /\ events'[x] = e
      /\ \A i \in DOMAIN events : events'[i] = events[i]
  BY DEF TypeOK
<1>2. jobs'[j] = row /\ \A i \in JobIds \ {j} : jobs'[i] = jobs[i]
  BY Zenon DEF TypeOK
<1> HIDE DEF x
<1>3. Grown
  BY <1>1, Zenon DEF Grown
<1>4. Fresh(j) = {x} /\ \A i \in JobIds \ {j} : Fresh(i) = {}
  BY <1>1, Zenon DEF Fresh
<1>5. Moved(j)
  BY <1>1, <1>2, <1>4, Zenon DEF Moved
<1>6. \A i \in JobIds \ {j} : Kept(i)
  BY <1>2, <1>4, Zenon DEF Kept
<1> QED BY <1>3, <1>5, <1>6, Zenon DEF Told

(* What Bump may be given: a row that keeps its state, or one that takes   *)
(* an allowed transition.                                                  *)
RowMove(j, row, type) ==
    /\ row.maxRetries = jobs[j].maxRetries
    /\ \/ /\ jobs[j].state # "ABSENT" /\ row.state = jobs[j].state /\ type # "running"
          /\ row.retries = jobs[j].retries
       \/ /\ jobs[j].state \in States
          /\ row.state \in AllowedTransitions[jobs[j].state]
          /\ row.state = "QUEUED" =>
                 row.retries = jobs[j].retries + 1 /\ row.retries <= jobs[j].maxRetries
          /\ row.state # "QUEUED" => row.retries = jobs[j].retries
          /\ type = "running" => row.state = "RUNNING"
          /\ row.state # "LOST"

LEMMA BumpTold ==
    ASSUME TypeOK, LogOK(jobs, events), NEW j \in JobIds, NEW row \in Job,
           row.state \in States, NEW type \in EventTypes, RowMove(j, row, type),
           Bump(j, row, type)
    PROVE  Grown /\ \A i \in JobIds : Told(i)
<1> DEFINE v == jobs[j].version + 1
           id == EventId(j, type, v)
           next == [row EXCEPT !.version = v]
           stored == [next EXCEPT !.cursor = id]
           e == [id |-> id, job |-> j, type |-> type, version |-> next.version,
                 state |-> next.state]
<1>1. v \in Nat /\ v > jobs[j].version
  BY DEF TypeOK, Job
<1>2. id \in EventIds
  BY <1>1, EventIdType, Zenon
<1>3. /\ next \in Job /\ next.version = v /\ next.state = row.state
      /\ next.retries = row.retries /\ next.maxRetries = row.maxRetries
  BY <1>1, Zenon DEF Job
<1>4. ~Logged(events, id)
  BY <1>1, FreshId, Zenon DEF TypeOK
<1>5. jobs' = [jobs EXCEPT ![j] = stored] /\ events' = Append(events, e)
  BY <1>4, Zenon DEF Bump, Store, WithCursor, WithEvent
<1>6. e \in Event /\ e.job = j /\ e.version = v /\ e.type = type /\ e.state = row.state
      /\ e.id = id
  BY <1>1, <1>2, <1>3, Zenon DEF Event
<1> HIDE DEF next, e, id
<1>7. /\ stored \in Job /\ stored.version = v /\ stored.state = row.state
      /\ stored.cursor = id
      /\ stored.retries = row.retries /\ stored.maxRetries = row.maxRetries
  BY <1>2, <1>3, Zenon DEF Job
<1> HIDE DEF stored
<1>8. jobs'[j] = stored
  BY <1>5, Zenon DEF TypeOK
<1>9. Touched(j, e.type) \/ Turned(j, e.type)
  BY <1>6, <1>7, <1>8, Zenon DEF RowMove, Touched, Turned
<1>10. stored.version = jobs[j].version + 1
  BY <1>7, Zenon DEF v
<1> HIDE DEF v
<1> QED BY <1>5, <1>6, <1>7, <1>9, <1>10, AppendTold, Zenon

LEMMA TransitionTold ==
    ASSUME TypeOK, LogOK(jobs, events), NEW j \in JobIds, NEW row \in Job,
           NEW target \in States \ {"LOST"}, NEW type \in EventTypes,
           Transition(j, target, row, type),
           row.maxRetries = jobs[j].maxRetries,
           target = "QUEUED" =>
               row.retries = jobs[j].retries + 1 /\ row.retries <= jobs[j].maxRetries,
           target # "QUEUED" => row.retries = jobs[j].retries,
           type = "running" => target = "RUNNING"
    PROVE  Grown /\ \A i \in JobIds : Told(i)
<1> DEFINE next == [row EXCEPT !.state = target]
<1>1. /\ next \in Job /\ next.state = target /\ next.retries = row.retries
      /\ next.maxRetries = row.maxRetries
  BY Zenon DEF Job
<1>2. /\ Bump(j, next, type) /\ jobs[j].state # "ABSENT"
      /\ target \in AllowedTransitions[jobs[j].state]
  BY Zenon DEF Transition, Exists
<1>3. jobs[j].state \in States
  BY <1>2, Zenon DEF TypeOK, Job
<1> HIDE DEF next
<1>4. RowMove(j, next, type)
  BY <1>1, <1>2, <1>3, Zenon DEF RowMove
<1> QED BY <1>1, <1>2, <1>4, BumpTold, Zenon

LEMMA CancelTold ==
    ASSUME TypeOK, LogOK(jobs, events), NEW j \in JobIds,
           NEW key \in CancelKeys \cup {None}, Cancel(j, key)
    PROVE  Grown /\ \A i \in JobIds : Told(i)
<1> DEFINE v == jobs[j].version + 1
           id == IF key = None THEN EventId(j, "canceled", v) ELSE key
           row == [Unleased(jobs[j]) EXCEPT !.state = "CANCELED", !.finished = TRUE,
                                            !.version = v]
           stored == [row EXCEPT !.cursor = id]
           e == [id |-> id, job |-> j, type |-> "canceled", version |-> row.version,
                 state |-> row.state]
<1>1. v \in Nat /\ jobs[j] \in Job
  BY DEF TypeOK, Job
<1>2. id \in EventIds
  BY <1>1, EventIdType, Zenon DEF EventIds, EventTypes
<1>3. row \in Job /\ row.state = "CANCELED"
  BY <1>1, RowUpdates, Zenon DEF TypeOK
<1>4. /\ row.version = v /\ row.retries = jobs[j].retries
      /\ row.maxRetries = jobs[j].maxRetries /\ row.cursor = jobs[j].cursor
  BY <1>1, Zenon DEF Unleased, Job
<1>5. /\ jobs[j].state # "ABSENT" /\ "CANCELED" \in AllowedTransitions[jobs[j].state]
      /\ jobs[j].state \in States
  BY <1>1, Zenon DEF Cancel, Exists, Job
<1>6. jobs' = [jobs EXCEPT ![j] = WithCursor(events, id, row)]
      /\ events' = WithEvent(events, id, j, "canceled", row)
  BY Zenon DEF Cancel, Store
<1>7. /\ e \in Event /\ e.job = j /\ e.version = v /\ e.type = "canceled"
      /\ e.state = "CANCELED" /\ e.id = id
  BY <1>1, <1>2, <1>3, <1>4, Zenon DEF Event, EventTypes, States
<1> HIDE DEF id, row, e, v
<1>8. CASE Logged(events, id)
  <2>1. jobs' = [jobs EXCEPT ![j] = row] /\ events' = events
    BY <1>6, <1>8, Zenon DEF WithCursor, WithEvent
  <2>2. jobs'[j] = row /\ \A i \in JobIds \ {j} : jobs'[i] = jobs[i]
    BY <2>1, Zenon DEF TypeOK
  <2>3. \A i \in JobIds : Fresh(i) = {}
    BY <2>1, Zenon DEF Fresh
  <2>4. Dropped(j)
    BY <1>3, <1>4, <1>5, <2>2, <2>3, Zenon DEF Dropped, v
  <2>5. Grown
    BY <2>1, Zenon DEF Grown
  <2>6. \A i \in JobIds \ {j} : Kept(i)
    BY <2>2, <2>3, Zenon DEF Kept
  <2> QED BY <2>4, <2>5, <2>6, Zenon DEF Told
<1>9. CASE ~Logged(events, id)
  <2>1. jobs' = [jobs EXCEPT ![j] = stored] /\ events' = Append(events, e)
    BY <1>6, <1>9, Zenon DEF WithCursor, WithEvent, e
  <2>2. /\ stored \in Job /\ stored.version = v /\ stored.state = "CANCELED"
        /\ stored.cursor = id /\ stored.retries = jobs[j].retries
        /\ stored.maxRetries = jobs[j].maxRetries
    BY <1>2, <1>3, <1>4, Zenon DEF Job
  <2> HIDE DEF stored
  <2>3. jobs'[j] = stored
    BY <2>1, Zenon DEF TypeOK
  <2>4. Turned(j, e.type)
    BY <1>5, <1>7, <2>2, <2>3, Zenon DEF Turned
  <2>5. stored.version = jobs[j].version + 1
    BY <2>2, Zenon DEF v
  <2> QED BY <1>7, <2>1, <2>2, <2>4, <2>5, AppendTold, Zenon
<1> QED BY <1>8, <1>9, Zenon

LEMMA NewJobMore ==
    ASSUME NEW j \in JobIds, NEW k \in CreateKeys \cup {None},
           NEW m \in Nat, NEW p \in JobIds \cup {None}
    PROVE  /\ NewJob(j, k, m, p).retries = 0
           /\ NewJob(j, k, m, p).maxRetries = m
           /\ NewJob(j, k, m, p).cursor = EventId(j, "created", 1)
BY Zenon DEF NewJob, Absent

LEMMA CreateTold ==
    ASSUME TypeOK, LogOK(jobs, events), AbsentVersion,
           NEW j \in JobIds, NEW k \in CreateKeys \cup {None}, NEW m \in Nat,
           Create(j, k, m)
    PROVE  Grown /\ \A i \in JobIds : Told(i)
<1> DEFINE new == NewJob(j, k, m, None)
           id == EventId(j, "created", 1)
           e == [id |-> id, job |-> j, type |-> "created", version |-> new.version,
                 state |-> new.state]
<1>1. /\ new \in Job /\ new.state = "QUEUED" /\ new.version = 1 /\ new.retries = 0
      /\ new.cursor = id
  <2>1. new \in Job
    BY NewJobType, Zenon
  <2>2. new.state = "QUEUED" /\ new.version = 1
    BY NewJobFields, Zenon
  <2>3. new.retries = 0 /\ new.cursor = id
    BY NewJobMore
  <2> QED BY <2>1, <2>2, <2>3, Zenon
<1>2. jobs[j].version = 0 /\ jobs[j].state = "ABSENT"
  BY Zenon DEF AbsentVersion, Create, Exists
<1>3. ~Logged(events, id)
  BY <1>2, FreshId DEF TypeOK, EventTypes
<1>4. jobs' = [jobs EXCEPT ![j] = new] /\ events' = Append(events, e)
  BY <1>3, Zenon DEF Create, WithEvent
<1>5. /\ e \in Event /\ e.job = j /\ e.version = 1 /\ e.type = "created" /\ e.id = id
      /\ e.state = "QUEUED"
  BY <1>1, EventIdType DEF Event, EventTypes, States
<1> HIDE DEF new, id, e
<1>6. jobs'[j] = new
  BY <1>4, Zenon DEF TypeOK
<1>7. Made(j, e.type)
  BY <1>1, <1>2, <1>5, <1>6, Zenon DEF Made
<1>8. new.version = jobs[j].version + 1 /\ e.version = new.version
  BY <1>1, <1>2, <1>5
<1> QED BY <1>1, <1>4, <1>5, <1>7, <1>8, AppendTold, Zenon

LEMMA CreateChildTold ==
    ASSUME TypeOK, LogOK(jobs, events), AbsentVersion,
           NEW j \in JobIds, NEW p \in JobIds, p # j,
           NEW k \in CreateKeys \cup {None}, NEW m \in Nat,
           CreateChild(j, k, m, p)
    PROVE  Grown /\ \A i \in JobIds : Told(i)
<1> DEFINE new == NewJob(j, k, m, p)
           parent == Linked(jobs[p], p, j)
           link == EventId(p, "child_linked", jobs[p].version + 1)
           id == EventId(j, "created", 1)
           e == [id |-> link, job |-> p, type |-> "child_linked",
                 version |-> parent.version, state |-> parent.state]
           f == [id |-> id, job |-> j, type |-> "created",
                 version |-> new.version, state |-> new.state]
           n == Len(events)
<1>1. new \in Job /\ new.state = "QUEUED" /\ new.version = 1
  BY NewJobType, NewJobFields, Zenon
<1>2. new.retries = 0 /\ new.cursor = id
  BY NewJobMore
<1>3. jobs[j].version = 0 /\ jobs[j].state = "ABSENT"
  BY Zenon DEF AbsentVersion, CreateChild, Exists
<1>4. jobs[p].state \in States /\ jobs[p] \in Job /\ jobs[p].version \in Nat
  BY Zenon DEF CreateChild, Exists, TypeOK, Job
<1>5. /\ parent \in Job /\ parent.state = jobs[p].state
      /\ parent.version = jobs[p].version + 1
  BY <1>4, LinkedType, Zenon
<1>6. /\ parent.cursor = link /\ parent.retries = jobs[p].retries
      /\ parent.maxRetries = jobs[p].maxRetries
  BY <1>4, Zenon DEF Linked, Job
<1>7. ~Logged(events, link) /\ ~Logged(events, id)
  BY <1>3, <1>4, FreshId DEF TypeOK, EventTypes
<1>8. link # id
  BY Zenon DEF EventId
<1>9. e \in Event /\ e.job = p /\ e.version = parent.version /\ e.type = "child_linked"
      /\ e.id = link /\ e.state = parent.state
  BY <1>4, <1>5, EventIdType DEF Event, EventTypes
<1>10. f \in Event /\ f.job = j /\ f.version = 1 /\ f.type = "created" /\ f.id = id
       /\ f.state = "QUEUED"
  BY <1>1, EventIdType DEF Event, EventTypes, States
<1>11. [jobs EXCEPT ![j] = new][p] = jobs[p]
  BY Zenon DEF TypeOK
<1>12. /\ jobs' = [[jobs EXCEPT ![j] = new] EXCEPT ![p] = parent]
       /\ events' = WithEvent(WithEvent(events, link, p, "child_linked", parent),
                              id, j, "created", new)
  BY <1>6, <1>11, Zenon DEF CreateChild
<1>13. WithEvent(events, link, p, "child_linked", parent) = Append(events, e)
  BY <1>7, Zenon DEF WithEvent
<1> HIDE DEF new, parent, link, id, e, f
<1>14. ~Logged(Append(events, e), id)
  BY <1>7, <1>8, <1>9 DEF Logged, TypeOK
<1>15. events' = Append(Append(events, e), f)
  BY <1>12, <1>13, <1>14, Zenon DEF WithEvent, f
<1>16. /\ n \in Nat /\ DOMAIN events = 1..n /\ DOMAIN events' = 1..(n + 2)
       /\ \A i \in DOMAIN events : events'[i] = events[i]
       /\ events'[n + 1] = e /\ events'[n + 2] = f
  BY <1>9, <1>10, <1>15 DEF TypeOK
<1> HIDE DEF n
<1>17. /\ DOMAIN events \subseteq DOMAIN events'
       /\ DOMAIN events' \ DOMAIN events = {n + 1, n + 2}
  BY <1>16
<1>18. Fresh(p) = {n + 1} /\ Fresh(j) = {n + 2} /\ \A i \in JobIds \ {p, j} : Fresh(i) = {}
  BY <1>9, <1>10, <1>16, <1>17, Zenon DEF Fresh
<1>19. jobs'[p] = parent /\ jobs'[j] = new /\ \A i \in JobIds \ {p, j} : jobs'[i] = jobs[i]
  BY <1>12, Zenon DEF TypeOK
<1>20. Grown
  BY <1>16, <1>17, Zenon DEF Grown
<1>21. Moved(p)
  <2>1. Touched(p, e.type)
    BY <1>4, <1>5, <1>6, <1>9, <1>19, Zenon DEF Touched, States
  <2>2. n + 1 \in DOMAIN events' \ DOMAIN events
    BY <1>17, Zenon
  <2> QED BY <1>5, <1>6, <1>9, <1>16, <1>18, <1>19, <2>1, <2>2, Zenon DEF Moved
<1>22. Moved(j)
  <2>1. Made(j, f.type)
    BY <1>1, <1>2, <1>3, <1>10, <1>19, Zenon DEF Made
  <2>2. n + 2 \in DOMAIN events' \ DOMAIN events
    BY <1>17, Zenon
  <2>3. jobs'[j].version = jobs[j].version + 1
    BY <1>1, <1>3, <1>19
  <2> QED BY <1>1, <1>2, <1>10, <1>16, <1>18, <1>19, <2>1, <2>2, <2>3, Zenon DEF Moved
<1>23. \A i \in JobIds \ {p, j} : Kept(i)
  BY <1>18, <1>19, Zenon DEF Kept
<1> QED BY <1>20, <1>21, <1>22, <1>23, Zenon DEF Told

LEMMA CreateSelfTold ==
    ASSUME TypeOK, LogOK(jobs, events), AbsentVersion, NEW j \in JobIds,
           NEW k \in CreateKeys \cup {None}, NEW m \in Nat,
           CreateChild(j, k, m, j)
    PROVE  Grown /\ \A i \in JobIds : Told(i)
<1> DEFINE new == NewJob(j, k, m, j)
           self == Linked(new, j, j)
           link == EventId(j, "child_linked", 2)
           id == EventId(j, "created", 1)
           e == [id |-> link, job |-> j, type |-> "child_linked",
                 version |-> self.version, state |-> self.state]
           f == [id |-> id, job |-> j, type |-> "created",
                 version |-> new.version, state |-> new.state]
           n == Len(events)
<1>1. new \in Job /\ new.state = "QUEUED" /\ new.version = 1
  BY NewJobType, NewJobFields, Zenon
<1>2. new.retries = 0
  BY NewJobMore, Zenon
<1>3. jobs[j].version = 0 /\ jobs[j].state = "ABSENT"
  BY Zenon DEF AbsentVersion, CreateChild, Exists
<1>4. self \in Job /\ self.state = "QUEUED" /\ self.version = 2
  BY <1>1, LinkedType
<1>5. self.cursor = link /\ self.retries = 0
  BY <1>1, <1>2 DEF Linked, Job
<1>6. [jobs EXCEPT ![j] = new][j] = new
  BY Zenon DEF TypeOK
<1>7. /\ jobs' = [[jobs EXCEPT ![j] = new] EXCEPT ![j] = self]
      /\ events' = WithEvent(WithEvent(events, link, j, "child_linked", self),
                             id, j, "created", new)
  BY <1>5, <1>6, Zenon DEF CreateChild
<1>8. ~Logged(events, link) /\ ~Logged(events, id)
  BY <1>3, FreshId DEF TypeOK, EventTypes
<1>9. e \in Event /\ f \in Event
  BY <1>1, <1>4, EventIdType DEF Event, EventTypes, States
<1>10. /\ e.job = j /\ e.version = 2 /\ e.state = "QUEUED" /\ e.type = "child_linked"
       /\ e.id = link
       /\ f.job = j /\ f.version = 1 /\ f.state = "QUEUED" /\ f.type = "created"
  BY <1>1, <1>4, Zenon
<1>11. link # id
  BY Zenon DEF EventId
<1>12. WithEvent(events, link, j, "child_linked", self) = Append(events, e)
  BY <1>8, Zenon DEF WithEvent
<1> HIDE DEF new, self, link, id, e, f
<1>13. ~Logged(Append(events, e), id)
  BY <1>8, <1>9, <1>10, <1>11 DEF Logged, TypeOK
<1>14. events' = Append(Append(events, e), f)
  BY <1>7, <1>12, <1>13, Zenon DEF WithEvent, f
<1>15. /\ n \in Nat /\ DOMAIN events = 1..n /\ DOMAIN events' = 1..(n + 2)
       /\ \A i \in DOMAIN events : events'[i] = events[i]
       /\ events'[n + 1] = e /\ events'[n + 2] = f
  BY <1>9, <1>14 DEF TypeOK
<1>16. jobs'[j] = self /\ \A i \in JobIds \ {j} : jobs'[i] = jobs[i]
  BY <1>7, Zenon DEF TypeOK
<1> HIDE DEF n
<1>17. /\ DOMAIN events \subseteq DOMAIN events'
       /\ DOMAIN events' \ DOMAIN events = {n + 1, n + 2}
  BY <1>15
<1>18. Fresh(j) = {n + 1, n + 2} /\ \A i \in JobIds \ {j} : Fresh(i) = {}
  BY <1>10, <1>15, <1>17, Zenon DEF Fresh
<1>19. Grown
  BY <1>15, <1>17, Zenon DEF Grown
<1>20. SelfMade(j)
  <2>1. n + 1 \in DOMAIN events' \ DOMAIN events /\ n + 2 \in DOMAIN events' \ DOMAIN events
    BY <1>17, Zenon
  <2>2. e.type # "running" /\ f.type # "running"
    BY <1>10, Zenon
  <2> QED BY <1>3, <1>4, <1>5, <1>10, <1>15, <1>16, <1>18, <2>1, <2>2, Zenon DEF SelfMade
<1>21. \A i \in JobIds \ {j} : Kept(i)
  BY <1>16, <1>18, Zenon DEF Kept
<1> QED BY <1>19, <1>20, <1>21, Zenon DEF Told

LEMMA RecoverTold ==
    ASSUME TypeOK, LogOK(jobs, events), NEW order \in Orders(ExpiredJobs),
           RecoverLostLeases(order)
    PROVE  Grown /\ \A i \in JobIds : Told(i)
<1> DEFINE n == Len(events)
           c == Cardinality(ExpiredJobs)
           lost == [i \in DOMAIN order |-> LostEvent(order[i])]
<1>1. c \in Nat
  BY IdsAssumption, FS_Subset, FS_CardinalityType, Zenon DEF ExpiredJobs
<1>2. /\ order \in [1..c -> ExpiredJobs]
      /\ \A a, b \in 1..c : order[a] = order[b] => a = b
      /\ \A x \in ExpiredJobs : \E a \in 1..c : order[a] = x
  BY Zenon DEF Orders, Bijection, Injection, Surjection, IsInjective
<1>3. \A x \in ExpiredJobs : x \in JobIds /\ Expired(x)
  BY Zenon DEF ExpiredJobs
<1>4. /\ \A x \in JobIds : jobs[x] \in Job /\ jobs[x].version \in Nat
      /\ \A x \in JobIds : x \in ExpiredJobs => jobs[x].state = "RUNNING"
  BY Zenon DEF TypeOK, Job, ExpiredJobs, Expired
<1>5. \A x \in JobIds : /\ LostRow(x).version = jobs[x].version + 1
                         /\ LostRow(x).state = "LOST"
                         /\ LostRow(x).cursor = EventId(x, "lost", jobs[x].version + 1)
                         /\ LostRow(x).retries = jobs[x].retries
                         /\ LostRow(x).maxRetries = jobs[x].maxRetries
  BY <1>4 DEF LostRow, Unleased, Job
<1>6. ASSUME NEW x \in JobIds
      PROVE  /\ x \in ExpiredJobs => jobs'[x] = LostRow(x)
             /\ x \notin ExpiredJobs => jobs'[x] = jobs[x]
  <2>1. jobs'[x] = IF Expired(x) THEN LostRow(x) ELSE jobs[x]
    BY Zenon DEF RecoverLostLeases
  <2>2. x \in ExpiredJobs <=> Expired(x)
    BY Zenon DEF ExpiredJobs
  <2> QED BY <2>1, <2>2, Zenon
<1>7. \A x \in JobIds : /\ LostEvent(x).job = x
                         /\ LostEvent(x).version = jobs[x].version + 1
                         /\ LostEvent(x).state = "LOST" /\ LostEvent(x).type = "lost"
                         /\ LostEvent(x).id = EventId(x, "lost", jobs[x].version + 1)
  BY Zenon DEF LostEvent
<1>8. n \in Nat /\ DOMAIN events = 1..n
  BY DEF TypeOK
<1>9. /\ DOMAIN events' = 1..(n + c)
      /\ \A i \in 1..n : events'[i] = events[i]
      /\ \A i \in 1..c : events'[n + i] = LostEvent(order[i])
  <2>1. lost \in Seq({LostEvent(x) : x \in ExpiredJobs}) /\ Len(lost) = c
    BY <1>1, <1>2
  <2>2. events' = events \o lost
    BY Zenon DEF RecoverLostLeases
  <2>3. \A i \in 1..c : lost[i] = LostEvent(order[i])
    BY <1>2, Zenon
  <2> HIDE DEF lost
  <2> QED BY <1>1, <1>8, <2>1, <2>2, <2>3 DEF TypeOK
<1> HIDE DEF n, c
<1>10. \A i \in DOMAIN events' \ DOMAIN events : \E a \in 1..c : i = n + a
  <2>1. ASSUME NEW i \in 1..(n + c), i \notin 1..n PROVE i - n \in 1..c /\ i = n + (i - n)
    BY <1>1, <1>8, <2>1
  <2> QED BY <1>8, <1>9, <2>1, Zenon
<1>11. \A a \in 1..c : n + a \in DOMAIN events' \ DOMAIN events
  BY <1>1, <1>8, <1>9
<1>12. Grown
  <2>1. DOMAIN events \subseteq DOMAIN events'
    BY <1>1, <1>8, <1>9
  <2> QED BY <1>8, <1>9, <2>1, Zenon DEF Grown
<1>13. ASSUME NEW x \in JobIds, x \notin ExpiredJobs PROVE Kept(x)
  <2>1. \A i \in DOMAIN events' \ DOMAIN events : events'[i].job \in ExpiredJobs
    <3> SUFFICES ASSUME NEW i \in DOMAIN events' \ DOMAIN events
                 PROVE  events'[i].job \in ExpiredJobs
      BY Zenon
    <3>1. PICK a \in 1..c : i = n + a
      BY <1>10, Zenon
    <3>2. order[a] \in ExpiredJobs /\ order[a] \in JobIds
      BY <1>2, <1>3, Zenon
    <3>3. events'[i] = LostEvent(order[a])
      BY <1>9, <3>1, Zenon
    <3> QED BY <1>7, <3>2, <3>3, Zenon
  <2> QED BY <1>6, <1>13, <2>1, Zenon DEF Kept, Fresh
<1>14. ASSUME NEW x \in JobIds, x \in ExpiredJobs PROVE Moved(x)
  <2>1. PICK a \in 1..c : order[a] = x
    BY <1>2, <1>14, Zenon
  <2>2. ASSUME NEW b \in 1..c, events'[n + b].job = x PROVE b = a
    <3>1. order[b] \in JobIds /\ events'[n + b] = LostEvent(order[b])
      BY <1>2, <1>3, <1>9, Zenon
    <3>2. order[b] = x
      BY <1>7, <2>2, <3>1, Zenon
    <3> QED BY <1>2, <2>1, <3>2, Zenon
  <2>3. events'[n + a] = LostEvent(x)
    BY <1>9, <2>1, Zenon
  <2>4. Fresh(x) = {n + a}
    <3>1. n + a \in Fresh(x)
      BY <1>7, <1>11, <2>3, Zenon DEF Fresh
    <3>2. \A i \in Fresh(x) : i = n + a
      BY <1>10, <2>2, Zenon DEF Fresh
    <3> QED BY <3>1, <3>2, Zenon
  <2>5. jobs'[x] = LostRow(x)
    BY <1>6, <1>14, Zenon
  <2>6. Turned(x, "lost")
    <3>1. jobs[x].state = "RUNNING" /\ Expired(x)
      BY <1>3, <1>4, <1>14, Zenon
    <3>2. jobs[x].state \in States /\ "LOST" \in AllowedTransitions[jobs[x].state]
      BY <3>1, Zenon DEF States, AllowedTransitions
    <3> QED BY <1>5, <2>5, <3>1, <3>2, Zenon DEF Turned
  <2>7. events'[n + a].type = "lost"
    BY <1>7, <2>3, Zenon
  <2>8. /\ jobs'[x].version = jobs[x].version + 1
        /\ events'[n + a].version = jobs'[x].version
        /\ events'[n + a].state = jobs'[x].state
        /\ events'[n + a].id = jobs'[x].cursor
    BY <1>5, <1>7, <2>3, <2>5
  <2>9. n + a \in DOMAIN events' \ DOMAIN events
    BY <1>11, Zenon
  <2>10. Turned(x, events'[n + a].type)
    BY <2>6, <2>7, Zenon
  <2> QED BY <2>4, <2>8, <2>9, <2>10, Zenon DEF Moved
<1> QED BY <1>12, <1>13, <1>14, Zenon DEF Told

(* Every call tells its story: each job is left alone, or moves by one     *)
(* version with one event, or is canceled without one, or is created as    *)
(* its own child.                                                          *)
LEMMA StepTold ==
    ASSUME IInv, [Next]_vars
    PROVE  Grown /\ \A i \in JobIds : Told(i)
<1>T. TypeOK /\ LogOK(jobs, events) /\ RowsOK
  BY Zenon DEF IInv
<1>J. \A j \in JobIds : /\ jobs[j] \in Job /\ RowOK(jobs[j])
                        /\ jobs[j].retries \in Nat
  BY <1>T, Zenon DEF TypeOK, RowsOK, Job
<1>A. AbsentVersion
  BY <1>J, Zenon DEF AbsentVersion, Exists, RowOK
<1>0. ASSUME jobs' = jobs, events' = events
      PROVE  Grown /\ \A i \in JobIds : Told(i)
  BY <1>0, Zenon DEF Grown, Told, Kept, Fresh
<1>1. ASSUME NEW j \in JobIds, NEW k \in CreateKeys \cup {None},
             NEW m \in 0..MaxRetries, Create(j, k, m)
      PROVE  Grown /\ \A i \in JobIds : Told(i)
  <2>1. m \in Nat
    BY BoundsAssumption
  <2> QED BY <1>1, <1>A, <1>T, <2>1, CreateTold, Zenon
<1>2. ASSUME NEW j \in JobIds, NEW p \in JobIds, NEW k \in CreateKeys \cup {None},
             NEW m \in 0..MaxRetries, CreateChild(j, k, m, p)
      PROVE  Grown /\ \A i \in JobIds : Told(i)
  <2>1. m \in Nat
    BY BoundsAssumption
  <2>2. CASE p = j
    BY <1>2, <1>A, <1>T, <2>1, <2>2, CreateSelfTold, Zenon
  <2>3. CASE p # j
    BY <1>2, <1>A, <1>T, <2>1, <2>3, CreateChildTold, Zenon
  <2> QED BY <2>2, <2>3, Zenon
<1>3. ASSUME NEW j \in JobIds, NEW o \in Owners, NEW d \in Deadlines, MarkRunning(j, o, d)
      PROVE  Grown /\ \A i \in JobIds : Told(i)
  <2> DEFINE row == [jobs[j] EXCEPT !.owner = o, !.deadline = d]
  <2>0. d \in Nat
    BY BoundsAssumption DEF Deadlines
  <2>1. row \in Job
    BY <1>J, <2>0, RowUpdates, Zenon
  <2>2. row.retries = jobs[j].retries /\ row.maxRetries = jobs[j].maxRetries
    BY <1>J DEF Job
  <2>3. Transition(j, "RUNNING", row, "running")
    BY <1>3, Zenon DEF MarkRunning
  <2>4. "RUNNING" \in States \ {"LOST"} /\ "running" \in EventTypes /\ "RUNNING" # "QUEUED"
    BY Zenon DEF States, EventTypes
  <2> HIDE DEF row
  <2> QED BY <1>T, <2>1, <2>2, <2>3, <2>4, TransitionTold, Zenon
<1>4. ASSUME NEW j \in JobIds, NEW o \in Owners, NEW d \in Deadlines, RenewLease(j, o, d)
      PROVE  Grown /\ \A i \in JobIds : Told(i)
  <2> DEFINE row == [jobs[j] EXCEPT !.deadline = d]
  <2>0. d \in Nat
    BY BoundsAssumption DEF Deadlines
  <2>1. /\ row \in Job /\ row.state = jobs[j].state /\ row.retries = jobs[j].retries
        /\ row.maxRetries = jobs[j].maxRetries
    BY <1>J, <2>0 DEF Job
  <2>2. Bump(j, row, "lease_renewed") /\ jobs[j].state # "ABSENT"
    BY <1>4, Zenon DEF RenewLease, Exists
  <2>3. row.state \in States /\ "lease_renewed" \in EventTypes
    BY <1>J, <2>1, <2>2, Zenon DEF Job, EventTypes
  <2> HIDE DEF row
  <2>4. RowMove(j, row, "lease_renewed")
    BY <2>1, <2>2, Zenon DEF RowMove
  <2> QED BY <1>T, <2>1, <2>2, <2>3, <2>4, BumpTold, Zenon
<1>5. ASSUME NEW j \in JobIds, NEW target \in {"SUCCEEDED", "FAILED"},
             NEW type \in {"succeeded", "failed"},
             Transition(j, target, [Unleased(jobs[j]) EXCEPT !.finished = TRUE], type)
      PROVE  Grown /\ \A i \in JobIds : Told(i)
  <2> DEFINE row == [Unleased(jobs[j]) EXCEPT !.finished = TRUE]
  <2>1. row \in Job
    <3>1. None \in Owners \cup {None} /\ 0 \in Nat
      BY Zenon
    <3> QED BY <1>J, <3>1, RowUpdates, Zenon
  <2>2. row.retries = jobs[j].retries /\ row.maxRetries = jobs[j].maxRetries
    BY <1>J DEF Job, Unleased
  <2>3. /\ target \in States \ {"LOST"} /\ target # "QUEUED"
        /\ type \in EventTypes /\ type # "running"
    BY Zenon DEF States, EventTypes
  <2>4. Transition(j, target, row, type)
    BY <1>5, Zenon
  <2> HIDE DEF row
  <2> QED BY <1>T, <2>1, <2>2, <2>3, <2>4, TransitionTold, Zenon
<1>6. ASSUME NEW j \in JobIds, NEW o \in Owners, MarkSucceeded(j, o)
      PROVE  Grown /\ \A i \in JobIds : Told(i)
  <2>1. Transition(j, "SUCCEEDED", [Unleased(jobs[j]) EXCEPT !.finished = TRUE], "succeeded")
    BY <1>6, Zenon DEF MarkSucceeded
  <2> QED BY <1>5, <2>1, Zenon
<1>7. ASSUME NEW j \in JobIds, NEW o \in Owners \cup {None}, MarkFailed(j, o)
      PROVE  Grown /\ \A i \in JobIds : Told(i)
  <2>1. Transition(j, "FAILED", [Unleased(jobs[j]) EXCEPT !.finished = TRUE], "failed")
    BY <1>7, Zenon DEF MarkFailed
  <2> QED BY <1>5, <2>1, Zenon
<1>8. ASSUME NEW j \in JobIds, Retry(j)
      PROVE  Grown /\ \A i \in JobIds : Told(i)
  <2> DEFINE row == [jobs[j] EXCEPT !.retries = @ + 1, !.finished = FALSE]
  <2>0. jobs[j].retries + 1 \in Nat
    BY <1>J
  <2>1. row \in Job
    BY <1>J, <2>0, RowUpdates, Zenon
  <2>2. row.retries = jobs[j].retries + 1 /\ row.maxRetries = jobs[j].maxRetries
    BY <1>J DEF Job
  <2>3. Transition(j, "QUEUED", row, "retried") /\ jobs[j].retries + 1 <= jobs[j].maxRetries
    BY <1>8, Zenon DEF Retry
  <2>4. "QUEUED" \in States \ {"LOST"} /\ "retried" \in EventTypes /\ "retried" # "running"
    BY Zenon DEF States, EventTypes
  <2> HIDE DEF row
  <2> QED BY <1>T, <2>1, <2>2, <2>3, <2>4, TransitionTold, Zenon
<1>9. ASSUME NEW t \in 0..MaxTime, ClockStep(t)
      PROVE  Grown /\ \A i \in JobIds : Told(i)
  <2>1. jobs' = jobs /\ events' = events
    BY <1>9, Zenon DEF ClockStep
  <2> QED BY <1>0, <2>1, Zenon
<1>10. CASE UNCHANGED vars
  <2>1. jobs' = jobs /\ events' = events
    BY <1>10, Zenon DEF vars
  <2> QED BY <1>0, <2>1, Zenon
<1>11. ASSUME NEW j \in JobIds, NEW key \in CancelKeys \cup {None}, Cancel(j, key)
       PROVE  Grown /\ \A i \in JobIds : Told(i)
  BY <1>11, <1>T, CancelTold, Zenon
<1>12. ASSUME NEW order \in Orders(ExpiredJobs), RecoverLostLeases(order)
       PROVE  Grown /\ \A i \in JobIds : Told(i)
  BY <1>12, <1>T, RecoverTold, Zenon
<1> QED BY <1>1, <1>2, <1>3, <1>4, <1>6, <1>7, <1>8, <1>9, <1>10, <1>11, <1>12, Zenon DEF Next

LEMMA ReplaysMeans == LogReplays <=> \A j \in JobIds : Replays(j)
BY Zenon DEF LogReplays, Replays

(* The tables and the history of every job, together inductive.            *)
THEOREM JobStoreHistoryInductive == Spec => []HistoryInv
<1>1. Init => HistoryInv
  <2> SUFFICES ASSUME Init PROVE HistoryInv
    BY Zenon
  <2>1. IInv
    BY InitInv, Zenon
  <2>2. \A j \in JobIds : EventsOf(j) = {} /\ jobs[j].state = "ABSENT"
                          /\ jobs[j].retries = 0 /\ jobs[j].maxRetries = 0
    BY DEF Init, EventsOf, Absent
  <2>3. LogReplays
    BY <2>2, Zenon DEF LogReplays, Exists
  <2>4. ASSUME NEW j \in JobIds PROVE BudgetOK(j)
    <3>1. Starts(j) = {}
      BY <2>2, Zenon DEF Starts
    <3>2. Cardinality(Starts(j)) = 0
      BY <3>1, FS_EmptySet, Zenon
    <3> QED BY <2>2, <3>2 DEF BudgetOK
  <2> QED BY <2>1, <2>3, <2>4, Zenon DEF HistoryInv
<1>2. HistoryInv /\ [Next]_vars => HistoryInv'
  <2> SUFFICES ASSUME HistoryInv, [Next]_vars PROVE HistoryInv'
    BY Zenon
  <2>1. IInv /\ \A j \in JobIds : Replays(j) /\ BudgetOK(j)
    BY ReplaysMeans, Zenon DEF HistoryInv
  <2>2. IInv'
    BY <2>1, TypeStep, RowStep, LogStep, Zenon DEF IInv
  <2>3. Grown /\ \A j \in JobIds : Told(j)
    BY <2>1, StepTold, Zenon
  <2>4. ASSUME NEW j \in JobIds PROVE Replays(j)'
    BY <2>1, <2>2, <2>3, ReplaysKept, ReplaysMoved, ReplaysDropped, ReplaysSelfMade, Zenon
       DEF Told
  <2>5. ASSUME NEW j \in JobIds PROVE BudgetOK(j)'
    BY <2>1, <2>2, <2>3, BudgetStep, Zenon
  <2>6. LogReplays'
    BY <2>4, Zenon DEF LogReplays, Replays
  <2> QED BY <2>2, <2>5, <2>6, Zenon DEF HistoryInv
<1> QED BY <1>1, <1>2, PTL DEF Spec

(* For any number of jobs, callers and keys the events of a job tell its   *)
(* life: each version once, each step an allowed one, the stored cursor at *)
(* the newest, and no start beyond one more than the retries it was        *)
(* created with.                                                           *)
THEOREM JobStoreHistoryIsTrue == Spec => []HistoryIsTrue
<1>1. HistoryInv => LogReplays /\ StartsWithinBudget
  BY Zenon DEF HistoryInv, StartsWithinBudget, BudgetOK, Starts
<1>2. LogReplays /\ StartsWithinBudget /\ EventPerVersion => HistoryIsTrue
  BY Zenon DEF HistoryIsTrue
<1> QED BY <1>1, <1>2, JobStoreHistoryInductive, JobStoreEventPerVersion, PTL

NotLostWhileLive ==
    \A j \in JobIds :
        jobs[j].state # "LOST" /\ jobs'[j].state = "LOST" =>
            \A o \in Owners : ~LiveLease(j, o)

(* Whatever the clock does between the calls, recovery never takes a job   *)
(* from an owner whose next call the store would have accepted.            *)
THEOREM JobStoreLiveLeaseNotLost == Spec => LiveLeaseNotLost
<1>1. ASSUME IInv, [Next]_vars, NEW j \in JobIds, NEW o \in Owners,
             jobs[j].state # "LOST", jobs'[j].state = "LOST"
      PROVE  ~LiveLease(j, o)
  <2>1. Told(j)
    BY <1>1, StepTold, Zenon
  <2>2. Expired(j)
    BY <1>1, <2>1, Zenon DEF Told, Kept, Dropped, SelfMade, Moved, Made, Touched, Turned
  <2>3. jobs[j].deadline \in Nat /\ now \in Nat
    BY <1>1, Zenon DEF IInv, TypeOK, Job
  <2> QED BY <2>2, <2>3 DEF Expired, LiveLease
<1>2. IInv /\ [Next]_vars => [NotLostWhileLive]_vars
  BY <1>1, Zenon DEF NotLostWhileLive
<1>3. LiveLeaseNotLost <=> [][NotLostWhileLive]_vars
  BY Zenon DEF LiveLeaseNotLost, NotLostWhileLive
<1> HIDE DEF NotLostWhileLive
<1> QED BY <1>2, <1>3, JobStoreInductive, PTL DEF Spec

-----------------------------------------------------------------------------
(* The store implements JobLifecycle.  Every call but the recovery of      *)
(* leases writes the row of one job, so it is enough to know four fields   *)
(* of the new row; the invariant above adds that a job without an owner is *)
(* not running, and that a row that is not there has no owner.             *)

(* What JobLifecycle sees of a row.                                        *)
SameLife(r, s) ==
    /\ r.state = s.state /\ r.owner = s.owner
    /\ r.retries = s.retries /\ r.maxRetries = s.maxRetries

(* Only the life of j changes, to the one of row.                          *)
Writes(j, row) ==
    /\ SameLife(jobs'[j], row)
    /\ \A i \in JobIds : i # j => SameLife(jobs'[i], jobs[i])

(* Storing a row, with or without its event, shows its life.               *)
LEMMA StoreWrites ==
    ASSUME TypeOK, NEW j \in JobIds, NEW row \in Job, NEW type, NEW id,
           Store(j, row, type, id)
    PROVE  Writes(j, row)
<1>1. SameLife(WithCursor(events, id, row), row)
  BY Zenon DEF WithCursor, SameLife, Job
<1>2. \A i \in JobIds : jobs'[i] = IF i = j THEN WithCursor(events, id, row) ELSE jobs[i]
  BY Zenon DEF Store, TypeOK
<1> QED BY <1>1, <1>2, Zenon DEF Writes, SameLife

(* A transition shows the life of its row, but for the new state.          *)
LEMMA TransitionWrites ==
    ASSUME TypeOK, NEW j \in JobIds, NEW row \in Job, NEW target \in States, NEW type,
           Transition(j, target, row, type)
    PROVE  /\ Writes(j, [row EXCEPT !.state = target])
           /\ jobs[j].state \in States /\ target \in AllowedTransitions[jobs[j].state]
<1> DEFINE v == jobs[j].version + 1
           next == [row EXCEPT !.state = target]
           stored == [next EXCEPT !.version = v]
<1>1. v \in Nat
  BY DEF TypeOK, Job
<1>2. next \in Job
  BY Zenon DEF Job
<1>3. stored \in Job /\ SameLife(stored, next)
  BY <1>1, <1>2, Zenon DEF Job, SameLife
<1>4. Store(j, stored, type, EventId(j, type, v))
  BY Zenon DEF Transition, Bump
<1>5. jobs[j].state \in States /\ target \in AllowedTransitions[jobs[j].state]
  BY Zenon DEF Transition, Exists, TypeOK, Job
<1> HIDE DEF v, next, stored
<1>6. Writes(j, stored)
  BY <1>3, <1>4, StoreWrites, Zenon
<1>7. Writes(j, next)
  BY <1>3, <1>6, Zenon DEF Writes, SameLife
<1> QED BY <1>5, <1>7, Zenon DEF next

(* A row written for one job is a move of JobLifecycle.                    *)
LEMMA WritesMove ==
    ASSUME TypeOK, TypeOK', NEW j \in JobIds, NEW row \in Job, Writes(j, row)
    PROVE  Lifecycle!Move(j, row.state, row.owner, row.maxRetries - row.retries)
<1>1. \A i \in JobIds :
        i # j => /\ jobs'[i].state = jobs[i].state /\ jobs'[i].owner = jobs[i].owner
                 /\ jobs'[i].maxRetries - jobs'[i].retries = jobs[i].maxRetries - jobs[i].retries
  BY Zenon DEF Writes, SameLife
<1>2. /\ jobs'[j].state = row.state /\ jobs'[j].owner = row.owner
      /\ jobs'[j].maxRetries - jobs'[j].retries = row.maxRetries - row.retries
  BY Zenon DEF Writes, SameLife
<1>3. [i \in JobIds |-> jobs'[i].state]
        = [[i \in JobIds |-> jobs[i].state] EXCEPT ![j] = row.state]
  BY <1>1, <1>2, Zenon
<1>4. [i \in JobIds |-> jobs'[i].owner]
        = [[i \in JobIds |-> jobs[i].owner] EXCEPT ![j] = row.owner]
  BY <1>1, <1>2, Zenon
<1>5. [i \in JobIds |-> jobs'[i].maxRetries - jobs'[i].retries]
        = [[i \in JobIds |-> jobs[i].maxRetries - jobs[i].retries]
              EXCEPT ![j] = row.maxRetries - row.retries]
  BY <1>1, <1>2, Zenon
<1> QED BY <1>3, <1>4, <1>5, Zenon DEF Lifecycle!Move

(* What the mapped variables are at a job.                                 *)
LEMMA MappedAt ==
    ASSUME NEW j \in JobIds
    PROVE  /\ [i \in JobIds |-> jobs[i].state][j] = jobs[j].state
           /\ [i \in JobIds |-> jobs[i].owner][j] = jobs[j].owner
           /\ [i \in JobIds |-> jobs[i].maxRetries - jobs[i].retries][j]
                = jobs[j].maxRetries - jobs[j].retries
BY Zenon

(* A new job, with or without a parent, is a submission.                   *)
LEMMA CreateStep ==
    ASSUME TypeOK, TypeOK', RowsOK, NEW j \in JobIds, NEW k \in CreateKeys \cup {None},
           NEW m \in 0..MaxRetries, NEW p \in JobIds \cup {None}, ~Exists(j),
           Writes(j, NewJob(j, k, m, p))
    PROVE  Lifecycle!LifeNext
<1>1. m \in Nat
  BY BoundsAssumption
<1>2. NewJob(j, k, m, p) \in Job
  BY <1>1, NewJobType, Zenon
<1>3. /\ NewJob(j, k, m, p).state = "QUEUED" /\ NewJob(j, k, m, p).owner = None
      /\ NewJob(j, k, m, p).maxRetries - NewJob(j, k, m, p).retries = m
  BY <1>1 DEF NewJob, Absent
<1>4. Lifecycle!Move(j, "QUEUED", None, m)
  BY <1>2, <1>3, WritesMove, Zenon
<1>5. Lifecycle!Submit(j, m)
  BY <1>4, Zenon DEF Lifecycle!Submit, Exists
<1> QED BY <1>5, Zenon DEF Lifecycle!LifeNext

(* create with a parent rewrites the parent without touching its life.     *)
LEMMA ChildWrites ==
    ASSUME TypeOK, NEW j \in JobIds, NEW k \in CreateKeys \cup {None},
           NEW m \in 0..MaxRetries, NEW p \in JobIds, CreateChild(j, k, m, p)
    PROVE  Writes(j, NewJob(j, k, m, p))
<1> DEFINE new == NewJob(j, k, m, p)
           inserted == [jobs EXCEPT ![j] = new]
           parent == Linked(inserted[p], p, j)
<1>1. m \in Nat
  BY BoundsAssumption
<1>2. new \in Job
  BY <1>1, NewJobType, Zenon
<1>3. inserted \in [JobIds -> Job] /\ inserted[j] = new
      /\ \A i \in JobIds : i # j => inserted[i] = jobs[i]
  BY <1>2, Zenon DEF TypeOK
<1>4. SameLife(parent, inserted[p])
  BY <1>3 DEF Linked, SameLife, Job
<1>5. jobs' = [inserted EXCEPT ![p] = parent]
  BY Zenon DEF CreateChild
<1> HIDE DEF new, inserted, parent
<1>6. \A i \in JobIds : SameLife(jobs'[i], inserted[i])
  BY <1>3, <1>4, <1>5, Zenon DEF SameLife
<1>7. \A i \in JobIds : i # j => SameLife(jobs'[i], jobs[i])
  BY <1>3, <1>6, Zenon
<1>8. SameLife(jobs'[j], new)
  BY <1>3, <1>6, Zenon
<1> QED BY <1>7, <1>8, Zenon DEF new, Writes

(* Renewing a lease, and a tick of the clock, change no life.              *)
LEMMA LifeKept ==
    ASSUME TypeOK, \A i \in JobIds : SameLife(jobs'[i], jobs[i])
    PROVE  UNCHANGED Lifecycle!lifeVars
<1>1. \A i \in JobIds :
        /\ jobs'[i].state = jobs[i].state /\ jobs'[i].owner = jobs[i].owner
        /\ jobs'[i].maxRetries - jobs'[i].retries = jobs[i].maxRetries - jobs[i].retries
  BY Zenon DEF SameLife
<1>2. [i \in JobIds |-> jobs'[i].state] = [i \in JobIds |-> jobs[i].state]
  BY <1>1, Zenon
<1>3. [i \in JobIds |-> jobs'[i].owner] = [i \in JobIds |-> jobs[i].owner]
  BY <1>1, Zenon
<1>4. [i \in JobIds |-> jobs'[i].maxRetries - jobs'[i].retries]
        = [i \in JobIds |-> jobs[i].maxRetries - jobs[i].retries]
  BY <1>1, Zenon
<1> QED BY <1>2, <1>3, <1>4, Zenon DEF Lifecycle!lifeVars

(* recover_lost_leases gives up every expired job at once.                 *)
LEMMA RecoverStep ==
    ASSUME TypeOK, NEW order \in Orders(ExpiredJobs), RecoverLostLeases(order)
    PROVE  Lifecycle!LifeNext
<1>0. PICK S \in SUBSET JobIds : S = ExpiredJobs
  BY Zenon DEF ExpiredJobs
<1>1. \A i \in JobIds : jobs'[i] = IF i \in S THEN LostRow(i) ELSE jobs[i]
  BY <1>0, Zenon DEF RecoverLostLeases, ExpiredJobs
<1>2. ASSUME NEW i \in JobIds
      PROVE  /\ LostRow(i).state = "LOST" /\ LostRow(i).owner = None
             /\ LostRow(i).retries = jobs[i].retries
             /\ LostRow(i).maxRetries = jobs[i].maxRetries
  BY DEF TypeOK, LostRow, Unleased, Job
<1>3. [i \in JobIds |-> jobs'[i].state]
        = [i \in JobIds |-> IF i \in S THEN "LOST"
                            ELSE [k \in JobIds |-> jobs[k].state][i]]
  BY <1>1, <1>2, Zenon
<1>4. [i \in JobIds |-> jobs'[i].owner]
        = [i \in JobIds |-> IF i \in S THEN None
                            ELSE [k \in JobIds |-> jobs[k].owner][i]]
  BY <1>1, <1>2, Zenon
<1>5. [i \in JobIds |-> jobs'[i].maxRetries - jobs'[i].retries]
        = [i \in JobIds |-> jobs[i].maxRetries - jobs[i].retries]
  <2>1. \A i \in JobIds :
          jobs'[i].maxRetries = jobs[i].maxRetries /\ jobs'[i].retries = jobs[i].retries
    BY <1>1, <1>2, Zenon
  <2> QED BY <2>1, Zenon
<1>6. \A i \in S : i \in JobIds /\ [k \in JobIds |-> jobs[k].state][i] = "RUNNING"
  BY <1>0, Zenon DEF ExpiredJobs, Expired
<1>7. Lifecycle!GiveUp(S)
  BY <1>3, <1>4, <1>5, <1>6, Zenon DEF Lifecycle!GiveUp
<1> QED BY <1>7, Zenon DEF Lifecycle!LifeNext

(* A call that moves one job from one state to another, keeps its budget   *)
(* and sets or drops its owner.                                            *)
LEMMA TransitionMove ==
    ASSUME TypeOK, TypeOK', NEW j \in JobIds, NEW row \in Job, NEW target \in States,
           NEW type, Transition(j, target, row, type)
    PROVE  /\ Lifecycle!Move(j, target, row.owner, row.maxRetries - row.retries)
           /\ jobs[j].state \in States /\ target \in AllowedTransitions[jobs[j].state]
<1> DEFINE next == [row EXCEPT !.state = target]
<1>1. /\ next \in Job /\ next.state = target /\ next.owner = row.owner
      /\ next.maxRetries = row.maxRetries /\ next.retries = row.retries
  BY Zenon DEF Job
<1>2. Writes(j, next)
  BY TransitionWrites, Zenon
<1> HIDE DEF next
<1>3. Lifecycle!Move(j, target, row.owner, row.maxRetries - row.retries)
  BY <1>1, <1>2, WritesMove, Zenon
<1> QED BY <1>3, TransitionWrites, Zenon

(* What the handlers' changes to a row leave of its life.                   *)
LEMMA RowLife ==
    ASSUME NEW row \in Job, NEW o \in Owners \cup {None}, NEW d \in Nat, NEW v \in Nat
    PROVE  /\ [row EXCEPT !.version = v] \in Job
           /\ SameLife([row EXCEPT !.version = v], row)
           /\ SameLife([row EXCEPT !.deadline = d], row)
           /\ [row EXCEPT !.owner = o, !.deadline = d].owner = o
           /\ [row EXCEPT !.owner = o, !.deadline = d].retries = row.retries
           /\ [row EXCEPT !.owner = o, !.deadline = d].maxRetries = row.maxRetries
           /\ [Unleased(row) EXCEPT !.finished = TRUE].owner = None
           /\ [Unleased(row) EXCEPT !.finished = TRUE].retries = row.retries
           /\ [Unleased(row) EXCEPT !.finished = TRUE].maxRetries = row.maxRetries
           /\ [row EXCEPT !.retries = v, !.finished = FALSE].owner = row.owner
           /\ [row EXCEPT !.retries = v, !.finished = FALSE].retries = v
           /\ [row EXCEPT !.retries = v, !.finished = FALSE].maxRetries = row.maxRetries
<1>1. [row EXCEPT !.version = v] \in Job /\ SameLife([row EXCEPT !.version = v], row)
  BY Zenon DEF Job, SameLife
<1>2. SameLife([row EXCEPT !.deadline = d], row)
  BY Zenon DEF Job, SameLife
<1>3. /\ [row EXCEPT !.owner = o, !.deadline = d].owner = o
      /\ [row EXCEPT !.owner = o, !.deadline = d].retries = row.retries
      /\ [row EXCEPT !.owner = o, !.deadline = d].maxRetries = row.maxRetries
  BY Zenon DEF Job
<1>4. /\ [Unleased(row) EXCEPT !.finished = TRUE].owner = None
      /\ [Unleased(row) EXCEPT !.finished = TRUE].retries = row.retries
      /\ [Unleased(row) EXCEPT !.finished = TRUE].maxRetries = row.maxRetries
  BY Zenon DEF Job, Unleased
<1>5. /\ [row EXCEPT !.retries = v, !.finished = FALSE].owner = row.owner
      /\ [row EXCEPT !.retries = v, !.finished = FALSE].retries = v
      /\ [row EXCEPT !.retries = v, !.finished = FALSE].maxRetries = row.maxRetries
  BY Zenon DEF Job
<1> QED BY <1>1, <1>2, <1>3, <1>4, <1>5, Zenon

(* The row a cancellation writes.                                          *)
LEMMA CancelLife ==
    ASSUME NEW row \in Job, NEW v \in Nat
    PROVE  LET new == [Unleased(row) EXCEPT !.state = "CANCELED", !.finished = TRUE,
                                            !.version = v]
           IN  /\ new.state = "CANCELED" /\ new.owner = None
               /\ new.retries = row.retries /\ new.maxRetries = row.maxRetries
<1>1. Unleased(row) \in Job /\ Unleased(row).owner = None
      /\ Unleased(row).retries = row.retries /\ Unleased(row).maxRetries = row.maxRetries
  BY Zenon DEF Job, Unleased, NoDeadline
<1> DEFINE u == Unleased(row)
<1> HIDE DEF u
<1>2. /\ u \in Job /\ u.owner = None
      /\ u.retries = row.retries /\ u.maxRetries = row.maxRetries
  BY <1>1, Zenon DEF u
<1>3. LET new == [u EXCEPT !.state = "CANCELED", !.finished = TRUE, !.version = v]
      IN  /\ new.state = "CANCELED" /\ new.owner = u.owner
          /\ new.retries = u.retries /\ new.maxRetries = u.maxRetries
  BY <1>2, Zenon DEF Job
<1> QED BY <1>2, <1>3, Zenon DEF u

(* Every step of the store is a step of JobLifecycle or changes nothing of *)
(* what it shows.                                                          *)
LEMMA LifeStep ==
    ASSUME TypeOK, TypeOK', RowsOK, [Next]_vars
    PROVE  [Lifecycle!LifeNext]_(Lifecycle!lifeVars)
<1> USE DEF Lifecycle!LifeNext
<1>T. \A j \in JobIds : jobs[j] \in Job /\ RowOK(jobs[j])
  BY Zenon DEF TypeOK, RowsOK
<1>M. ASSUME NEW j \in JobIds
      PROVE  /\ [i \in JobIds |-> jobs[i].state][j] = jobs[j].state
             /\ [i \in JobIds |-> jobs[i].maxRetries - jobs[i].retries][j]
                  = jobs[j].maxRetries - jobs[j].retries
  BY MappedAt, Zenon
<1>0. CASE UNCHANGED vars
  BY <1>0, LifeKept, Zenon DEF vars, SameLife
<1>1. ASSUME NEW j \in JobIds, NEW k \in CreateKeys \cup {None},
             NEW m \in 0..MaxRetries, Create(j, k, m)
      PROVE  Lifecycle!LifeNext
  <2>1. jobs' = [jobs EXCEPT ![j] = NewJob(j, k, m, None)] /\ ~Exists(j)
    BY <1>1, Zenon DEF Create
  <2>2. Writes(j, NewJob(j, k, m, None))
    BY <2>1, Zenon DEF Writes, SameLife, TypeOK
  <2> QED BY <2>1, <2>2, CreateStep, Zenon
<1>2. ASSUME NEW j \in JobIds, NEW p \in JobIds, NEW k \in CreateKeys \cup {None},
             NEW m \in 0..MaxRetries, CreateChild(j, k, m, p)
      PROVE  Lifecycle!LifeNext
  <2>1. ~Exists(j)
    BY <1>2, Zenon DEF CreateChild
  <2> QED BY <1>2, <2>1, ChildWrites, CreateStep, Zenon
<1>3. ASSUME NEW j \in JobIds, NEW o \in Owners, NEW d \in Deadlines, MarkRunning(j, o, d)
      PROVE  Lifecycle!LifeNext
  <2>0. d \in Nat
    BY BoundsAssumption DEF Deadlines
  <2>1. PICK row \in Job : row = [jobs[j] EXCEPT !.owner = o, !.deadline = d]
    BY <1>T, <2>0, RowUpdates, Zenon
  <2>2. /\ row.owner = o /\ row.maxRetries = jobs[j].maxRetries
        /\ row.retries = jobs[j].retries
    BY <1>T, <2>0, <2>1, RowLife
  <2>3. Transition(j, "RUNNING", row, "running")
    BY <1>3, <2>1, Zenon DEF MarkRunning, Transition, Bump, Store
  <2>4. /\ Lifecycle!Move(j, "RUNNING", row.owner, row.maxRetries - row.retries)
        /\ jobs[j].state \in States /\ "RUNNING" \in AllowedTransitions[jobs[j].state]
    BY <2>3, TransitionMove, Zenon DEF States
  <2>5. jobs[j].state = "QUEUED"
    BY <2>4, Zenon DEF AllowedTransitions, States
  <2>6. Lifecycle!Claim(j, o)
    BY <1>M, <2>2, <2>4, <2>5, Zenon DEF Lifecycle!Claim, Lifecycle!Move
  <2> QED BY <2>6, Zenon
<1>4. ASSUME NEW j \in JobIds, NEW o \in Owners, NEW d \in Deadlines, RenewLease(j, o, d)
      PROVE  UNCHANGED Lifecycle!lifeVars
  <2> DEFINE v == jobs[j].version + 1
  <2>0. d \in Nat /\ v \in Nat
    BY <1>T, BoundsAssumption DEF Deadlines, Job
  <2>1. PICK leased \in Job : leased = [jobs[j] EXCEPT !.deadline = d]
    BY <1>T, <2>0, RowUpdates, Zenon
  <2>2. PICK row \in Job : row = [leased EXCEPT !.version = v]
    BY <2>0, RowLife, Zenon
  <2>3. SameLife(row, jobs[j])
    <3>1. SameLife(leased, jobs[j])
      BY <1>T, <2>0, <2>1, RowLife, Zenon
    <3>2. SameLife(row, leased)
      BY <2>0, <2>2, RowLife, Zenon
    <3> QED BY <3>1, <3>2, Zenon DEF SameLife
  <2>4. \E id : Store(j, row, "lease_renewed", id)
    BY <1>4, <2>1, <2>2, Zenon DEF RenewLease, Bump, Store
  <2>5. Writes(j, row)
    BY <2>4, StoreWrites, Zenon
  <2>6. \A i \in JobIds : SameLife(jobs'[i], jobs[i])
    BY <2>3, <2>5, Zenon DEF Writes, SameLife
  <2> QED BY <2>6, LifeKept, Zenon
<1>5. ASSUME NEW j \in JobIds, NEW target \in Terminal, NEW type,
             Transition(j, target, [Unleased(jobs[j]) EXCEPT !.finished = TRUE], type)
      PROVE  /\ Lifecycle!Move(j, target, None, jobs[j].maxRetries - jobs[j].retries)
             /\ jobs[j].state \in States /\ target \in AllowedTransitions[jobs[j].state]
  <2>1. PICK row \in Job : row = [Unleased(jobs[j]) EXCEPT !.finished = TRUE]
    <3>1. None \in Owners \cup {None} /\ 0 \in Nat
      BY Zenon
    <3> QED BY <1>T, <3>1, RowUpdates, Zenon
  <2>2. /\ row.owner = None /\ row.maxRetries = jobs[j].maxRetries
        /\ row.retries = jobs[j].retries
    <3>1. None \in Owners \cup {None} /\ 0 \in Nat
      BY Zenon
    <3> QED BY <1>T, <2>1, <3>1, RowLife, Zenon
  <2>3. target \in States
    BY Zenon DEF Terminal, States
  <2>4. Transition(j, target, row, type)
    BY <1>5, <2>1, Zenon DEF Transition, Bump, Store
  <2>5. /\ Lifecycle!Move(j, target, row.owner, row.maxRetries - row.retries)
        /\ jobs[j].state \in States /\ target \in AllowedTransitions[jobs[j].state]
    BY <2>3, <2>4, TransitionMove, Zenon
  <2> QED BY <2>2, <2>5, Zenon DEF Lifecycle!Move
<1>6. ASSUME NEW j \in JobIds, NEW o \in Owners, MarkSucceeded(j, o)
      PROVE  Lifecycle!LifeNext
  <2>1. /\ Lifecycle!Move(j, "SUCCEEDED", None, jobs[j].maxRetries - jobs[j].retries)
        /\ jobs[j].state = "RUNNING"
    BY <1>5, <1>6, Zenon DEF MarkSucceeded, Terminal
  <2>2. Lifecycle!Succeed(j)
    BY <1>M, <2>1, Zenon DEF Lifecycle!Succeed, Lifecycle!Move
  <2> QED BY <2>2, Zenon
<1>7. ASSUME NEW j \in JobIds, NEW o \in Owners \cup {None}, MarkFailed(j, o)
      PROVE  Lifecycle!LifeNext
  <2>1. /\ Lifecycle!Move(j, "FAILED", None, jobs[j].maxRetries - jobs[j].retries)
        /\ jobs[j].state \in States /\ "FAILED" \in AllowedTransitions[jobs[j].state]
    BY <1>5, <1>7, Zenon DEF MarkFailed, Terminal
  <2>2. jobs[j].state \in {"QUEUED", "RUNNING"}
    BY <2>1, Zenon DEF AllowedTransitions, States
  <2>3. Lifecycle!Fail(j)
    BY <1>M, <2>1, <2>2, Zenon DEF Lifecycle!Fail, Lifecycle!Move
  <2> QED BY <2>3, Zenon
<1>8. ASSUME NEW j \in JobIds, NEW key \in CancelKeys \cup {None}, Cancel(j, key)
      PROVE  Lifecycle!LifeNext
  <2> DEFINE v == jobs[j].version + 1
  <2>0. v \in Nat
    BY <1>T DEF Job
  <2>1. PICK row \in Job :
            row = [Unleased(jobs[j]) EXCEPT !.state = "CANCELED", !.finished = TRUE,
                                            !.version = v]
    <3>1. None \in Owners \cup {None} /\ 0 \in Nat
      BY Zenon
    <3> QED BY <1>T, <2>0, <3>1, RowUpdates, Zenon
  <2>2. /\ row.state = "CANCELED" /\ row.owner = None
        /\ row.maxRetries = jobs[j].maxRetries /\ row.retries = jobs[j].retries
    BY <1>T, <2>0, <2>1, CancelLife, Zenon
  <2>3. \E id : Store(j, row, "canceled", id)
    BY <1>8, <2>1, Zenon DEF Cancel, Store
  <2>4. jobs[j].state \in States /\ "CANCELED" \in AllowedTransitions[jobs[j].state]
    BY <1>8, <1>T, Zenon DEF Cancel, Exists, Job
  <2>5. Writes(j, row)
    BY <2>3, StoreWrites, Zenon
  <2>6. Lifecycle!Move(j, row.state, row.owner, row.maxRetries - row.retries)
    BY <2>5, WritesMove, Zenon
  <2>7. jobs[j].state \in {"QUEUED", "RUNNING", "FAILED", "LOST"}
    BY <2>4, Zenon DEF AllowedTransitions, States
  <2>8. Lifecycle!Withdraw(j)
    BY <1>M, <2>2, <2>6, <2>7, Zenon DEF Lifecycle!Withdraw, Lifecycle!Move
  <2> QED BY <2>8, Zenon
<1>9. ASSUME NEW j \in JobIds, Retry(j)
      PROVE  Lifecycle!LifeNext
  <2> DEFINE n == jobs[j].retries + 1
  <2>0. n \in Nat /\ None \in Owners \cup {None} /\ 0 \in Nat
    BY <1>T DEF Job
  <2>1. PICK row \in Job : row = [jobs[j] EXCEPT !.retries = n, !.finished = FALSE]
    BY <1>T, <2>0, RowUpdates, Zenon
  <2>2. /\ row.owner = jobs[j].owner /\ row.maxRetries = jobs[j].maxRetries
        /\ row.retries = n
    BY <1>T, <2>0, <2>1, RowLife
  <2>3. Transition(j, "QUEUED", row, "retried")
    BY <1>9, <2>1, Zenon DEF Retry, Transition, Bump, Store
  <2>4. /\ Lifecycle!Move(j, "QUEUED", row.owner, row.maxRetries - row.retries)
        /\ jobs[j].state \in States /\ "QUEUED" \in AllowedTransitions[jobs[j].state]
    BY <2>3, TransitionMove, Zenon DEF States
  <2>5. jobs[j].state \in {"FAILED", "LOST"}
    BY <2>4, Zenon DEF AllowedTransitions, States
  <2>6. row.owner = None
    BY <1>T, <2>2, <2>5, Zenon DEF RowOK
  <2>7. /\ jobs[j].maxRetries - jobs[j].retries > 0
        /\ row.maxRetries - row.retries = (jobs[j].maxRetries - jobs[j].retries) - 1
    BY <1>9, <1>T, <2>2 DEF Retry, Job
  <2>8. Lifecycle!Requeue(j)
    BY <1>M, <2>4, <2>5, <2>6, <2>7, Zenon DEF Lifecycle!Requeue, Lifecycle!Move
  <2> QED BY <2>8, Zenon
<1>10. ASSUME NEW t \in 0..MaxTime, ClockStep(t)
       PROVE  UNCHANGED Lifecycle!lifeVars
  BY <1>10, LifeKept, Zenon DEF ClockStep, SameLife
<1> QED
  BY <1>0, <1>1, <1>2, <1>3, <1>4, <1>6, <1>7, <1>8, <1>9, <1>10, RecoverStep, Zenon DEF Next

(* An empty table shows no job.                                            *)
LEMMA LifeStart ==
    ASSUME Init
    PROVE  Lifecycle!LifeInit
<1>1. \A j \in JobIds : jobs[j] = Absent
  BY Zenon DEF Init
<1>2. Absent.state = "ABSENT" /\ Absent.owner = None
      /\ Absent.maxRetries - Absent.retries = 0
  BY DEF Absent
<1> QED BY <1>1, <1>2, Zenon DEF Lifecycle!LifeInit

(* The job store implements JobLifecycle: whatever the callers of          *)
(* TransactionalJobStore do and however their calls interleave, every      *)
(* committed transaction is one step in the life of a job, several losses  *)
(* at once, or invisible.                                                  *)
THEOREM JobStoreImplementsLifecycle == Spec => ImplementsLifecycle
<1>1. Init => Lifecycle!LifeInit
  BY LifeStart, Zenon
<1>2. IInv /\ IInv' /\ [Next]_vars => [Lifecycle!LifeNext]_(Lifecycle!lifeVars)
  BY LifeStep, Zenon DEF IInv
<1>3. Spec => []IInv
  BY JobStoreInductive, Zenon
<1> QED BY <1>1, <1>2, <1>3, PTL DEF Spec, ImplementsLifecycle, Lifecycle!LifeSpec

-----------------------------------------------------------------------------
(* The data page                                                           *)

\* Ranges that do not overlap or touch and hold the bars of the entries S, no others.
RangesOK(m, S) ==
  /\ \A i \in DOMAIN m : m[i].from <= m[i].to
  /\ \A i, j \in DOMAIN m : i < j => m[i].to + 1 < m[j].from
  /\ \A t \in Int : (\E i \in DOMAIN m : t \in m[i].from..m[i].to) <=> (\E e \in S : t \in e.from..e.to)

Counted(m, n) == BarsIn({m[i] : i \in 1..n})

\* A listing p is as far as it says: the entries taken so far are merged, those left start
\* no earlier, and each bar of the ranges counted so far is counted once.
PageOK(p) ==
  /\ \A e \in p.of : e.from <= e.to
  /\ p.left \subseteq p.of
  /\ RangesOK(p.merged, p.of \ p.left)
  /\ \A i \in DOMAIN p.merged, x \in p.left : p.merged[i].from <= x.from
  /\ p.at \in {"count", "shown"} => p.left = {}
  /\ p.at \notin {"coalesce", "count", "shown"} => p.merged = <<>> /\ p.left = p.of
  /\ p.at \notin {"count", "shown"} => p.counted = 0
  /\ p.at = "shown" => p.counted = Len(p.merged)
  /\ p.counted <= Len(p.merged)
  /\ p.unique = Cardinality(Counted(p.merged, p.counted))

(* An interval no earlier than the merged ranges is merged into them:      *)
(* they stay apart and hold its bars too (_coalesce_ranges).               *)
LEMMA MergeKeeps ==
  ASSUME NEW m \in Seq(RangeType), NEW S \in SUBSET EntryType, NEW e \in EntryType,
         e.from <= e.to, RangesOK(m, S), \A i \in DOMAIN m : m[i].from <= e.from
  PROVE  /\ Merge(m, e) \in Seq(RangeType)
         /\ RangesOK(Merge(m, e), S \cup {e})
         /\ \A i \in DOMAIN Merge(m, e) : Merge(m, e)[i].from <= e.from
<1> DEFINE n == Len(m)
           g == Merge(m, e)
<1>0. /\ e.from \in 0..LastBar /\ e.to \in 0..LastBar /\ LastBar \in Nat
      /\ n \in Nat /\ DOMAIN m = 1..n
      /\ \A i \in 1..n : /\ m[i] = [from |-> m[i].from, to |-> m[i].to]
                         /\ m[i].from \in 0..LastBar /\ m[i].to \in 0..LastBar
  <2>1. e.from \in 0..LastBar /\ e.to \in 0..LastBar /\ LastBar \in Nat
    BY InventoryAssumption, Zenon DEF EntryType
  <2>2. n \in Nat /\ DOMAIN m = 1..n /\ \A i \in 1..n : m[i] \in RangeType
    OBVIOUS
  <2>3. \A r \in RangeType : /\ r = [from |-> r.from, to |-> r.to]
                             /\ r.from \in 0..LastBar /\ r.to \in 0..LastBar
    BY DEF RangeType
  <2> QED BY <2>1, <2>2, <2>3, Zenon
<1>a. /\ \A i \in 1..n : m[i].from <= m[i].to /\ m[i].from <= e.from
      /\ \A i, j \in 1..n : i < j => m[i].to + 1 < m[j].from
  <2> HIDE DEF n
  <2> QED BY <1>0, Zenon DEF RangesOK
<1>1. CASE m = <<>> \/ e.from > m[n].to + 1
  <2>1. g = Append(m, [from |-> e.from, to |-> e.to])
    BY <1>1, Zenon DEF Merge
  <2>2. [from |-> e.from, to |-> e.to] \in RangeType
    BY <1>0, Zenon DEF RangeType
  <2>3. /\ g \in Seq(RangeType) /\ DOMAIN g = 1..n+1
        /\ \A i \in 1..n : g[i] = m[i]
        /\ g[n+1] = [from |-> e.from, to |-> e.to]
    BY <2>1, <2>2, <1>0
  <2> HIDE DEF g, n
  <2>4. \A i \in DOMAIN g : g[i].from <= g[i].to /\ g[i].from <= e.from
    <3> SUFFICES ASSUME NEW i \in 1..n+1 PROVE g[i].from <= g[i].to /\ g[i].from <= e.from
      BY <2>3, Zenon
    <3>1. CASE i \in 1..n
      BY <3>1, <2>3, <1>a, Zenon
    <3>2. CASE i = n+1
      BY <3>2, <2>3, <1>0
    <3> QED BY <3>1, <3>2, <1>0
  <2>5. \A i, j \in DOMAIN g : i < j => g[i].to + 1 < g[j].from
    <3> SUFFICES ASSUME NEW i \in 1..n+1, NEW j \in 1..n+1, i < j
                 PROVE  g[i].to + 1 < g[j].from
      BY <2>3, Zenon
    <3>1. CASE j <= n
      <4>1. i \in 1..n /\ j \in 1..n
        BY <3>1, <1>0
      <4> QED BY <4>1, <2>3, <1>a, Zenon
    <3>2. CASE j = n+1
      <4>1. i \in 1..n /\ n \in 1..n /\ m # <<>>
        BY <3>2, <1>0 DEF n
      <4>2. m[n].to + 1 < e.from
        BY <4>1, <1>1, <1>0, Zenon
      <4>3. m[i].to <= m[n].to
        <5>1. CASE i = n
          BY <5>1, <4>1, <1>0
        <5>2. CASE i < n
          <6>1. m[i].to + 1 < m[n].from /\ m[n].from <= m[n].to
            BY <5>2, <4>1, <1>a, Zenon
          <6>2. m[i].to \in Int /\ m[n].to \in Int /\ m[n].from \in Int
            BY <4>1, <1>0
          <6> QED BY <6>1, <6>2
        <5> QED BY <5>1, <5>2, <4>1, <1>0
      <4> QED BY <3>2, <4>1, <4>2, <4>3, <2>3, <1>0
    <3> QED BY <3>1, <3>2, <1>0
  <2>6. \A t \in Int : (\E i \in DOMAIN g : t \in g[i].from..g[i].to)
                         <=> (\E x \in S \cup {e} : t \in x.from..x.to)
    <3> SUFFICES ASSUME NEW t \in Int
                 PROVE  (\E i \in DOMAIN g : t \in g[i].from..g[i].to)
                          <=> (\E x \in S \cup {e} : t \in x.from..x.to)
      BY Zenon
    <3>1. (\E i \in DOMAIN g : t \in g[i].from..g[i].to)
             <=> (\E i \in DOMAIN m : t \in m[i].from..m[i].to) \/ t \in e.from..e.to
      <4>1. ASSUME NEW i \in 1..n+1, t \in g[i].from..g[i].to
            PROVE  (\E k \in 1..n : t \in m[k].from..m[k].to) \/ t \in e.from..e.to
        <5>1. i \in 1..n \/ i = n+1
          BY <1>0
        <5> QED BY <4>1, <5>1, <2>3
      <4>2. ASSUME NEW i \in 1..n, t \in m[i].from..m[i].to
            PROVE  \E k \in 1..n+1 : t \in g[k].from..g[k].to
        <5>1. i \in 1..n+1
          BY <1>0
        <5> QED BY <4>2, <5>1, <2>3, Zenon
      <4>3. ASSUME t \in e.from..e.to
            PROVE  \E k \in 1..n+1 : t \in g[k].from..g[k].to
        <5>1. n+1 \in 1..n+1 /\ g[n+1].from = e.from /\ g[n+1].to = e.to
          BY <1>0, <2>3
        <5> QED BY <4>3, <5>1, Zenon
      <4> QED BY <4>1, <4>2, <4>3, <2>3, <1>0, Zenon
    <3>2. (\E i \in DOMAIN m : t \in m[i].from..m[i].to) <=> (\E x \in S : t \in x.from..x.to)
      BY Zenon DEF RangesOK
    <3> QED BY <3>1, <3>2, Zenon
  <2> QED BY <2>3, <2>4, <2>5, <2>6, Zenon DEF RangesOK, g
<1>2. CASE m # <<>> /\ ~(e.from > m[n].to + 1)
  <2> DEFINE last == [from |-> m[n].from, to |-> IF e.to > m[n].to THEN e.to ELSE m[n].to]
  <2>1. n \in 1..n
    BY <1>2, <1>0
  <2>2. g = [m EXCEPT ![n] = last]
    <3>1. g = [m EXCEPT ![n].to = IF e.to > m[n].to THEN e.to ELSE m[n].to]
      BY <1>2, <1>0, <2>1, Zenon DEF Merge
    <3>2. [m[n] EXCEPT !.to = IF e.to > m[n].to THEN e.to ELSE m[n].to] = last
      BY <1>0, <2>1
    <3> QED BY <3>1, <3>2, Zenon
  <2>3. last \in RangeType
    BY <1>0, <2>1, Zenon DEF RangeType
  <2>4. /\ g \in Seq(RangeType) /\ DOMAIN g = 1..n
        /\ \A i \in 1..n : i # n => g[i] = m[i]
        /\ g[n] = last
    BY <2>1, <2>2, <2>3, <1>0
  <2>4a. last.from = m[n].from /\ last.to = IF e.to > m[n].to THEN e.to ELSE m[n].to
    BY Zenon
  <2> HIDE DEF g, last, n
  <2>5. \A i \in DOMAIN g : g[i].from <= g[i].to /\ g[i].from <= e.from
    BY <2>4, <2>4a, <2>1, <1>0, <1>a
  <2>6. \A i, j \in DOMAIN g : i < j => g[i].to + 1 < g[j].from
    <3> SUFFICES ASSUME NEW i \in 1..n, NEW j \in 1..n, i < j
                 PROVE  g[i].to + 1 < g[j].from
      BY <2>4, Zenon
    <3>1. i # n
      BY <1>0
    <3>2. g[i] = m[i] /\ g[j].from = m[j].from
      BY <3>1, <2>4, <2>4a, Zenon
    <3> QED BY <3>2, <1>a, Zenon
  <2>7. \A t \in Int : (\E i \in DOMAIN g : t \in g[i].from..g[i].to)
                         <=> (\E x \in S \cup {e} : t \in x.from..x.to)
    <3> SUFFICES ASSUME NEW t \in Int
                 PROVE  (\E i \in DOMAIN g : t \in g[i].from..g[i].to)
                          <=> (\E x \in S \cup {e} : t \in x.from..x.to)
      BY Zenon
    <3>0. t \in last.from..last.to <=> t \in m[n].from..m[n].to \/ t \in e.from..e.to
      <4>1. m[n].from <= e.from /\ m[n].from <= m[n].to
        BY <2>1, <1>0, Zenon DEF RangesOK
      <4> QED BY <4>1, <2>4a, <1>2, <1>0, <2>1
    <3>1. (\E i \in DOMAIN g : t \in g[i].from..g[i].to)
             <=> (\E i \in DOMAIN m : t \in m[i].from..m[i].to) \/ t \in e.from..e.to
      BY <3>0, <2>1, <2>4, <1>0, Zenon
    <3>2. (\E i \in DOMAIN m : t \in m[i].from..m[i].to) <=> (\E x \in S : t \in x.from..x.to)
      BY Zenon DEF RangesOK
    <3> QED BY <3>1, <3>2, Zenon
  <2> QED BY <2>4, <2>5, <2>6, <2>7, Zenon DEF RangesOK, g
<1> QED BY <1>1, <1>2, Zenon

(* The bars of one more range are counted once: the ranges are apart       *)
(* (_estimate_unique_bars).                                                *)
LEMMA CountKeeps ==
  ASSUME NEW m \in Seq(RangeType), NEW S, RangesOK(m, S), NEW n \in Nat, n < Len(m)
  PROVE  /\ IsFiniteSet(Counted(m, n))
         /\ Cardinality(Counted(m, n + 1))
              = Cardinality(Counted(m, n)) + (m[n+1].to - m[n+1].from) + 1
<1> DEFINE B == Counted(m, n)
           r == m[n+1]
           T == r.from..r.to
<1>0. /\ n+1 \in 1..Len(m) /\ DOMAIN m = 1..Len(m) /\ LastBar \in Nat /\ Len(m) \in Nat
      /\ \A i \in 1..Len(m) : m[i] \in RangeType
  BY InventoryAssumption
<1>1. \A i \in 1..Len(m) : m[i].from \in 0..LastBar /\ m[i].to \in 0..LastBar
  <2>1. \A x \in RangeType : x.from \in 0..LastBar /\ x.to \in 0..LastBar
    BY Zenon DEF RangeType
  <2> QED BY <1>0, <2>1, Zenon
<1>2. r.from \in Int /\ r.to \in Int /\ r.from <= r.to
  BY <1>0, <1>1 DEF RangesOK
<1>3. \A t : t \in B <=> \E i \in 1..n : t \in m[i].from..m[i].to
  BY Zenon DEF Counted, BarsIn
<1>4. \A t : t \in Counted(m, n+1) <=> \E i \in 1..n+1 : t \in m[i].from..m[i].to
  BY Zenon DEF Counted, BarsIn
<1>5. IsFiniteSet(B)
  <2>1. B \in SUBSET (0..LastBar)
    <3> SUFFICES ASSUME NEW t \in B PROVE t \in 0..LastBar
      BY Zenon
    <3>1. PICK i \in 1..n : t \in m[i].from..m[i].to
      BY <1>3, Zenon
    <3>2. i \in 1..Len(m)
      BY <1>0
    <3> QED BY <3>1, <3>2, <1>1, <1>0
  <2>2. IsFiniteSet(0..LastBar)
    BY <1>0, FS_Interval
  <2> QED BY <2>1, <2>2, FS_Subset, Zenon
<1>6. IsFiniteSet(T) /\ Cardinality(T) = (r.to - r.from) + 1
  <2>1. \A a, b \in Int : a <= b => IsFiniteSet(a..b) /\ Cardinality(a..b) = (b - a) + 1
    <3> SUFFICES ASSUME NEW a \in Int, NEW b \in Int, a <= b
                 PROVE  IsFiniteSet(a..b) /\ Cardinality(a..b) = (b - a) + 1
      BY Zenon
    <3>1. IsFiniteSet(a..b) /\ Cardinality(a..b) = IF a > b THEN 0 ELSE b-a+1
      BY FS_Interval, Zenon
    <3> QED BY <3>1
  <2> QED BY <1>2, <2>1, Zenon
<1>7. B \cap T = {}
  <2> SUFFICES ASSUME NEW t \in B, t \in T PROVE FALSE
    BY Zenon
  <2>1. PICK i \in 1..n : t \in m[i].from..m[i].to
    BY <1>3, Zenon
  <2>2. i \in 1..Len(m) /\ i < n+1
    BY <1>0
  <2>3. m[i].to + 1 < r.from
    BY <2>2, <1>0, Zenon DEF RangesOK
  <2>4. m[i].to \in Int /\ m[i].from \in Int
    BY <2>2, <1>1
  <2> QED BY <2>1, <2>3, <2>4, <1>2
<1>8. Counted(m, n+1) = B \cup T
  <2>1. ASSUME NEW t, t \in Counted(m, n+1) PROVE t \in B \cup T
    <3>1. PICK i \in 1..n+1 : t \in m[i].from..m[i].to
      BY <1>4, <2>1, Zenon
    <3>2. i \in 1..n \/ i = n+1
      OBVIOUS
    <3> QED BY <3>1, <3>2, <1>3, Zenon
  <2>2. ASSUME NEW t \in B PROVE t \in Counted(m, n+1)
    <3>1. PICK i \in 1..n : t \in m[i].from..m[i].to
      BY <1>3, Zenon
    <3>2. i \in 1..n+1
      OBVIOUS
    <3> QED BY <3>1, <3>2, <1>4, Zenon
  <2>3. ASSUME NEW t \in T PROVE t \in Counted(m, n+1)
    <3>1. n+1 \in 1..n+1
      OBVIOUS
    <3> QED BY <3>1, <1>4, Zenon
  <2> HIDE DEF B, T
  <2> QED BY <2>1, <2>2, <2>3, Zenon
<1>9. Cardinality(B \cup T) = Cardinality(B) + Cardinality(T) - Cardinality(B \cap T)
  BY <1>5, <1>6, FS_Union, Zenon
<1>10. Cardinality(B) \in Nat
  BY <1>5, FS_CardinalityType, Zenon
<1> HIDE DEF B, T, r
<1>11. Cardinality(B \cup T) = Cardinality(B) + (r.to - r.from) + 1
  <2>1. Cardinality(B \cap T) = 0
    BY <1>7, FS_EmptySet, Zenon
  <2> QED BY <2>1, <1>2, <1>6, <1>9, <1>10
<1> QED BY <1>5, <1>8, <1>11, Zenon DEF B, r

(* A listing that has read nothing shows nothing.                          *)
LEMMA EmptyPageOK ==
  ASSUME NEW p, p.of = {}, p.left = {}, p.merged = <<>>, p.counted = 0, p.unique = 0,
         p.at \notin {"count", "shown"}
  PROVE  PageOK(p)
<1>1. DOMAIN p.merged = {} /\ Len(p.merged) = 0
  OBVIOUS
<1>2. RangesOK(p.merged, p.of \ p.left)
  BY <1>1, Zenon DEF RangesOK
<1>3. Counted(p.merged, 0) = {}
  BY DEF Counted, BarsIn
<1>4. Cardinality(Counted(p.merged, p.counted)) = 0
  BY <1>3, FS_EmptySet, Zenon
<1>5. p.counted <= Len(p.merged)
  BY <1>1
<1> HIDE DEF Counted
<1> QED BY <1>1, <1>2, <1>4, <1>5, Zenon DEF PageOK

(* What holds of the data page at all times.                               *)
InventoryInv ==
  /\ InventoryTypeOK
  /\ \A e \in entries : e.from <= e.to /\ e.id <= saved
  /\ PageOK(page)

(* Nothing is listed at the start.                                         *)
LEMMA InventoryInitInv == InventoryInit => InventoryInv
<1> SUFFICES ASSUME InventoryInit PROVE InventoryInv
  BY Zenon
<1>1. NoSeries \in SeriesType
  BY Zenon DEF NoSeries, SeriesType
<1>2. InventoryTypeOK
  <2>1. <<>> \in Seq(RangeType)
    OBVIOUS
  <2>2. deletion = NoDeletion /\ page = NoPage /\ entries = {} /\ saved = 0 /\ dirs = {}
    BY Zenon DEF InventoryInit
  <2>3. saved \in 0..MaxSaves
    BY <2>2, InventoryAssumption
  <2> QED BY <1>1, <2>1, <2>2, <2>3, Zenon DEF InventoryTypeOK, DeletionType, PageType, NoDeletion, NoPage
<1>3. PageOK(NoPage)
  <2>1. /\ NoPage.of = {} /\ NoPage.left = {} /\ NoPage.merged = <<>> /\ NoPage.counted = 0
        /\ NoPage.unique = 0 /\ NoPage.at \notin {"count", "shown"}
    BY Zenon DEF NoPage
  <2> QED BY <2>1, EmptyPageOK, Zenon
<1> QED BY <1>2, <1>3, Zenon DEF InventoryInv, InventoryInit

(* A listing keeps to the invariant: the stores are read, the ranges       *)
(* merged and counted (_data_series_inventory).                            *)
LEMMA ListingKeeps ==
  ASSUME InventoryInv,
         \/ \E s \in Listed : ListSeries(s)
         \/ ReadStore \/ CoalesceRange \/ Coalesced \/ CountRange \/ ShowSeries
  PROVE  InventoryInv'
<1>0. UNCHANGED <<entries, saved, dirs, deletion>>
  BY Zenon DEF ListSeries, ReadStore, CoalesceRange, Coalesced, CountRange, ShowSeries
<1> SUFFICES page' \in PageType /\ PageOK(page')
  BY <1>0, Zenon DEF InventoryInv, InventoryTypeOK
<1>1. page \in PageType /\ PageOK(page) /\ entries \subseteq EntryType
      /\ \A e \in entries : e.from <= e.to
  BY Zenon DEF InventoryInv, InventoryTypeOK
<1>2. CASE \E s \in Listed : ListSeries(s)
  <2>1. PICK s \in Listed : ListSeries(s)
    BY <1>2, Zenon
  <2>2. s \in SeriesType
    <3>1. PICK e \in entries : s = SeriesOf(e)
      BY Zenon DEF Listed
    <3>2. e \in EntryType
      BY <1>1, Zenon
    <3> QED BY <3>1, <3>2, Zenon DEF SeriesOf, SeriesType, EntryType
  <2>3. page' = [NoPage EXCEPT !.at = "cache", !.series = s]
    BY <2>1, Zenon DEF ListSeries
  <2>4. page' = [at |-> "cache", series |-> s, of |-> {}, left |-> {}, merged |-> <<>>,
                 counted |-> 0, unique |-> 0]
    BY <2>3, Zenon DEF NoPage
  <2>5. page' \in PageType
    BY <2>2, <2>4 DEF Stores, PageType
  <2>6. /\ page'.of = {} /\ page'.left = {} /\ page'.merged = <<>> /\ page'.counted = 0
        /\ page'.unique = 0 /\ page'.at \notin {"count", "shown"}
    BY <2>4, Zenon
  <2> QED BY <2>5, <2>6, EmptyPageOK, Zenon
<1>3. CASE ReadStore
  <2> DEFINE found == {e \in EntriesOf(page.series) : e.store = page.at}
  <2>1. /\ page'.at = AfterStore[page.at] /\ page'.of = page.of \cup found
        /\ page'.left = page.left \cup found /\ page'.merged = page.merged
        /\ page'.counted = page.counted /\ page'.unique = page.unique
        /\ page' = [at |-> page'.at, series |-> page.series, of |-> page'.of, left |-> page'.left,
                    merged |-> page.merged, counted |-> page.counted, unique |-> page.unique]
    BY <1>1, <1>3, Zenon DEF ReadStore, PageType
  <2>2. found \subseteq entries
    BY Zenon DEF EntriesOf
  <2> HIDE DEF found
  <2>3. AfterStore[page.at] \in {"segments", "manifests", "coalesce"} /\ page.at \in Stores
    BY <1>3 DEF ReadStore, Stores, AfterStore
  <2>4. page' \in PageType
    BY <2>1, <2>2, <2>3, <1>1 DEF Stores, PageType
  <2>5. page.merged = <<>> /\ page.left = page.of /\ page.counted = 0
    BY <2>3, <1>1, Zenon DEF PageOK, Stores
  <2>6. page'.of \ page'.left = page.of \ page.left
    BY <2>1, <2>5, Zenon
  <2>7. DOMAIN page'.merged = {}
    BY <2>1, <2>5
  <2>8. /\ \A e \in page'.of : e.from <= e.to
        /\ page'.left \subseteq page'.of
        /\ page'.left = page'.of
    BY <2>1, <2>2, <2>5, <1>1, Zenon DEF PageOK
  <2>9. RangesOK(page'.merged, page'.of \ page'.left) /\ page'.counted <= Len(page'.merged)
        /\ page'.unique = Cardinality(Counted(page'.merged, page'.counted))
    BY <2>1, <2>6, <1>1, Zenon DEF PageOK
  <2> QED BY <2>1, <2>3, <2>4, <2>5, <2>7, <2>8, <2>9, Zenon DEF PageOK
<1>4. CASE CoalesceRange
  <2>1. PICK e \in page.left : /\ \A x \in page.left : e.from <= x.from
                               /\ page' = [page EXCEPT !.left = @ \ {e}, !.merged = Merge(@, e)]
    BY <1>4, Zenon DEF CoalesceRange
  <2>2. /\ page'.at = page.at /\ page'.of = page.of /\ page'.left = page.left \ {e}
        /\ page'.merged = Merge(page.merged, e)
        /\ page'.counted = page.counted /\ page'.unique = page.unique
        /\ page' = [at |-> page.at, series |-> page.series, of |-> page.of, left |-> page'.left,
                    merged |-> page'.merged, counted |-> page.counted, unique |-> page.unique]
    BY <1>1, <2>1, Zenon DEF PageType
  <2>3. /\ e \in EntryType /\ e.from <= e.to /\ e \in page.of /\ page.merged \in Seq(RangeType)
        /\ page.of \ page.left \in SUBSET EntryType /\ page.at = "coalesce" /\ page.counted = 0
    BY <1>1, <1>4, Zenon DEF PageOK, CoalesceRange, PageType
  <2>4. RangesOK(page.merged, page.of \ page.left)
        /\ \A i \in DOMAIN page.merged : page.merged[i].from <= e.from
    BY <1>1, Zenon DEF PageOK
  <2>5. /\ page'.merged \in Seq(RangeType)
        /\ RangesOK(page'.merged, (page.of \ page.left) \cup {e})
        /\ \A i \in DOMAIN page'.merged : page'.merged[i].from <= e.from
    BY <2>2, <2>3, <2>4, MergeKeeps, Zenon
  <2>6. (page.of \ page.left) \cup {e} = page'.of \ page'.left
    BY <2>2, <2>3, Zenon
  <2>7. page' \in PageType
    <3>1. page'.left \in SUBSET EntryType
      BY <2>2, <1>1, Zenon DEF PageType
    <3> QED BY <3>1, <2>2, <2>5, <1>1 DEF PageType
  <2>8. \A i \in DOMAIN page'.merged, x \in page'.left : page'.merged[i].from <= x.from
    <3> SUFFICES ASSUME NEW i \in DOMAIN page'.merged, NEW x \in page'.left
                 PROVE  page'.merged[i].from <= x.from
      BY Zenon
    <3>1. page'.merged[i].from <= e.from /\ e.from <= x.from
      BY <2>1, <2>2, <2>5, Zenon
    <3>2. page'.merged[i] \in RangeType /\ x \in EntryType
      BY <2>5, <2>7 DEF PageType
    <3>3. page'.merged[i].from \in Int /\ e.from \in Int /\ x.from \in Int
      BY <3>2, <2>3 DEF RangeType, EntryType
    <3> QED BY <3>1, <3>3
  <2>9. Counted(page'.merged, 0) = Counted(page.merged, 0) /\ page'.counted <= Len(page'.merged)
    <3>1. 1..0 = {}
      OBVIOUS
    <3>2. Len(page'.merged) \in Nat
      BY <2>5
    <3>3. page'.counted <= Len(page'.merged)
      BY <3>2, <2>2, <2>3
    <3>4. Counted(page'.merged, 0) = {} /\ Counted(page.merged, 0) = {}
      BY <3>1, Zenon DEF Counted, BarsIn
    <3> QED BY <3>3, <3>4, Zenon
  <2>10. page'.unique = Cardinality(Counted(page'.merged, page'.counted))
    BY <2>2, <2>3, <2>9, <1>1, Zenon DEF PageOK
  <2>11. page'.left \subseteq page'.of /\ \A x \in page'.of : x.from <= x.to
    BY <2>2, <1>1, Zenon DEF PageOK
  <2>12. page'.at = "coalesce" /\ page'.counted = 0
    BY <2>2, <2>3, Zenon
  <2> QED BY <2>5, <2>6, <2>7, <2>8, <2>9, <2>10, <2>11, <2>12, Zenon DEF PageOK
<1>5. CASE Coalesced
  <2>1. /\ page' = [page EXCEPT !.at = "count"] /\ page.left = {} /\ page.at = "coalesce"
    BY <1>5, Zenon DEF Coalesced
  <2>2. page' \in PageType
    BY <2>1, <1>1, Zenon DEF PageType
  <2>3. /\ page'.at = "count" /\ page'.of = page.of /\ page'.left = page.left
        /\ page'.merged = page.merged /\ page'.counted = page.counted /\ page'.unique = page.unique
    BY <2>1, <1>1, Zenon DEF PageType
  <2> QED BY <2>1, <2>2, <2>3, <1>1, Zenon DEF PageOK
<1>6. CASE CountRange
  <2> DEFINE r == page.merged[page.counted + 1]
  <2>1. /\ page' = [page EXCEPT !.counted = @ + 1, !.unique = @ + (r.to - r.from) + 1]
        /\ page.at = "count" /\ page.counted < Len(page.merged)
    BY <1>6, Zenon DEF CountRange
  <2>2. /\ page'.at = page.at /\ page'.of = page.of /\ page'.left = page.left
        /\ page'.merged = page.merged /\ page'.counted = page.counted + 1
        /\ page'.unique = page.unique + (r.to - r.from) + 1
        /\ page' = [at |-> page.at, series |-> page.series, of |-> page.of, left |-> page.left,
                    merged |-> page.merged, counted |-> page.counted + 1, unique |-> page'.unique]
    BY <2>1, <1>1, Zenon DEF PageType
  <2>3. /\ page.merged \in Seq(RangeType) /\ page.counted \in Nat
        /\ RangesOK(page.merged, page.of \ page.left)
        /\ page.unique = Cardinality(Counted(page.merged, page.counted))
    BY <1>1, Zenon DEF PageOK, PageType
  <2>4. /\ Cardinality(Counted(page.merged, page.counted + 1))
              = Cardinality(Counted(page.merged, page.counted)) + (r.to - r.from) + 1
    BY <2>1, <2>3, CountKeeps, Zenon
  <2>5. page'.unique = Cardinality(Counted(page'.merged, page'.counted))
    BY <2>2, <2>3, <2>4, Zenon
  <2>6. r.from \in Int /\ r.to \in Int /\ r.from <= r.to
    <3>1. page.counted + 1 \in 1..Len(page.merged) /\ DOMAIN page.merged = 1..Len(page.merged)
      BY <2>1, <2>3
    <3>2. r \in RangeType /\ r.from <= r.to
      BY <3>1, <2>3 DEF RangesOK
    <3> HIDE DEF r
    <3> QED BY <3>2 DEF RangeType
  <2>7. page'.unique \in Nat
    <3> HIDE DEF r
    <3> QED BY <2>2, <2>6, <1>1 DEF PageType
  <2>8. page'.counted <= Len(page'.merged)
    BY <2>1, <2>2, <2>3
  <2> HIDE DEF r
  <2>9. page' \in PageType
    BY <2>2, <2>7, <1>1 DEF PageType
  <2> QED BY <2>1, <2>2, <2>5, <2>8, <2>9, <1>1, Zenon DEF PageOK
<1>7. CASE ShowSeries
  <2>1. /\ page' = [page EXCEPT !.at = "shown"] /\ page.at = "count"
        /\ page.counted = Len(page.merged)
    BY <1>7, Zenon DEF ShowSeries
  <2>2. page' \in PageType
    BY <2>1, <1>1, Zenon DEF PageType
  <2>3. /\ page'.at = "shown" /\ page'.of = page.of /\ page'.left = page.left
        /\ page'.merged = page.merged /\ page'.counted = page.counted /\ page'.unique = page.unique
    BY <2>1, <1>1, Zenon DEF PageType
  <2> QED BY <2>1, <2>2, <2>3, <1>1, Zenon DEF PageOK
<1> QED BY <1>2, <1>3, <1>4, <1>5, <1>6, <1>7, Zenon

(* An entry that is saved is one, with a number of its own.                *)
LEMMA SaveKeeps ==
  ASSUME InventoryInv, NEW store \in Stores, NEW m \in RawMarkets, NEW k \in Kinds,
         NEW f \in 0..LastBar, NEW t \in 0..LastBar, Save(store, m, k, f, t)
  PROVE  /\ InventoryInv' /\ UNCHANGED <<deletion, page>> /\ saved' = saved + 1
         /\ \A e \in entries' : e \in entries \/ e.id = saved + 1
<1> DEFINE e0 == [store |-> store, market |-> m, kind |-> k, from |-> f, to |-> t, id |-> saved + 1]
<1>1. /\ saved < MaxSaves /\ f <= t /\ saved' = saved + 1 /\ entries' = entries \cup {e0}
      /\ dirs' = (IF store = "segments" THEN dirs \cup {<<m, k>>} ELSE dirs)
      /\ UNCHANGED <<deletion, page>>
  BY Zenon DEF Save
<1>2. saved \in Nat /\ MaxSaves \in Nat /\ saved' \in 0..MaxSaves /\ saved + 1 \in 1..MaxSaves
  BY <1>1, InventoryAssumption DEF InventoryInv, InventoryTypeOK
<1>3. e0 \in EntryType /\ e0.from <= e0.to /\ e0.id = saved + 1
  BY <1>1, <1>2, Zenon DEF EntryType
<1> HIDE DEF e0
<1>4. entries' \subseteq EntryType
  BY <1>1, <1>3, Zenon DEF InventoryInv, InventoryTypeOK
<1>5. dirs' \subseteq RawMarkets \X Kinds
  BY <1>1 DEF InventoryInv, InventoryTypeOK
<1>6. \A e \in entries' : e.from <= e.to /\ e.id <= saved'
  <2>1. \A e \in entries : e.from <= e.to /\ e.id <= saved /\ e.id \in Nat
    <3>1. \A e \in EntryType : e.id \in Nat
      BY InventoryAssumption DEF EntryType
    <3> QED BY <3>1, Zenon DEF InventoryInv, InventoryTypeOK
  <2> QED BY <2>1, <1>1, <1>2, <1>3
<1>7. InventoryTypeOK'
  BY <1>1, <1>2, <1>4, <1>5, Zenon DEF InventoryInv, InventoryTypeOK
<1>8. PageOK(page)'
  BY <1>1, Zenon DEF InventoryInv
<1> QED BY <1>1, <1>3, <1>6, <1>7, <1>8, Zenon DEF InventoryInv

(* A refresh saves the bars after the newest one (refresh_data_series).    *)
LEMMA RefreshSaves ==
  ASSUME InventoryInv, NEW s \in Listed, RefreshSeries(s)
  PROVE  \E store \in Stores, m \in RawMarkets, k \in Kinds, f, t \in 0..LastBar : Save(store, m, k, f, t)
<1>1. PICK latest \in EntriesOf(s) : /\ latest.to < LastBar /\ s.market \in RawMarkets
                                     /\ Save("segments", s.market, "trade", latest.to + 1, LastBar)
  BY Zenon DEF RefreshSeries
<1>2. latest \in EntryType
  BY Zenon DEF EntriesOf, InventoryInv, InventoryTypeOK
<1>3. latest.to + 1 \in 0..LastBar /\ LastBar \in 0..LastBar
  BY <1>1, <1>2, InventoryAssumption DEF EntryType
<1>4. "segments" \in Stores /\ "trade" \in Kinds
  BY InventoryAssumption, Zenon DEF Stores
<1> QED BY <1>1, <1>3, <1>4, Zenon

(* A step of a deletion takes entries away and leaves the listing alone.   *)
LEMMA DeletionKeeps ==
  ASSUME InventoryInv,
         \/ \E s \in Listed : DeleteFind(s)
         \/ DeleteCacheFiles \/ DeleteSegmentRows \/ DeleteSegmentDirs \/ DeleteManifests \/ DeleteRaises
  PROVE  InventoryInv'
<1>1. entries \subseteq EntryType /\ deletion \in DeletionType /\ dirs \subseteq RawMarkets \X Kinds
  BY Zenon DEF InventoryInv, InventoryTypeOK
<1> SUFFICES /\ entries' \subseteq entries /\ dirs' \subseteq dirs /\ deletion' \in DeletionType
             /\ saved' = saved /\ page' = page
  BY <1>1, Zenon DEF InventoryInv, InventoryTypeOK
<1>2. CASE \E s \in Listed : DeleteFind(s)
  <2>1. PICK s \in Listed : DeleteFind(s)
    BY <1>2, Zenon
  <2>2. s \in SeriesType
    <3>1. PICK e \in entries : s = SeriesOf(e)
      BY Zenon DEF Listed
    <3>2. e \in EntryType
      BY <1>1, Zenon
    <3> QED BY <3>1, <3>2, Zenon DEF SeriesOf, SeriesType, EntryType
  <2> DEFINE K == {e.kind : e \in {x \in EntriesOf(s) : x.store = "segments"}}
  <2>3. EntriesOf(s) \in SUBSET EntryType
    BY <1>1, Zenon DEF EntriesOf
  <2>4. K \in SUBSET Kinds
    BY <2>3, Zenon DEF EntryType
  <2>5. deletion' = [at |-> "cache", series |-> s, kinds |-> K, found |-> EntriesOf(s),
                     failed |-> {}, answer |-> "none"]
        /\ UNCHANGED <<entries, saved, dirs, page>>
    BY <2>1, Zenon DEF DeleteFind
  <2> HIDE DEF K
  <2> QED BY <2>2, <2>3, <2>4, <2>5, Zenon DEF DeletionType
<1>3. ASSUME NEW all \in SUBSET entries, NEW gone \in SUBSET entries,
             NEW step \in {"segments", "dirs"}, Delete(all, gone, step)
      PROVE  /\ entries' \subseteq entries /\ dirs' = dirs /\ deletion' \in DeletionType
             /\ saved' = saved /\ page' = page
  <2>1. all \ gone \in SUBSET EntryType
    BY <1>1, Zenon
  <2> QED BY <1>1, <1>3, <2>1, Zenon DEF Delete, DeletionType
<1>4. CASE DeleteCacheFiles
  BY <1>4, <1>3, Zenon DEF DeleteCacheFiles, CacheFiles
<1>5. CASE DeleteSegmentRows
  BY <1>5, <1>3, Zenon DEF DeleteSegmentRows, SegmentRows
<1>6. CASE DeleteSegmentDirs
  BY <1>1, <1>6, Zenon DEF DeleteSegmentDirs, DeletionType
<1>7. CASE DeleteManifests
  BY <1>1, <1>7, Zenon DEF DeleteManifests, DeletionType
<1>8. CASE DeleteRaises
  BY <1>1, <1>8, Zenon DEF DeleteRaises, DeletionType
<1> QED BY <1>2, <1>4, <1>5, <1>6, <1>7, <1>8, Zenon

(* Every step of the data page keeps the invariant.                        *)
THEOREM InventoryInductive == InventoryInv /\ [InventoryNext]_inventoryVars => InventoryInv'
<1> SUFFICES ASSUME InventoryInv, [InventoryNext]_inventoryVars PROVE InventoryInv'
  BY Zenon
<1>1. CASE UNCHANGED inventoryVars
  <2>1. UNCHANGED <<entries, saved, dirs, deletion, page>>
    BY <1>1, Zenon DEF inventoryVars
  <2> QED BY <2>1, Zenon DEF InventoryInv, InventoryTypeOK
<1>2. CASE \E store \in Stores, m \in RawMarkets, k \in Kinds, f, t \in 0..LastBar :
             Save(store, m, k, f, t)
  BY <1>2, SaveKeeps, Zenon
<1>3. CASE \E s \in Listed : RefreshSeries(s)
  BY <1>3, RefreshSaves, SaveKeeps, Zenon
<1>4. CASE \/ \E s \in Listed : ListSeries(s)
           \/ ReadStore \/ CoalesceRange \/ Coalesced \/ CountRange \/ ShowSeries
  BY <1>4, ListingKeeps, Zenon
<1>5. CASE \/ \E s \in Listed : DeleteFind(s)
           \/ DeleteCacheFiles \/ DeleteSegmentRows \/ DeleteSegmentDirs \/ DeleteManifests \/ DeleteRaises
  BY <1>5, DeletionKeeps, Zenon
<1> QED BY <1>1, <1>2, <1>3, <1>4, <1>5, Zenon DEF InventoryNext

(* The ranges of a page that is shown are those of the entries it was made *)
(* from.                                                                   *)
LEMMA ShownIsExact == InventoryInv => InventoryTypeOK /\ RangesAreExact
<1> SUFFICES ASSUME InventoryInv, page.at = "shown"
             PROVE  LET ranges == page.merged
                    IN  /\ BarsIn({ranges[i] : i \in DOMAIN ranges}) = BarsIn(page.of)
                        /\ \A i, j \in DOMAIN ranges : i < j => ranges[i].to + 1 < ranges[j].from
                        /\ page.unique = Cardinality(BarsIn(page.of))
  BY Zenon DEF RangesAreExact, InventoryInv
<1> DEFINE m == page.merged
<1>1. /\ page.left = {} /\ page.counted = Len(m) /\ RangesOK(m, page.of \ page.left)
      /\ page.unique = Cardinality(Counted(m, page.counted)) /\ page \in PageType
  BY Zenon DEF InventoryInv, InventoryTypeOK, PageOK
<1>2. m \in Seq(RangeType) /\ page.of \in SUBSET EntryType /\ DOMAIN m = 1..Len(m)
  BY <1>1 DEF PageType
<1>3. RangesOK(m, page.of)
  <2>1. page.of \ page.left = page.of
    BY <1>1, Zenon
  <2> QED BY <1>1, <2>1, Zenon
<1> HIDE DEF m
<1>4. Counted(m, page.counted) = BarsIn({m[i] : i \in DOMAIN m})
  BY <1>1, <1>2, Zenon DEF Counted
<1>5. BarsIn({m[i] : i \in DOMAIN m}) = BarsIn(page.of)
  <2>1. ASSUME NEW t PROVE t \in BarsIn({m[i] : i \in DOMAIN m})
                             <=> t \in Int /\ \E i \in DOMAIN m : t \in m[i].from..m[i].to
    <3>1. ASSUME NEW i \in DOMAIN m PROVE m[i].from..m[i].to \subseteq Int
      <4>1. m[i] \in RangeType
        BY <1>2
      <4> QED BY <4>1
    <3>2. t \in BarsIn({m[i] : i \in DOMAIN m}) <=> \E i \in DOMAIN m : t \in m[i].from..m[i].to
      BY Zenon DEF BarsIn
    <3> QED BY <3>1, <3>2, Zenon
  <2>2. ASSUME NEW t PROVE t \in BarsIn(page.of)
                             <=> t \in Int /\ \E e \in page.of : t \in e.from..e.to
    <3>1. ASSUME NEW e \in page.of PROVE e.from..e.to \subseteq Int
      <4>1. e \in EntryType
        BY <1>2, Zenon
      <4> QED BY <4>1
    <3>2. t \in BarsIn(page.of) <=> \E e \in page.of : t \in e.from..e.to
      BY Zenon DEF BarsIn
    <3> QED BY <3>1, <3>2, Zenon
  <2>3. \A t \in Int : (\E i \in DOMAIN m : t \in m[i].from..m[i].to) <=> (\E e \in page.of : t \in e.from..e.to)
    BY <1>3, Zenon DEF RangesOK
  <2>4. \A t : t \in BarsIn({m[i] : i \in DOMAIN m}) <=> t \in BarsIn(page.of)
    BY <2>1, <2>2, <2>3, Zenon
  <2> DEFINE X == BarsIn({m[i] : i \in DOMAIN m})
             Y == BarsIn(page.of)
  <2>5. \A t : t \in X <=> t \in Y
    BY <2>4, Zenon
  <2> HIDE DEF X, Y
  <2>6. X = Y
    BY <2>5, Zenon
  <2> QED BY <2>6, Zenon DEF X, Y
<1>6. \A i, j \in DOMAIN m : i < j => m[i].to + 1 < m[j].from
  BY <1>3, Zenon DEF RangesOK
<1> QED BY <1>1, <1>4, <1>5, <1>6, Zenon DEF m

(* The ranges and the number of bars the data page shows of a series are   *)
(* exactly those of the files and rows it was found in, for any markets,   *)
(* kinds and bars, whatever is saved and deleted while the stores are read *)
(* (_data_series_inventory, _coalesce_ranges, _estimate_unique_bars).      *)
THEOREM InventoryRangesAreExact == InventorySpec => [](InventoryTypeOK /\ RangesAreExact)
<1> QED BY InventoryInitInv, InventoryInductive, ShownIsExact, PTL DEF InventorySpec

-----------------------------------------------------------------------------
(* What a deletion reports                                                 *)

\* The markets saved with are those shown: deletion looks for the shown name.
NamesAsShown == \A m \in RawMarkets : MarketTypeMap[m] = m

Passed(store) == \A e \in deletion.found \cap entries : e.store = store => e \in deletion.failed

\* How far a deletion is: of the stores behind it nothing that was found is left but
\* what failed; what is saved meanwhile was not found.
DeletionInv ==
  /\ InventoryInv
  /\ \A e \in deletion.found : SeriesOf(e) = deletion.series /\ e.id <= saved
  /\ deletion.at \in {"segments", "dirs", "manifests"} => Passed("cache")
  /\ deletion.at \in {"dirs", "manifests"} => Passed("segments")
  /\ deletion.at # "idle" => deletion.answer # "deleted"
  /\ DeletedIsGone

(* Nothing was found at the start.                                         *)
LEMMA DeletionInitInv == InventoryInit => DeletionInv
<1> SUFFICES ASSUME InventoryInit PROVE DeletionInv
  BY Zenon
<1>1. deletion.found = {} /\ deletion.at = "idle" /\ deletion.answer = "none"
  BY Zenon DEF InventoryInit, NoDeletion
<1> QED BY <1>1, InventoryInitInv, Zenon DEF DeletionInv, DeletedIsGone

(* Under the names as they are shown, what was found has the name that is  *)
(* deleted.                                                                *)
LEMMA FoundIsNamed ==
  ASSUME NamesAsShown, DeletionInv, NEW e \in deletion.found
  PROVE  e.market = deletion.series.market /\ e.kind = deletion.series.kind /\ e.store \in Stores
<1>1. e \in EntryType
  BY Zenon DEF DeletionInv, InventoryInv, InventoryTypeOK, DeletionType
<1>2. SeriesOf(e) = deletion.series
  BY Zenon DEF DeletionInv
<1>3. MarketTypeMap[e.market] = e.market /\ e.store \in Stores
  BY <1>1, Zenon DEF NamesAsShown, EntryType
<1> QED BY <1>2, <1>3 DEF SeriesOf

(* Every step keeps what a deletion has behind it.                         *)
THEOREM DeletionInductive ==
  ASSUME NamesAsShown PROVE DeletionInv /\ [InventoryNext]_inventoryVars => DeletionInv'
<1> SUFFICES ASSUME DeletionInv, [InventoryNext]_inventoryVars PROVE DeletionInv'
  BY Zenon
<1>0. InventoryInv /\ InventoryInv' /\ deletion \in DeletionType
  BY InventoryInductive, Zenon DEF DeletionInv, InventoryInv, InventoryTypeOK
<1>1. CASE UNCHANGED <<entries, saved, deletion>>
  BY <1>0, <1>1, Zenon DEF DeletionInv, Passed, DeletedIsGone
<1>2. CASE \E store \in Stores, m \in RawMarkets, k \in Kinds, f, t \in 0..LastBar :
             Save(store, m, k, f, t)
  <2>1. /\ UNCHANGED <<deletion, page>> /\ saved' = saved + 1
        /\ \A e \in entries' : e \in entries \/ e.id = saved + 1
    BY <1>0, <1>2, SaveKeeps, Zenon
  <2>2. \A e \in deletion.found : e.id \in Int /\ e.id <= saved /\ saved \in Int
    <3>1. \A e \in deletion.found : e \in EntryType
      BY <1>0, Zenon DEF DeletionType
    <3>2. \A e \in EntryType : e.id \in Int
      BY InventoryAssumption DEF EntryType
    <3>3. saved \in Int
      BY <1>0 DEF InventoryInv, InventoryTypeOK
    <3> QED BY <3>1, <3>2, <3>3, Zenon DEF DeletionInv
  <2>3. \A e \in deletion.found : e.id # saved + 1 /\ e.id <= saved + 1
    BY <2>2
  <2>4. deletion.found \cap entries' \subseteq entries
    BY <2>1, <2>3, Zenon
  <2>5. (Passed("cache") => Passed("cache")') /\ (Passed("segments") => Passed("segments")')
    BY <2>1, <2>4, Zenon DEF Passed
  <2>6. DeletedIsGone'
    BY <2>1, <2>4, Zenon DEF DeletionInv, DeletedIsGone
  <2> QED BY <1>0, <2>1, <2>3, <2>5, <2>6, Zenon DEF DeletionInv
<1>3. CASE \E s \in Listed : DeleteFind(s)
  <2>1. PICK s \in Listed : DeleteFind(s)
    BY <1>3, Zenon
  <2>2. /\ deletion'.at = "cache" /\ deletion'.series = s /\ deletion'.found = EntriesOf(s)
        /\ deletion'.answer = "none" /\ UNCHANGED <<entries, saved>>
    BY <2>1, Zenon DEF DeleteFind
  <2>3. \A e \in EntriesOf(s) : SeriesOf(e) = s /\ e.id <= saved
    BY <1>0, Zenon DEF EntriesOf, InventoryInv
  <2> QED BY <1>0, <2>2, <2>3, Zenon DEF DeletionInv, DeletedIsGone
<1>4. ASSUME NEW all, NEW gone, NEW step, Delete(all, gone, step)
      PROVE  /\ entries' = entries \ gone /\ saved' = saved
             /\ deletion'.at = step /\ deletion'.found = deletion.found
             /\ deletion'.failed = deletion.failed \cup (all \ gone)
             /\ deletion'.series = deletion.series /\ deletion'.answer = deletion.answer
  BY <1>0, <1>4, Zenon DEF Delete, DeletionType
<1>5. CASE DeleteCacheFiles
  <2>1. PICK gone \in SUBSET CacheFiles : Delete(CacheFiles, gone, "segments")
    BY <1>5, Zenon DEF DeleteCacheFiles
  <2>2. /\ entries' = entries \ gone /\ saved' = saved
        /\ deletion'.at = "segments" /\ deletion'.found = deletion.found
        /\ deletion'.failed = deletion.failed \cup (CacheFiles \ gone)
        /\ deletion'.series = deletion.series /\ deletion'.answer = deletion.answer
    BY <1>4, <2>1, Zenon
  <2>3. Passed("cache")'
    <3> SUFFICES ASSUME NEW e, e \in deletion.found, e \in entries \ gone, e.store = "cache"
                 PROVE  e \in deletion.failed \cup (CacheFiles \ gone)
      BY <2>2, Zenon DEF Passed
    <3>1. e \in CacheFiles
      BY FoundIsNamed, Zenon DEF CacheFiles
    <3> QED BY <3>1, Zenon
  <2>4. deletion.answer # "deleted"
    BY <1>5, Zenon DEF DeletionInv, DeleteCacheFiles
  <2> QED BY <1>0, <2>2, <2>3, <2>4, Zenon DEF DeletionInv, DeletedIsGone
<1>6. CASE DeleteSegmentRows
  <2>1. PICK gone \in {{}, SegmentRows} : Delete(SegmentRows, gone, "dirs")
    BY <1>6, Zenon DEF DeleteSegmentRows
  <2>2. /\ entries' = entries \ gone /\ saved' = saved
        /\ deletion'.at = "dirs" /\ deletion'.found = deletion.found
        /\ deletion'.failed = deletion.failed \cup (SegmentRows \ gone)
        /\ deletion'.series = deletion.series /\ deletion'.answer = deletion.answer
    BY <1>4, <2>1, Zenon
  <2>3. Passed("segments")'
    <3> SUFFICES ASSUME NEW e, e \in deletion.found, e \in entries \ gone, e.store = "segments"
                 PROVE  e \in deletion.failed \cup (SegmentRows \ gone)
      BY <2>2, Zenon DEF Passed
    <3>1. e \in SegmentRows
      BY FoundIsNamed, Zenon DEF SegmentRows
    <3> QED BY <3>1, Zenon
  <2>4. Passed("cache") /\ deletion.answer # "deleted"
    BY <1>6, Zenon DEF DeletionInv, DeleteSegmentRows
  <2>5. Passed("cache")'
    BY <2>2, <2>4, Zenon DEF Passed
  <2> QED BY <1>0, <2>2, <2>3, <2>4, <2>5, Zenon DEF DeletionInv, DeletedIsGone
<1>7. CASE DeleteSegmentDirs
  <2>1. /\ deletion'.at = "manifests" /\ deletion'.found = deletion.found
        /\ deletion'.failed = deletion.failed /\ deletion'.series = deletion.series
        /\ deletion'.answer = deletion.answer /\ UNCHANGED <<entries, saved>> /\ deletion.at = "dirs"
    BY <1>0, <1>7, Zenon DEF DeleteSegmentDirs, DeletionType
  <2>2. Passed("cache")' /\ Passed("segments")' /\ deletion.answer # "deleted"
    BY <2>1, Zenon DEF DeletionInv, Passed
  <2> QED BY <1>0, <2>1, <2>2, Zenon DEF DeletionInv, DeletedIsGone
<1>8. CASE DeleteManifests
  <2>1. /\ deletion'.at = "idle" /\ deletion'.found = deletion.found
        /\ deletion'.failed = deletion.failed /\ deletion'.series = deletion.series
        /\ deletion'.answer = "deleted" /\ saved' = saved /\ deletion.at = "manifests"
    BY <1>0, <1>8, Zenon DEF DeleteManifests, DeletionType
  <2>2. \A e \in entries' : e \in entries /\ ~(/\ e.store = "manifests" /\ e.market = deletion.series.market
                                             /\ e.kind = deletion.series.kind)
    BY <1>8, Zenon DEF DeleteManifests
  <2>3. Passed("cache") /\ Passed("segments")
    BY <2>1, Zenon DEF DeletionInv
  <2>4. DeletedIsGone'
    <3> SUFFICES ASSUME NEW e, e \in deletion.found, e \in entries' PROVE e \in deletion.failed
      BY <2>1, Zenon DEF DeletedIsGone
    <3>1. e.store \in {"cache", "segments"}
      BY <2>2, FoundIsNamed, Zenon DEF Stores
    <3> QED BY <3>1, <2>2, <2>3, Zenon DEF Passed
  <2> QED BY <1>0, <2>1, <2>4, Zenon DEF DeletionInv
<1>9. CASE DeleteRaises
  <2>1. /\ deletion'.at = "idle" /\ deletion'.found = deletion.found
        /\ deletion'.series = deletion.series
        /\ deletion'.answer = "500" /\ UNCHANGED <<entries, saved>>
    BY <1>0, <1>9, Zenon DEF DeleteRaises, DeletionType
  <2> QED BY <1>0, <2>1, Zenon DEF DeletionInv, DeletedIsGone
<1>10. CASE \E s \in Listed : RefreshSeries(s)
  BY <1>0, <1>2, <1>10, RefreshSaves, Zenon
<1>11. CASE \/ \E s \in Listed : ListSeries(s)
            \/ ReadStore \/ CoalesceRange \/ Coalesced \/ CountRange \/ ShowSeries
  BY <1>1, <1>11, Zenon DEF ListSeries, ReadStore, CoalesceRange, Coalesced, CountRange, ShowSeries
<1>12. CASE UNCHANGED inventoryVars
  BY <1>1, <1>12, Zenon DEF inventoryVars
<1> QED BY <1>2, <1>3, <1>5, <1>6, <1>7, <1>8, <1>9, <1>10, <1>11, <1>12, Zenon DEF InventoryNext

(* The data page tells the truth, for any markets saved under the name     *)
(* they are shown with, any kinds and bars: types are kept, what is shown  *)
(* is exact, and what delete_data_series reports as deleted is gone but    *)
(* for what it logged as impossible to delete, although entries are saved  *)
(* between the deletions of the three stores.                              *)
THEOREM DataInventoryIsTrue == ASSUME NamesAsShown PROVE InventorySpec => []InventoryIsTrue
<1>1. DeletionInv => InventoryIsTrue
  BY ShownIsExact, Zenon DEF DeletionInv, InventoryIsTrue
<1>2. DeletionInv /\ [InventoryNext]_inventoryVars => DeletionInv'
  BY DeletionInductive, Zenon
<1> QED BY <1>1, <1>2, DeletionInitInv, PTL DEF InventorySpec
=============================================================================
