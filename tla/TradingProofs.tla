--------------------------- MODULE TradingProofs ---------------------------
(* Proofs about the path from a closed candle to an order: the bar         *)
(* pipeline for any strategies, timeframes, bars and workers, the order    *)
(* table for any managers and orders, and the execution router with its    *)
(* risk limits for any accounts, submitters and rules.                     *)
EXTENDS BarPipeline, OrderTable, OrderExecution, FiniteSetTheorems, TLAPS

-----------------------------------------------------------------------------
(* Lemmas on the scheduler's queue                                         *)

LEMMA EmptyQueue == ASSUME NEW S PROVE <<>> \in Seq(S)
OBVIOUS

LEMMA Joined ==
    ASSUME NEW S, NEW s1 \in Seq(S), NEW s2 \in Seq(S)
    PROVE  /\ s1 \o s2 \in Seq(S)
           /\ Len(s1 \o s2) = Len(s1) + Len(s2)
           /\ \A i \in 1..(Len(s1) + Len(s2)) :
                  (s1 \o s2)[i] = IF i <= Len(s1) THEN s1[i] ELSE s2[i - Len(s1)]
OBVIOUS

(* r is q with e put in after its first n elements.                        *)
IsInsertion(r, q, n, e) ==
    /\ Len(r) = Len(q) + 1
    /\ \A i \in 1..(Len(q) + 1) :
           r[i] = IF i <= n THEN q[i] ELSE IF i = n + 1 THEN e ELSE q[i - 1]

(* What the code's insertion by slices builds.                             *)
LEMMA InsertAfter ==
    ASSUME NEW S, NEW q \in Seq(S), NEW e \in S, NEW n \in 0..Len(q)
    PROVE  /\ SubSeq(q, 1, n) \o <<e>> \o SubSeq(q, n + 1, Len(q)) \in Seq(S)
           /\ IsInsertion(SubSeq(q, 1, n) \o <<e>> \o SubSeq(q, n + 1, Len(q)), q, n, e)
<1>0. Len(q) \in Nat /\ n \in Nat
  OBVIOUS
<1> DEFINE a == SubSeq(q, 1, n)
           b == SubSeq(q, n + 1, Len(q))
           c == a \o <<e>>
           r == c \o b
<1>1. /\ a \in Seq(S) /\ Len(a) = n
      /\ \A i \in 1..n : a[i] = q[i]
  OBVIOUS
<1>2. /\ b \in Seq(S) /\ Len(b) = Len(q) - n
      /\ \A i \in 1..(Len(q) - n) : b[i] = q[n + i]
  OBVIOUS
<1> HIDE DEF a, b
<1>3. /\ c \in Seq(S) /\ Len(c) = n + 1
      /\ \A i \in 1..(n + 1) : c[i] = IF i <= n THEN q[i] ELSE e
  BY <1>1
<1> HIDE DEF c
<1>4. /\ r \in Seq(S) /\ Len(r) = Len(c) + Len(b)
      /\ \A i \in 1..(Len(c) + Len(b)) :
             r[i] = IF i <= Len(c) THEN c[i] ELSE b[i - Len(c)]
  BY <1>2, <1>3, Joined, Zenon
<1> HIDE DEF r
<1>5. Len(c) + Len(b) = Len(q) + 1
  BY <1>0, <1>2, <1>3
<1>6. ASSUME NEW i \in 1..(Len(q) + 1)
      PROVE  r[i] = IF i <= n THEN q[i] ELSE IF i = n + 1 THEN e ELSE q[i - 1]
  <2>1. CASE i <= n + 1
    BY <2>1, <1>0, <1>3, <1>4, <1>5
  <2>2. CASE i > n + 1
    <3>1. i - (n + 1) \in 1..(Len(q) - n) /\ n + (i - (n + 1)) = i - 1
      BY <2>2, <1>0
    <3>2. r[i] = b[i - (n + 1)]
      BY <2>2, <1>0, <1>3, <1>4, <1>5
    <3>3. b[i - (n + 1)] = q[n + (i - (n + 1))]
      BY <3>1, <1>2, Zenon
    <3> QED BY <2>2, <3>1, <3>2, <3>3, <1>0
  <2> QED BY <2>1, <2>2, <1>0
<1>7. IsInsertion(r, q, n, e)
  BY <1>4, <1>5, <1>6, Zenon DEF IsInsertion
<1> QED BY <1>4, <1>7, Zenon DEF a, b, c, r

(* r is q without its element at k.                                        *)
IsRemoval(r, q, k) ==
    /\ Len(r) = Len(q) - 1
    /\ \A i \in 1..(Len(q) - 1) : r[i] = IF i < k THEN q[i] ELSE q[i + 1]

(* What the code's pop from the queue leaves.                              *)
LEMMA Without ==
    ASSUME NEW S, NEW q \in Seq(S), NEW k \in 1..Len(q)
    PROVE  /\ SubSeq(q, 1, k - 1) \o SubSeq(q, k + 1, Len(q)) \in Seq(S)
           /\ IsRemoval(SubSeq(q, 1, k - 1) \o SubSeq(q, k + 1, Len(q)), q, k)
<1>0. Len(q) \in Nat /\ k \in Nat
  OBVIOUS
<1> DEFINE a == SubSeq(q, 1, k - 1)
           b == SubSeq(q, k + 1, Len(q))
<1>1. /\ a \in Seq(S) /\ Len(a) = k - 1
      /\ \A i \in 1..(k - 1) : a[i] = q[i]
  OBVIOUS
<1>2. /\ b \in Seq(S) /\ Len(b) = Len(q) - k
      /\ \A i \in 1..(Len(q) - k) : b[i] = q[k + i]
  OBVIOUS
<1> HIDE DEF a, b
<1>3. /\ a \o b \in Seq(S) /\ Len(a \o b) = Len(a) + Len(b)
      /\ \A i \in 1..(Len(a) + Len(b)) :
             (a \o b)[i] = IF i <= Len(a) THEN a[i] ELSE b[i - Len(a)]
  BY <1>1, <1>2, Joined, Zenon
<1> DEFINE r == a \o b
<1> HIDE DEF r
<1>4. \A i \in 1..(Len(q) - 1) : r[i] = IF i < k THEN q[i] ELSE q[i + 1]
  <2> SUFFICES ASSUME NEW i \in 1..(Len(q) - 1)
               PROVE  r[i] = IF i < k THEN q[i] ELSE q[i + 1]
    BY Zenon
  <2>1. Len(a) + Len(b) = Len(q) - 1
    BY <1>1, <1>2
  <2>2. CASE i < k
    BY <2>1, <2>2, <1>1, <1>3 DEF r
  <2>3. CASE i >= k
    <3>1. i - (k - 1) \in 1..(Len(q) - k) /\ k + (i - (k - 1)) = i + 1
      BY <2>3
    <3>2. r[i] = b[i - (k - 1)] /\ b[i - (k - 1)] = q[k + (i - (k - 1))]
      BY <2>1, <2>3, <3>1, <1>0, <1>1, <1>2, <1>3 DEF r
    <3> QED BY <2>3, <3>1, <3>2, <1>0
  <2> QED BY <2>2, <2>3, <1>0
<1>5. r \in Seq(S) /\ Len(r) = Len(q) - 1
  BY <1>1, <1>2, <1>3 DEF r
<1>6. IsRemoval(r, q, k)
  BY <1>4, <1>5, Zenon DEF IsRemoval
<1> QED BY <1>5, <1>6, Zenon DEF a, b, r

(* enqueue puts the job somewhere into the queue and leaves the order of   *)
(* the others as it was (_requeue_sort).                                   *)
LEMMA InsertedInQueue ==
    ASSUME SchedTypeOK, NEW j \in Jobs, NEW t
    PROVE  /\ Inserted(j, t) \in Seq(Jobs)
           /\ \E n \in 0..Len(queue) : IsInsertion(Inserted(j, t), queue, n, j)
<1> DEFINE B == {i \in DOMAIN queue : StaysBefore(queue[i], j, t)}
           n == Cardinality(B)
<1>1. queue \in Seq(Jobs)
  BY Zenon DEF SchedTypeOK
<1>2. n \in 0..Len(queue)
  <2>1. DOMAIN queue = 1..Len(queue) /\ Len(queue) \in Nat
    BY <1>1
  <2>2. IsFiniteSet(1..Len(queue)) /\ Cardinality(1..Len(queue)) = Len(queue)
    <3>1. 1 \in Int /\ Len(queue) \in Int
      BY <2>1
    <3>2. /\ IsFiniteSet(1..Len(queue))
          /\ Cardinality(1..Len(queue)) = IF 1 > Len(queue) THEN 0 ELSE Len(queue) - 1 + 1
      BY <3>1, FS_Interval, Zenon
    <3> QED BY <2>1, <3>2
  <2>3. B \in SUBSET (1..Len(queue))
    BY <2>1, Zenon
  <2> HIDE DEF B
  <2>4. IsFiniteSet(B) /\ Cardinality(B) <= Len(queue)
    BY <2>2, <2>3, FS_Subset, Zenon
  <2> QED BY <2>1, <2>4, FS_CardinalityType
<1>3. Inserted(j, t) = SubSeq(queue, 1, n) \o <<j>> \o SubSeq(queue, n + 1, Len(queue))
  BY Zenon DEF Inserted
<1> HIDE DEF n
<1> QED BY <1>1, <1>2, <1>3, InsertAfter, Zenon

-----------------------------------------------------------------------------
(* The inductive invariant of the bar pipeline                             *)

Queued(j) == \E i \in 1..Len(queue) : queue[i] = j

Held(j) == \E w \in Workers : worker[w].job = j

(* PendingInOnePlace without cardinalities, and where the other jobs are:  *)
(* an absent job is nowhere, and a worker that is not idle holds a job.    *)
Places ==
    /\ \A i, k \in 1..Len(queue) : queue[i] = queue[k] => i = k
    /\ \A v, w \in Workers : worker[v].job \in Jobs /\ worker[v].job = worker[w].job => v = w
    /\ \A j \in Jobs : ~(Queued(j) /\ Held(j))
    /\ \A j \in Jobs : status[j] = "absent" => ~Queued(j) /\ ~Held(j)
    /\ \A j \in Jobs : status[j] = "pending" => Queued(j) \/ Held(j)
    /\ \A w \in Workers : worker[w].pc = "idle" <=> worker[w].job \notin Jobs

(* KeyHeldByWorker, and that a key is held by a job of that key.           *)
Keys ==
    \A k \in SerKeys : running[k] # None =>
        /\ SerKey[running[k]] = k
        /\ status[running[k]] = "running"
        /\ \E w \in Workers : worker[w].job = running[k] /\ worker[w].pc \notin {"taken", "checked"}

(* What the only worker v knows between two steps of process: nothing but  *)
(* its own save moves the active snapshot.                                 *)
Resumes(v) ==
    LET j == worker[v].job
        a == active[StrategyOf(j)]
    IN /\ worker[v].pc \in {"checked", "running", "loaded"} => a.bar < BarOf(j)
       /\ worker[v].pc = "loaded" => worker[v].base = a.chain
       /\ worker[v].pc \in {"saved", "positioned", "recorded"} => BarOf(j) \in a.chain

Covered ==
    /\ \A s \in Strategies : position[s] # NoBar => position[s] \in active[s].chain
    /\ \A j \in trades : BarOf(j) \in active[StrategyOf(j)].chain

Alone ==
    /\ \A w \in Workers : worker[w].pc # "idle" => w \in pool
    /\ \A v \in Workers : pool = {v} => Resumes(v) /\ Covered

PipelineInv == TypeOK /\ Places /\ Keys /\ JobBarComplete /\ Alone

(* What a job is made of.                                                  *)
LEMMA JobParts ==
    ASSUME NEW j \in Jobs
    PROVE  StrategyOf(j) \in Strategies /\ BarOf(j) \in SourceBars /\ SerKey[j] \in SerKeys
           /\ j # None
BY PipelineAssumption, SchedAssumption, Zenon DEF AllJobs, StrategyOf, BarOf

LEMMA JobOfParts ==
    ASSUME NEW m \in Modes, NEW s \in Strategies, NEW b \in SourceBars
    PROVE  JobOf(m, s, b) \in Jobs /\ StrategyOf(JobOf(m, s, b)) = s /\ BarOf(JobOf(m, s, b)) = b
BY PipelineAssumption, Zenon DEF AllJobs, JobOf, StrategyOf, BarOf

(* _target_bar_from_source returns a bar only if all its source bars are   *)
(* stored.                                                                 *)
LEMMA TargetBarComplete ==
    ASSUME TypeOK, NEW s \in Strategies, NEW b \in SourceBars \cup {NoBar},
           TargetBar(s, b) # NoBar
    PROVE  /\ TargetBar(s, b) \in SourceBars
           /\ TargetBar(s, b)..(TargetBar(s, b) + Factor[s] - 1) \subseteq source
<1> DEFINE first == b + 1 - Factor[s]
<1>1. Factor[s] \in Nat \ {0} /\ b \in Int /\ source \subseteq SourceBars
  BY FactorAssumption, PipelineAssumption DEF TypeOK, SourceBars, NoBar
<1>2. TargetBar(s, b) = first /\ first..b \subseteq source
  BY Zenon DEF TargetBar
<1>3. first \in first..b /\ first + Factor[s] - 1 = b
  BY <1>1
<1> QED BY <1>1, <1>2, <1>3, Zenon

(* The methods of the scheduler keep its types.                            *)
LEMMA EnqueueType ==
    ASSUME SchedTypeOK, NEW j \in Jobs, NEW t \in Times, Enqueue(j, t)
    PROVE  SchedTypeOK'
<1>1. CASE status[j] # "absent"
  BY <1>1, Zenon DEF Enqueue, SchedTypeOK, schedVars
<1>2. CASE status[j] = "absent"
  BY <1>2, InsertedInQueue DEF Enqueue, SchedTypeOK, Statuses
<1> QED BY <1>1, <1>2, Zenon

LEMMA DequeueType ==
    ASSUME SchedTypeOK, NEW i \in DOMAIN queue, Dequeue(i)
    PROVE  SchedTypeOK' /\ IsRemoval(queue', queue, i) /\ queue[i] \in Jobs /\ i \in 1..Len(queue)
<1>1. queue \in Seq(Jobs) /\ i \in 1..Len(queue)
  BY DEF SchedTypeOK
<1>2. queue' \in Seq(Jobs) /\ IsRemoval(queue', queue, i)
  BY <1>1, Without, Zenon DEF Dequeue
<1>3. queue[i] \in Jobs
  BY <1>1
<1> QED BY <1>1, <1>2, <1>3, Zenon DEF Dequeue, SchedTypeOK

LEMMA MarkRunningType ==
    ASSUME SchedTypeOK, NEW j \in Jobs, MarkRunning(j)
    PROVE  SchedTypeOK'
BY JobParts, Zenon DEF MarkRunning, SchedTypeOK, Statuses

LEMMA FinishedType ==
    ASSUME SchedTypeOK, NEW j \in Jobs, NEW s \in Statuses, Finished(j, s)
    PROVE  SchedTypeOK'
BY JobParts, Zenon DEF Finished, SchedTypeOK

WorkerState == [pc: Phases, job: Jobs \cup {None}, base: SUBSET SourceBars]

LEMMA GotoType ==
    ASSUME TypeOK, NEW w \in Workers, NEW pc \in Phases, Goto(w, pc)
    PROVE  worker' \in [Workers -> WorkerState]
BY DEF TypeOK, Goto, WorkerState

LEMMA IdleWorkerType == IdleWorker \in WorkerState
BY Zenon DEF IdleWorker, WorkerState, Phases

LEMMA FreeType ==
    ASSUME TypeOK, NEW w \in Workers, Free(w)
    PROVE  worker' \in [Workers -> WorkerState]
BY IdleWorkerType, Zenon DEF TypeOK, Free, WorkerState

LEMMA FanOverType ==
    ASSUME NEW b \in SourceBars \cup {NoBar}, NEW todo \in SUBSET (Modes \X Strategies)
    PROVE  FanOver(b, todo) \in [bar: SourceBars \cup {NoBar}, todo: SUBSET (Modes \X Strategies)]
BY Zenon DEF FanOver, IdleFan

-----------------------------------------------------------------------------
(* Each conjunct of the invariant is kept by every step                    *)

LEMMA PipelineTypeStep ==
    ASSUME TypeOK, Places, [Next]_vars
    PROVE  TypeOK'
<1> USE DEF SchedTypeOK
<1>1. ASSUME NEW b \in SourceBars, SourceBar(b) PROVE TypeOK'
  <2>1. {<<mode[s], s>> : s \in {x \in Strategies : mode[x] # "off"}} \in SUBSET (Modes \X Strategies)
    BY DEF TypeOK
  <2>2. fan' \in [bar: SourceBars \cup {NoBar}, todo: SUBSET (Modes \X Strategies)]
    BY <1>1, <2>1, FanOverType, Zenon DEF SourceBar
  <2> QED BY <1>1, <2>2, Zenon DEF SourceBar, TypeOK, schedVars
<1>2. ASSUME NEW m \in Modes, NEW s \in Strategies, NEW t \in Times, FanoutStrategy(m, s, t)
      PROVE  TypeOK'
  <2> DEFINE first == TargetBar(s, fan.bar)
  <2>1. fan.bar \in SourceBars \cup {NoBar} /\ fan.todo \ {<<m, s>>} \in SUBSET (Modes \X Strategies)
    BY Zenon DEF TypeOK
  <2>2. fan' \in [bar: SourceBars \cup {NoBar}, todo: SUBSET (Modes \X Strategies)]
    BY <1>2, <2>1, FanOverType, Zenon DEF FanoutStrategy
  <2>3. CASE first = NoBar
    BY <1>2, <2>2, <2>3, Zenon DEF FanoutStrategy, TypeOK, schedVars
  <2>4. CASE first # NoBar
    <3>1. first \in SourceBars
      BY <2>1, <2>4, TargetBarComplete, Zenon
    <3>2. SchedTypeOK'
      BY <1>2, <2>4, <3>1, JobOfParts, EnqueueType, Zenon DEF FanoutStrategy, TypeOK
    <3>3. targets' \subseteq {Factor[x] : x \in Strategies} \X SourceBars
      BY <1>2, <2>4, <3>1 DEF FanoutStrategy, TypeOK
    <3> QED BY <1>2, <2>2, <3>2, <3>3, Zenon DEF FanoutStrategy, TypeOK
  <2> QED BY <2>3, <2>4, Zenon
<1>3. ASSUME FanoutFails PROVE TypeOK'
  BY <1>3, Zenon DEF FanoutFails, TypeOK, IdleFan, schedVars
<1>4. ASSUME NEW s \in Strategies, NEW m \in Modes \cup {"off"}, SetMode(s, m) PROVE TypeOK'
  BY <1>4, Zenon DEF SetMode, TypeOK, schedVars
<1>5. ASSUME NEW w \in Workers, Take(w) PROVE TypeOK'
  <2>1. PICK i \in DOMAIN queue :
            /\ Dequeue(i)
            /\ worker' = [worker EXCEPT ![w] = [IdleWorker EXCEPT !.pc = "taken", !.job = queue[i]]]
    BY <1>5, Zenon DEF Take
  <2>2. SchedTypeOK' /\ queue[i] \in Jobs
    BY <2>1, DequeueType, Zenon DEF TypeOK
  <2>3. [IdleWorker EXCEPT !.pc = "taken", !.job = queue[i]] \in WorkerState
    BY <2>2, Zenon DEF IdleWorker, WorkerState, Phases
  <2>4. worker' \in [Workers -> WorkerState]
    BY <2>1, <2>3, Zenon DEF TypeOK, WorkerState
  <2> QED BY <1>5, <2>2, <2>4, Zenon DEF Take, TypeOK, WorkerState
<1>6. ASSUME NEW w \in Workers, worker[w].pc # "idle" PROVE worker[w].job \in Jobs
  BY <1>6, Zenon DEF Places
<1>7. ASSUME NEW w \in Workers, Check(w) PROVE TypeOK'
  <2>1. worker[w].job \in Jobs
    BY <1>6, <1>7, Zenon DEF Check
  <2>2. SchedTypeOK'
    BY <1>7, <2>1, FinishedType, Zenon DEF Check, MarkDone, Statuses, TypeOK, schedVars
  <2>3. worker' \in [Workers -> WorkerState]
    BY <1>7, FreeType, GotoType, Zenon DEF Check, Phases
  <2> QED BY <1>7, <2>2, <2>3, Zenon DEF Check, TypeOK, WorkerState
<1>8. ASSUME NEW w \in Workers, Start(w) PROVE TypeOK'
  <2>1. worker[w].job \in Jobs
    BY <1>6, <1>8, Zenon DEF Start
  <2>2. SchedTypeOK'
    BY <1>8, <2>1, MarkRunningType, Zenon DEF Start, TypeOK
  <2>3. worker' \in [Workers -> WorkerState]
    BY <1>8, GotoType, Zenon DEF Start, Phases
  <2> QED BY <1>8, <2>2, <2>3, Zenon DEF Start, TypeOK, WorkerState
<1>9. ASSUME NEW w \in Workers, LoadAndRun(w) PROVE TypeOK'
  <2>1. worker[w].job \in Jobs
    BY <1>6, <1>9, Zenon DEF LoadAndRun
  <2>2. ResumeChain(worker[w].job) \in SUBSET SourceBars
    BY <2>1, JobParts, Zenon DEF ResumeChain, TypeOK
  <2>3. worker' \in [Workers -> WorkerState]
    <3> DEFINE c == ResumeChain(worker[w].job)
               x == [worker[w] EXCEPT !.pc = "loaded", !.base = c]
    <3>1. worker \in [Workers -> WorkerState]
      BY Zenon DEF TypeOK, WorkerState
    <3>2. x \in WorkerState
      BY <2>2, <3>1, Zenon DEF WorkerState, Phases
    <3>3. worker' = [worker EXCEPT ![w] = x]
      BY <1>9, <3>1, Zenon DEF LoadAndRun, WorkerState
    <3> HIDE DEF x
    <3> QED BY <3>1, <3>2, <3>3, Zenon
  <2> QED BY <1>9, <2>3, Zenon DEF LoadAndRun, TypeOK, WorkerState, schedVars
<1>10. ASSUME NEW w \in Workers, SaveSnapshot(w) PROVE TypeOK'
  <2>1. worker[w].job \in Jobs /\ worker[w].base \in SUBSET SourceBars
    BY <1>6, <1>10, Zenon DEF SaveSnapshot, TypeOK
  <2>2. [bar |-> BarOf(worker[w].job), chain |-> worker[w].base \cup {BarOf(worker[w].job)}]
            \in [bar: SourceBars \cup {NoBar}, chain: SUBSET SourceBars]
    BY <2>1, JobParts, Zenon
  <2>3. active' \in [Strategies -> [bar: SourceBars \cup {NoBar}, chain: SUBSET SourceBars]]
    BY <1>10, <2>2, Zenon DEF SaveSnapshot, TypeOK
  <2>4. worker' \in [Workers -> WorkerState]
    BY <1>10, GotoType, Zenon DEF SaveSnapshot, Phases
  <2> QED BY <1>10, <2>3, <2>4, Zenon DEF SaveSnapshot, TypeOK, WorkerState, schedVars
<1>11. ASSUME NEW w \in Workers, RecordPosition(w) PROVE TypeOK'
  <2>1. worker[w].job \in Jobs
    BY <1>6, <1>11, Zenon DEF RecordPosition
  <2>2. position' \in [Strategies -> SourceBars \cup {NoBar}]
    BY <1>11, <2>1, JobParts, Zenon DEF RecordPosition, TypeOK
  <2>3. worker' \in [Workers -> WorkerState]
    BY <1>11, GotoType, Zenon DEF RecordPosition, Phases
  <2> QED BY <1>11, <2>2, <2>3, Zenon DEF RecordPosition, TypeOK, WorkerState, schedVars
<1>12. ASSUME NEW w \in Workers, RecordTrades(w) PROVE TypeOK'
  <2>1. worker[w].job \in Jobs
    BY <1>6, <1>12, Zenon DEF RecordTrades
  <2>2. SchedTypeOK'
    BY <1>12, <2>1, FinishedType, Zenon DEF RecordTrades, MarkFailed, Statuses, TypeOK, schedVars
  <2>3. worker' \in [Workers -> WorkerState]
    BY <1>12, FreeType, GotoType, Zenon DEF RecordTrades, Phases
  <2>4. trades' \subseteq AllJobs
    BY <1>12, <2>1, PipelineAssumption, Zenon DEF RecordTrades, TypeOK
  <2> QED BY <1>12, <2>2, <2>3, <2>4, Zenon DEF RecordTrades, TypeOK, WorkerState
<1>13. ASSUME NEW w \in Workers, Finish(w) PROVE TypeOK'
  <2>1. worker[w].job \in Jobs
    BY <1>6, <1>13, Zenon DEF Finish
  <2>2. SchedTypeOK'
    BY <1>13, <2>1, FinishedType, Zenon DEF Finish, MarkDone, Statuses, TypeOK
  <2>3. worker' \in [Workers -> WorkerState]
    BY <1>13, FreeType, Zenon DEF Finish
  <2> QED BY <1>13, <2>2, <2>3, Zenon DEF Finish, TypeOK, WorkerState
<1>14. ASSUME NEW w \in Workers, Fail(w) PROVE TypeOK'
  <2>1. worker[w].job \in Jobs
    BY <1>6, <1>14, Zenon DEF Fail
  <2>2. SchedTypeOK'
    BY <1>14, <2>1, FinishedType, Zenon DEF Fail, MarkFailed, Statuses, TypeOK
  <2>3. worker' \in [Workers -> WorkerState]
    BY <1>14, FreeType, Zenon DEF Fail
  <2> QED BY <1>14, <2>2, <2>3, Zenon DEF Fail, TypeOK, WorkerState
<1>15. ASSUME NEW j \in Jobs, Cancel(j) PROVE TypeOK'
  <2>1. SchedTypeOK'
    BY <1>15, FinishedType, Zenon DEF Cancel, CancelJob, Statuses, TypeOK
  <2> QED BY <1>15, <2>1, Zenon DEF Cancel, TypeOK, pipeVars
<1>16. ASSUME Restart PROVE TypeOK'
  <2>1. SchedTypeOK'
    BY <1>16 DEF Restart, SchedRestart, Statuses, TypeOK
  <2>2. worker' \in [Workers -> WorkerState]
    BY <1>16, IdleWorkerType, Zenon DEF Restart
  <2> QED BY <1>16, <2>1, <2>2, Zenon DEF Restart, TypeOK, WorkerState, IdleFan
<1>17. CASE UNCHANGED vars
  BY <1>17, Zenon DEF vars, schedVars, pipeVars, TypeOK
<1> QED
  BY <1>1, <1>2, <1>3, <1>4, <1>5, <1>7, <1>8, <1>9, <1>10, <1>11, <1>12, <1>13, <1>14,
     <1>15, <1>16, <1>17, Zenon DEF Next

(* A step that moves no job between queue and workers.                     *)
LEMMA PlacesKept ==
    ASSUME TypeOK, Places, queue' = queue,
           \A v \in Workers : worker'[v].job = worker[v].job,
           \A v \in Workers : worker'[v].pc = "idle" <=> worker[v].pc = "idle",
           \A j \in Jobs : status'[j] = status[j] \/ status'[j] \notin {"absent", "pending"}
    PROVE  Places'
<1>1. \A j \in Jobs : (Queued(j)' <=> Queued(j)) /\ (Held(j)' <=> Held(j))
  BY Zenon DEF Queued, Held
<1> QED BY <1>1, Zenon DEF Places

(* The end of process: the worker lets go of its job, which has ended.     *)
LEMMA PlacesFreed ==
    ASSUME TypeOK, Places, NEW w \in Workers, worker[w].job \in Jobs, Free(w), queue' = queue,
           NEW s \in {"done", "failed"}, status' = [status EXCEPT ![worker[w].job] = s]
    PROVE  Places'
<1>0. PICK j \in Jobs : j = worker[w].job
  BY Zenon
<1>1. worker'[w].job = None /\ worker'[w].pc = "idle"
      /\ \A v \in Workers : v # w => worker'[v] = worker[v]
  BY Zenon DEF Free, IdleWorker, TypeOK
<1>2. \A i \in Jobs : Queued(i)' <=> Queued(i)
  BY Zenon DEF Queued
<1>3. \A i \in Jobs : i # j => (Held(i)' <=> Held(i))
  BY <1>0, <1>1, JobParts, Zenon DEF Held
<1>4. ~Held(j)'
  BY <1>0, <1>1, JobParts DEF Held, Places
<1>5. \A i \in Jobs : i # j => status'[i] = status[i]
  BY <1>0, Zenon DEF TypeOK, SchedTypeOK
<1>6. status'[j] \notin {"absent", "pending"}
  BY <1>0, Zenon DEF TypeOK, SchedTypeOK
<1>7. \A i \in Jobs : ~(Queued(i) /\ Held(i))'
  BY <1>2, <1>3, <1>4, Zenon DEF Places
<1>8. \A i \in Jobs : (status[i] = "absent" => ~Queued(i) /\ ~Held(i))'
  BY <1>2, <1>3, <1>5, <1>6, Zenon DEF Places
<1>9. \A i \in Jobs : (status[i] = "pending" => Queued(i) \/ Held(i))'
  BY <1>2, <1>3, <1>5, <1>6, Zenon DEF Places
<1>10. \A u, v \in Workers : worker'[v].job \in Jobs /\ worker'[v].job = worker'[u].job => v = u
  BY <1>1, JobParts DEF Places
<1>11. \A v \in Workers : worker'[v].pc = "idle" <=> worker'[v].job \notin Jobs
  BY <1>1, SchedAssumption, Zenon DEF Places
<1> QED BY <1>7, <1>8, <1>9, <1>10, <1>11, Zenon DEF Places

(* enqueue of a job that is nowhere yet.                                   *)
LEMMA PlacesEnqueued ==
    ASSUME TypeOK, Places, NEW j \in Jobs, NEW t \in Times, Enqueue(j, t), worker' = worker
    PROVE  Places'
<1>1. CASE status[j] # "absent"
  <2>1. status' = status /\ queue' = queue
    BY <1>1, Zenon DEF Enqueue, schedVars
  <2> QED BY <2>1, PlacesKept, Zenon
<1>2. CASE status[j] = "absent"
  <2>1. PICK n \in 0..Len(queue) : IsInsertion(queue', queue, n, j)
    BY <1>2, InsertedInQueue DEF Enqueue, TypeOK
  <2>2. queue \in Seq(Jobs) /\ Len(queue) \in Nat /\ Len(queue') = Len(queue) + 1
    BY <2>1 DEF TypeOK, SchedTypeOK, IsInsertion
  <2>3. \A i \in 1..Len(queue') :
            queue'[i] = IF i <= n THEN queue[i] ELSE IF i = n + 1 THEN j ELSE queue[i - 1]
    BY <2>1, <2>2, Zenon DEF IsInsertion
  <2>4. \A i \in 1..Len(queue) : queue[i] # j
    BY <1>2, Zenon DEF Places, Queued
  <2>5. \A i, k \in 1..Len(queue') : queue'[i] = queue'[k] => i = k
    BY <2>2, <2>3, <2>4 DEF Places
  <2>6. \A x \in Jobs : x # j => (Queued(x)' => Queued(x))
    BY <2>2, <2>3 DEF Queued
  <2>7. ASSUME NEW x \in Jobs, Queued(x) PROVE Queued(x)'
    <3>1. PICK i \in 1..Len(queue) : queue[i] = x
      BY <2>7, Zenon DEF Queued
    <3>2. CASE i <= n
      BY <3>1, <3>2, <2>2, <2>3 DEF Queued
    <3>3. CASE i > n
      <4>1. i + 1 \in 1..Len(queue') /\ queue'[i + 1] = queue[i]
        BY <3>3, <2>2, <2>3
      <4> QED BY <3>1, <4>1, Zenon DEF Queued
    <3> QED BY <3>2, <3>3, <2>2
  <2>8. Queued(j)'
    <3>1. n + 1 \in 1..Len(queue') /\ queue'[n + 1] = j
      BY <2>2, <2>3
    <3> QED BY <3>1, Zenon DEF Queued
  <2>9. \A x \in Jobs : Held(x)' <=> Held(x)
    BY Zenon DEF Held
  <2>10. status'[j] = "pending" /\ \A x \in Jobs : x # j => status'[x] = status[x]
    BY <1>2, Zenon DEF Enqueue, TypeOK, SchedTypeOK
  <2>11. ~Held(j)
    BY <1>2, Zenon DEF Places
  <2>12. \A x \in Jobs : ~(Queued(x) /\ Held(x))'
    BY <2>6, <2>9, <2>11, Zenon DEF Places
  <2>13. \A x \in Jobs : (status[x] = "absent" => ~Queued(x) /\ ~Held(x))'
    BY <2>6, <2>9, <2>10, Zenon DEF Places
  <2>14. \A x \in Jobs : (status[x] = "pending" => Queued(x) \/ Held(x))'
    BY <2>7, <2>8, <2>9, <2>10, Zenon DEF Places
  <2> QED BY <2>5, <2>12, <2>13, <2>14, Zenon DEF Places
<1> QED BY <1>1, <1>2, Zenon

(* dequeue hands the job over to the worker.                               *)
LEMMA PlacesTaken ==
    ASSUME TypeOK, Places, NEW w \in Workers, Take(w)
    PROVE  Places'
<1>1. PICK k \in DOMAIN queue :
          /\ Dequeue(k)
          /\ worker' = [worker EXCEPT ![w] = [IdleWorker EXCEPT !.pc = "taken", !.job = queue[k]]]
  BY Zenon DEF Take
<1>2. k \in 1..Len(queue) /\ queue[k] \in Jobs /\ IsRemoval(queue', queue, k) /\ status' = status
  BY <1>1, DequeueType, Zenon DEF TypeOK, Dequeue
<1>0. PICK j \in Jobs : j = queue[k]
  BY <1>2, Zenon
<1>3. /\ worker'[w].job = j /\ worker'[w].pc = "taken"
      /\ \A v \in Workers : v # w => worker'[v] = worker[v]
  BY <1>0, <1>1, Zenon DEF IdleWorker, TypeOK
<1>4. queue \in Seq(Jobs) /\ Len(queue) \in Nat /\ Len(queue') = Len(queue) - 1
      /\ \A i \in 1..Len(queue') : queue'[i] = IF i < k THEN queue[i] ELSE queue[i + 1]
  <2>1. queue \in Seq(Jobs) /\ Len(queue) \in Nat
    BY DEF TypeOK, SchedTypeOK
  <2> QED BY <1>2, <2>1, Zenon DEF IsRemoval
<1>5. \A i, h \in 1..Len(queue') : queue'[i] = queue'[h] => i = h
  <2>1. \A i, h \in 1..Len(queue) : queue[i] = queue[h] => i = h
    BY Zenon DEF Places
  <2> SUFFICES ASSUME NEW i \in 1..Len(queue'), NEW h \in 1..Len(queue'), queue'[i] = queue'[h]
      PROVE  i = h
    BY Zenon
  <2> QED BY <1>2, <1>4, <2>1
<1>6. \A i \in 1..Len(queue') : queue'[i] # j
  BY <1>0, <1>2, <1>4 DEF Places
<1>7. \A x \in Jobs : Queued(x)' => Queued(x)
  BY <1>2, <1>4 DEF Queued
<1>8. ASSUME NEW x \in Jobs, x # j, Queued(x) PROVE Queued(x)'
  <2>1. PICK i \in 1..Len(queue) : queue[i] = x
    BY <1>8, Zenon DEF Queued
  <2>2. CASE i < k
    BY <2>1, <2>2, <1>2, <1>4 DEF Queued
  <2>3. CASE i > k
    <3>1. i - 1 \in 1..Len(queue') /\ queue'[i - 1] = queue[i]
      BY <2>3, <1>2, <1>4
    <3> QED BY <2>1, <3>1, Zenon DEF Queued
  <2> QED BY <2>1, <2>2, <2>3, <1>0, <1>2, <1>4, <1>8
<1>9. Queued(j) /\ ~Held(j)
  BY <1>0, <1>2, Zenon DEF Places, Queued
<1>10. Held(j)'
  BY <1>3, Zenon DEF Held
<1>11. worker[w].job \notin Jobs
  BY Zenon DEF Take, Places
<1>12. ~Queued(j)'
  BY <1>6, Zenon DEF Queued
<1>13. \A x \in Jobs : x # j => (Held(x)' <=> Held(x))
  BY <1>3, <1>11, Zenon DEF Held
<1>14. \A x \in Jobs : ~(Queued(x) /\ Held(x))'
  BY <1>7, <1>12, <1>13, Zenon DEF Places
<1>15. \A x \in Jobs : (status[x] = "absent" => ~Queued(x) /\ ~Held(x))'
  BY <1>2, <1>7, <1>9, <1>13, Zenon DEF Places
<1>16. \A x \in Jobs : (status[x] = "pending" => Queued(x) \/ Held(x))'
  BY <1>2, <1>8, <1>10, <1>13, Zenon DEF Places
<1>17. \A u, v \in Workers : worker'[v].job \in Jobs /\ worker'[v].job = worker'[u].job => v = u
  BY <1>3, <1>9 DEF Places, Held
<1>18. \A v \in Workers : worker'[v].pc = "idle" <=> worker'[v].job \notin Jobs
  BY <1>3, Zenon DEF Places
<1> QED BY <1>5, <1>14, <1>15, <1>16, <1>17, <1>18, Zenon DEF Places

(* A step of process that stays with its job.                              *)
LEMMA PlacesGoto ==
    ASSUME TypeOK, Places, NEW w \in Workers, worker[w].pc # "idle",
           NEW pc \in Phases \ {"idle"}, Goto(w, pc), queue' = queue,
           \A j \in Jobs : status'[j] = status[j] \/ status'[j] = "running"
    PROVE  Places'
<1>1. \A v \in Workers : /\ worker'[v].job = worker[v].job
                         /\ worker'[v].pc = "idle" <=> worker[v].pc = "idle"
  BY DEF Goto, TypeOK
<1> QED BY <1>1, PlacesKept, Zenon

LEMMA PlacesStep ==
    ASSUME TypeOK, Places, [Next]_vars
    PROVE  Places'
<1>0. ASSUME NEW w \in Workers, worker[w].pc # "idle" PROVE worker[w].job \in Jobs
  BY <1>0, Zenon DEF Places
<1>1. ASSUME NEW b \in SourceBars, SourceBar(b) PROVE Places'
  BY <1>1, PlacesKept, Zenon DEF SourceBar, schedVars
<1>2. ASSUME NEW m \in Modes, NEW s \in Strategies, NEW t \in Times, FanoutStrategy(m, s, t)
      PROVE  Places'
  <2> DEFINE first == TargetBar(s, fan.bar)
  <2>1. CASE first = NoBar
    BY <1>2, <2>1, PlacesKept, Zenon DEF FanoutStrategy, schedVars
  <2>2. CASE first # NoBar
    <3>1. first \in SourceBars
      BY <2>2, TargetBarComplete, Zenon DEF TypeOK
    <3>2. JobOf(m, s, first) \in Jobs /\ Enqueue(JobOf(m, s, first), t) /\ worker' = worker
      BY <1>2, <2>2, <3>1, JobOfParts, Zenon DEF FanoutStrategy
    <3> QED BY <3>2, PlacesEnqueued, Zenon
  <2> QED BY <2>1, <2>2, Zenon
<1>3. ASSUME FanoutFails PROVE Places'
  BY <1>3, PlacesKept, Zenon DEF FanoutFails, schedVars
<1>4. ASSUME NEW s \in Strategies, NEW m \in Modes \cup {"off"}, SetMode(s, m) PROVE Places'
  BY <1>4, PlacesKept, Zenon DEF SetMode, schedVars
<1>5. ASSUME NEW w \in Workers, Take(w) PROVE Places'
  BY <1>5, PlacesTaken, Zenon
<1>7. ASSUME NEW w \in Workers, Check(w) PROVE Places'
  <2>1. worker[w].pc # "idle" /\ worker[w].job \in Jobs
    BY <1>0, <1>7, Zenon DEF Check
  <2>2. CASE AlreadyProcessed(worker[w].job)
    BY <1>7, <2>1, <2>2, PlacesFreed, Zenon DEF Check, MarkDone, Finished
  <2>3. CASE ~AlreadyProcessed(worker[w].job)
    <3>1. Goto(w, "checked") /\ status' = status /\ queue' = queue
      BY <1>7, <2>3, Zenon DEF Check, schedVars
    <3> QED BY <2>1, <3>1, PlacesGoto, Zenon DEF Phases
  <2> QED BY <2>2, <2>3, Zenon
<1>8. ASSUME NEW w \in Workers, Start(w) PROVE Places'
  <2>1. worker[w].pc # "idle" /\ worker[w].job \in Jobs /\ Goto(w, "running") /\ queue' = queue
    BY <1>0, <1>8, Zenon DEF Start, MarkRunning
  <2>2. \A j \in Jobs : status'[j] = status[j] \/ status'[j] = "running"
    BY <1>8, <2>1, Zenon DEF Start, MarkRunning, TypeOK, SchedTypeOK
  <2> QED BY <2>1, <2>2, PlacesGoto, Zenon DEF Phases
<1>9. ASSUME NEW w \in Workers, LoadAndRun(w) PROVE Places'
  <2>1. \A v \in Workers : /\ worker'[v].job = worker[v].job
                           /\ worker'[v].pc = "idle" <=> worker[v].pc = "idle"
    BY <1>9 DEF LoadAndRun, TypeOK
  <2> QED BY <1>9, <2>1, PlacesKept, Zenon DEF LoadAndRun, schedVars
<1>10. ASSUME NEW w \in Workers, SaveSnapshot(w) PROVE Places'
  <2>1. worker[w].pc # "idle" /\ status' = status /\ queue' = queue
        /\ \E pc \in Phases \ {"idle"} : Goto(w, pc)
    BY <1>10, Zenon DEF SaveSnapshot, schedVars, Phases
  <2> QED BY <2>1, PlacesGoto, Zenon
<1>11. ASSUME NEW w \in Workers, RecordPosition(w) PROVE Places'
  <2>1. worker[w].pc # "idle" /\ Goto(w, "positioned") /\ status' = status /\ queue' = queue
    BY <1>11, Zenon DEF RecordPosition, schedVars
  <2> QED BY <2>1, PlacesGoto, Zenon DEF Phases
<1>12. ASSUME NEW w \in Workers, RecordTrades(w) PROVE Places'
  <2>1. worker[w].pc # "idle" /\ worker[w].job \in Jobs
    BY <1>0, <1>12, Zenon DEF RecordTrades
  <2>2. CASE worker[w].job \in trades
    BY <1>12, <2>1, <2>2, PlacesFreed, Zenon DEF RecordTrades, MarkFailed, Finished
  <2>3. CASE worker[w].job \notin trades
    <3>1. Goto(w, "recorded") /\ status' = status /\ queue' = queue
      BY <1>12, <2>3, Zenon DEF RecordTrades, schedVars
    <3> QED BY <2>1, <3>1, PlacesGoto, Zenon DEF Phases
  <2> QED BY <2>2, <2>3, Zenon
<1>13. ASSUME NEW w \in Workers, Finish(w) PROVE Places'
  <2>1. worker[w].job \in Jobs
    BY <1>0, <1>13, Zenon DEF Finish
  <2> QED BY <1>13, <2>1, PlacesFreed, Zenon DEF Finish, MarkDone, Finished
<1>14. ASSUME NEW w \in Workers, Fail(w) PROVE Places'
  <2>1. worker[w].job \in Jobs
    BY <1>0, <1>14, Zenon DEF Fail
  <2> QED BY <1>14, <2>1, PlacesFreed, Zenon DEF Fail, MarkFailed, Finished
<1>15. ASSUME NEW j \in Jobs, Cancel(j) PROVE Places'
  <2>1. \A i \in Jobs : status'[i] = status[i] \/ status'[i] = "cancelled"
    BY <1>15, Zenon DEF Cancel, CancelJob, Finished, TypeOK, SchedTypeOK
  <2> QED BY <1>15, <2>1, PlacesKept, Zenon DEF Cancel, CancelJob, Finished, pipeVars
<1>16. ASSUME Restart PROVE Places'
  <2>1. queue' = <<>> /\ \A w \in Workers : worker'[w].pc = "idle" /\ worker'[w].job = None
    BY <1>16, Zenon DEF Restart, SchedRestart, IdleWorker
  <2>2. \A j \in Jobs : ~Queued(j)' /\ ~Held(j)' /\ status'[j] = "absent"
    BY <1>16, <2>1, SchedAssumption DEF Restart, SchedRestart, Queued, Held
  <2>3. Len(queue') = 0 /\ \A w \in Workers : worker'[w].job \notin Jobs
    BY <2>1, SchedAssumption, Zenon
  <2>4. \A i, k \in 1..Len(queue') : i = k
    BY <2>3
  <2>5. \A w \in Workers : worker'[w].pc = "idle" <=> worker'[w].job \notin Jobs
    BY <2>1, <2>3, Zenon
  <2>6. \A j \in Jobs : status'[j] # "pending"
    BY <2>2, Zenon
  <2> QED BY <2>2, <2>3, <2>4, <2>5, <2>6, Zenon DEF Places
<1>17. CASE UNCHANGED vars
  BY <1>17, PlacesKept, Zenon DEF vars, schedVars, pipeVars
<1> QED
  BY <1>1, <1>2, <1>3, <1>4, <1>5, <1>7, <1>8, <1>9, <1>10, <1>11, <1>12, <1>13, <1>14,
     <1>15, <1>16, <1>17, Zenon DEF Next

(* A step that touches no key, no job that runs, and no worker past        *)
(* mark_running except to let it go on.                                    *)
LEMMA KeysKept ==
    ASSUME Keys, running' = running,
           \A k \in SerKeys : running[k] # None /\ status[running[k]] = "running" =>
               status'[running[k]] = "running",
           \A v \in Workers : worker[v].pc \notin {"idle", "taken", "checked"} =>
               worker'[v].job = worker[v].job /\ worker'[v].pc \notin {"idle", "taken", "checked"},
           \A v \in Workers : worker[v].pc = "idle" => worker[v].job = None
    PROVE  Keys'
BY DEF Keys

(* The end of a job gives its key back.                                    *)
LEMMA KeysFinished ==
    ASSUME TypeOK, Keys, NEW j \in Jobs, NEW s, Finished(j, s),
           \A v \in Workers : worker[v].job # j => worker'[v] = worker[v]
    PROVE  Keys'
<1> SUFFICES ASSUME NEW k \in SerKeys, running'[k] # None
             PROVE  /\ SerKey[running'[k]] = k
                    /\ status'[running'[k]] = "running"
                    /\ \E w \in Workers : /\ worker'[w].job = running'[k]
                                          /\ worker'[w].pc \notin {"taken", "checked"}
  BY Zenon DEF Keys
<1>1. running[k] # None /\ running'[k] = running[k] /\ running[k] # j
  BY JobParts DEF Finished, TypeOK, SchedTypeOK, Keys
<1>2. running[k] \in Jobs /\ status'[running[k]] = status[running[k]]
  BY <1>1, Zenon DEF Finished, TypeOK, SchedTypeOK
<1> QED BY <1>1, <1>2 DEF Keys

(* mark_running takes the key, from another job if need be.                *)
LEMMA KeysStarted ==
    ASSUME TypeOK, Places, Keys, NEW w \in Workers, Start(w)
    PROVE  Keys'
<1>0. PICK j \in Jobs : j = worker[w].job
  BY Zenon DEF Start, Places
<1>1. /\ \A v \in Workers : worker'[v].job = worker[v].job
      /\ worker'[w].pc = "running" /\ \A v \in Workers : v # w => worker'[v].pc = worker[v].pc
  BY Zenon DEF Start, Goto, TypeOK
<1>2. /\ running'[SerKey[j]] = j /\ status'[j] = "running"
      /\ \A k \in SerKeys : k # SerKey[j] => running'[k] = running[k]
      /\ \A i \in Jobs : i # j => status'[i] = status[i]
  BY <1>0, JobParts, Zenon DEF Start, MarkRunning, TypeOK, SchedTypeOK
<1>3. \A k \in SerKeys : running[k] # None => running[k] \in Jobs
  BY Zenon DEF TypeOK, SchedTypeOK
<1>4. ASSUME NEW k \in SerKeys, k # SerKey[j], running'[k] # None
      PROVE  /\ SerKey[running'[k]] = k
             /\ status'[running'[k]] = "running"
             /\ \E v \in Workers : /\ worker'[v].job = running'[k]
                                   /\ worker'[v].pc \notin {"taken", "checked"}
  <2>1. running'[k] = running[k] /\ running[k] # None /\ running[k] \in Jobs
    BY <1>2, <1>3, <1>4, Zenon
  <2>2. status'[running[k]] = "running" /\ SerKey[running[k]] = k
    BY <1>2, <2>1, Zenon DEF Keys
  <2>3. PICK v \in Workers : worker[v].job = running[k] /\ worker[v].pc \notin {"taken", "checked"}
    BY <2>1, Zenon DEF Keys
  <2>4. worker'[v].job = running[k] /\ worker'[v].pc \notin {"taken", "checked"}
    BY <1>1, <2>3, Zenon
  <2> QED BY <2>1, <2>2, <2>4, Zenon
<1>5. worker'[w].job = j /\ worker'[w].pc \notin {"taken", "checked"}
  BY <1>0, <1>1, Zenon
<1> QED BY <1>2, <1>4, <1>5, ZenonT(40) DEF Keys

LEMMA KeysStep ==
    ASSUME TypeOK, Places, Keys, [Next]_vars
    PROVE  Keys'
<1> USE DEF SchedTypeOK
<1>0. /\ \A w \in Workers : worker[w].pc # "idle" => worker[w].job \in Jobs
      /\ \A w \in Workers : worker[w].pc = "idle" => worker[w].job = None
  BY Zenon DEF Places, TypeOK
<1>1. ASSUME NEW b \in SourceBars, SourceBar(b) PROVE Keys'
  BY <1>0, <1>1, KeysKept, Zenon DEF SourceBar, schedVars
<1>2. ASSUME NEW m \in Modes, NEW s \in Strategies, NEW t \in Times, FanoutStrategy(m, s, t)
      PROVE  Keys'
  <2>1. worker' = worker /\ running' = running
    BY <1>2, Zenon DEF FanoutStrategy, Enqueue, schedVars
  <2>2. \A j \in Jobs : status[j] = "running" => status'[j] = "running"
    BY <1>2, Zenon DEF FanoutStrategy, Enqueue, schedVars, TypeOK
  <2>3. \A k \in SerKeys : running[k] # None => running[k] \in Jobs
    BY Zenon DEF TypeOK
  <2> QED BY <1>0, <2>1, <2>2, <2>3, KeysKept, Zenon
<1>3. ASSUME FanoutFails PROVE Keys'
  BY <1>0, <1>3, KeysKept, Zenon DEF FanoutFails, schedVars
<1>4. ASSUME NEW s \in Strategies, NEW m \in Modes \cup {"off"}, SetMode(s, m) PROVE Keys'
  BY <1>0, <1>4, KeysKept, Zenon DEF SetMode, schedVars
<1>5. ASSUME NEW w \in Workers, Take(w) PROVE Keys'
  <2>1. worker[w].pc = "idle" /\ running' = running /\ status' = status
    BY <1>5, Zenon DEF Take, Dequeue
  <2>2. \A v \in Workers : v # w => worker'[v] = worker[v]
    BY <1>5, Zenon DEF Take, TypeOK
  <2> QED BY <1>0, <2>1, <2>2, KeysKept, Zenon
<1>6. ASSUME NEW w \in Workers, worker[w].job \in Jobs, Free(w) PROVE
        \A v \in Workers : worker[v].job # worker[w].job => worker'[v] = worker[v]
  BY <1>6, Zenon DEF Free, TypeOK
<1>7. ASSUME NEW w \in Workers, Check(w) PROVE Keys'
  <2>1. worker[w].pc = "taken" /\ worker[w].job \in Jobs
    BY <1>0, <1>7, Zenon DEF Check
  <2>2. CASE AlreadyProcessed(worker[w].job)
    <3>1. Finished(worker[w].job, "done") /\ Free(w)
      BY <1>7, <2>2, Zenon DEF Check, MarkDone
    <3> QED BY <1>6, <2>1, <3>1, KeysFinished, Zenon
  <2>3. CASE ~AlreadyProcessed(worker[w].job)
    <3>1. /\ status' = status /\ running' = running
          /\ \A v \in Workers : v # w => worker'[v] = worker[v]
      BY <1>7, <2>3, Zenon DEF Check, Goto, TypeOK, schedVars
    <3> QED BY <1>0, <2>1, <3>1, KeysKept, Zenon
  <2> QED BY <2>2, <2>3, Zenon
<1>8. ASSUME NEW w \in Workers, Start(w) PROVE Keys'
  BY <1>8, KeysStarted, Zenon
<1>9. ASSUME NEW w \in Workers, LoadAndRun(w) PROVE Keys'
  <2>1. /\ status' = status /\ running' = running
        /\ worker'[w].pc = "loaded" /\ worker'[w].job = worker[w].job
        /\ \A v \in Workers : v # w => worker'[v] = worker[v]
    BY <1>9, Zenon DEF LoadAndRun, TypeOK, schedVars
  <2> QED BY <1>0, <2>1, KeysKept, Zenon
<1>10. ASSUME NEW w \in Workers, SaveSnapshot(w) PROVE Keys'
  <2>1. /\ status' = status /\ running' = running
        /\ worker'[w].pc \in {"recorded", "saved"} /\ worker'[w].job = worker[w].job
        /\ \A v \in Workers : v # w => worker'[v] = worker[v]
    BY <1>10 DEF SaveSnapshot, Goto, TypeOK, schedVars
  <2> QED BY <1>0, <2>1, KeysKept, Zenon
<1>11. ASSUME NEW w \in Workers, RecordPosition(w) PROVE Keys'
  <2>1. /\ status' = status /\ running' = running
        /\ worker'[w].pc = "positioned" /\ worker'[w].job = worker[w].job
        /\ \A v \in Workers : v # w => worker'[v] = worker[v]
    BY <1>11, Zenon DEF RecordPosition, Goto, TypeOK, schedVars
  <2> QED BY <1>0, <2>1, KeysKept, Zenon
<1>12. ASSUME NEW w \in Workers, RecordTrades(w) PROVE Keys'
  <2>1. worker[w].pc = "positioned" /\ worker[w].job \in Jobs
    BY <1>0, <1>12, Zenon DEF RecordTrades
  <2>2. CASE worker[w].job \in trades
    <3>1. Finished(worker[w].job, "failed") /\ Free(w)
      BY <1>12, <2>2, Zenon DEF RecordTrades, MarkFailed
    <3> QED BY <1>6, <2>1, <3>1, KeysFinished, Zenon
  <2>3. CASE worker[w].job \notin trades
    <3>1. /\ status' = status /\ running' = running
          /\ worker'[w].pc = "recorded" /\ worker'[w].job = worker[w].job
          /\ \A v \in Workers : v # w => worker'[v] = worker[v]
      BY <1>12, <2>3 DEF RecordTrades, Goto, TypeOK, schedVars
    <3> QED BY <1>0, <3>1, KeysKept, Zenon
  <2> QED BY <2>2, <2>3, Zenon
<1>13. ASSUME NEW w \in Workers, Finish(w) PROVE Keys'
  <2>1. worker[w].job \in Jobs /\ Finished(worker[w].job, "done") /\ Free(w)
    BY <1>0, <1>13, Zenon DEF Finish, MarkDone
  <2> QED BY <1>6, <2>1, KeysFinished, Zenon
<1>14. ASSUME NEW w \in Workers, Fail(w) PROVE Keys'
  <2>1. worker[w].job \in Jobs /\ Finished(worker[w].job, "failed") /\ Free(w)
    BY <1>0, <1>14, Zenon DEF Fail, MarkFailed
  <2> QED BY <1>6, <2>1, KeysFinished, Zenon
<1>15. ASSUME NEW j \in Jobs, Cancel(j) PROVE Keys'
  <2>1. Finished(j, "cancelled") /\ worker' = worker
    BY <1>15, Zenon DEF Cancel, CancelJob, pipeVars
  <2> QED BY <2>1, KeysFinished, Zenon
<1>16. ASSUME Restart PROVE Keys'
  BY <1>16, Zenon DEF Restart, SchedRestart, Keys
<1>17. CASE UNCHANGED vars
  BY <1>0, <1>17, KeysKept, Zenon DEF vars, schedVars, pipeVars
<1> QED
  BY <1>1, <1>2, <1>3, <1>4, <1>5, <1>7, <1>8, <1>9, <1>10, <1>11, <1>12, <1>13, <1>14,
     <1>15, <1>16, <1>17, Zenon DEF Next

(* Stored bars stay, so only a new job can break JobBarComplete.           *)
LEMMA CompleteKept ==
    ASSUME JobBarComplete, source \subseteq source', targets \subseteq targets',
           \A j \in Jobs : status'[j] # "absent" => status[j] # "absent"
    PROVE  JobBarComplete'
BY Zenon DEF JobBarComplete, TargetStored

LEMMA CompleteStep ==
    ASSUME TypeOK, Places, JobBarComplete, [Next]_vars
    PROVE  JobBarComplete'
<1> USE DEF SchedTypeOK
<1>0. \A w \in Workers : worker[w].pc # "idle" => worker[w].job \in Jobs /\ status[worker[w].job] # "absent"
  BY Zenon DEF Places, Held
<1>1. ASSUME NEW b \in SourceBars, SourceBar(b) PROVE JobBarComplete'
  BY <1>1, CompleteKept, Zenon DEF SourceBar, schedVars
<1>2. ASSUME NEW m \in Modes, NEW s \in Strategies, NEW t \in Times, FanoutStrategy(m, s, t)
      PROVE  JobBarComplete'
  <2>1. CASE TargetBar(s, fan.bar) = NoBar
    BY <1>2, <2>1, CompleteKept, Zenon DEF FanoutStrategy, schedVars
  <2>2. CASE TargetBar(s, fan.bar) # NoBar
    <3>1. PICK first \in SourceBars :
              first = TargetBar(s, fan.bar) /\ first..(first + Factor[s] - 1) \subseteq source
      BY <2>2, TargetBarComplete, Zenon DEF TypeOK
    <3>2. PICK j \in Jobs : j = JobOf(m, s, first) /\ StrategyOf(j) = s /\ BarOf(j) = first
      BY <3>1, JobOfParts, Zenon
    <3>3. /\ source' = source
          /\ targets' = IF Factor[s] = 1 THEN targets ELSE targets \cup {<<Factor[s], first>>}
          /\ \A i \in Jobs : i # j => status'[i] = status[i]
      BY <1>2, <2>2, <3>1, <3>2, Zenon DEF FanoutStrategy, Enqueue, schedVars, TypeOK
    <3>4. TargetStored(j)'
      <4>1. first \in first..(first + Factor[s] - 1)
        BY FactorAssumption, PipelineAssumption DEF SourceBars
      <4> QED BY <3>1, <3>2, <3>3, <4>1, Zenon DEF TargetStored
    <3>5. \A i \in Jobs : TargetStored(i) => TargetStored(i)'
      BY <3>3, Zenon DEF TargetStored
    <3> QED BY <3>1, <3>2, <3>3, <3>4, <3>5, Zenon DEF JobBarComplete
  <2> QED BY <2>1, <2>2, Zenon
<1>3. ASSUME FanoutFails PROVE JobBarComplete'
  BY <1>3, CompleteKept, Zenon DEF FanoutFails, schedVars
<1>4. ASSUME NEW s \in Strategies, NEW m \in Modes \cup {"off"}, SetMode(s, m) PROVE JobBarComplete'
  BY <1>4, CompleteKept, Zenon DEF SetMode, schedVars
<1>5. ASSUME NEW w \in Workers, Take(w) PROVE JobBarComplete'
  BY <1>5, CompleteKept, Zenon DEF Take, Dequeue
<1>6. ASSUME NEW j \in Jobs, status[j] # "absent", NEW x \in Statuses, Finished(j, x),
             source' = source, targets' = targets
      PROVE  JobBarComplete'
  BY <1>6, CompleteKept, Zenon DEF Finished, TypeOK
<1>7. ASSUME NEW w \in Workers, Check(w) PROVE JobBarComplete'
  BY <1>0, <1>7, CompleteKept, Zenon DEF Check, MarkDone, Finished, schedVars, TypeOK
<1>8. ASSUME NEW w \in Workers, Start(w) PROVE JobBarComplete'
  BY <1>0, <1>8, CompleteKept, Zenon DEF Start, MarkRunning, TypeOK
<1>9. ASSUME NEW w \in Workers, LoadAndRun(w) PROVE JobBarComplete'
  BY <1>9, CompleteKept, Zenon DEF LoadAndRun, schedVars
<1>10. ASSUME NEW w \in Workers, SaveSnapshot(w) PROVE JobBarComplete'
  BY <1>10, CompleteKept, Zenon DEF SaveSnapshot, schedVars
<1>11. ASSUME NEW w \in Workers, RecordPosition(w) PROVE JobBarComplete'
  BY <1>11, CompleteKept, Zenon DEF RecordPosition, schedVars
<1>12. ASSUME NEW w \in Workers, RecordTrades(w) PROVE JobBarComplete'
  BY <1>0, <1>12, CompleteKept, Zenon DEF RecordTrades, MarkFailed, Finished, schedVars, TypeOK
<1>13. ASSUME NEW w \in Workers, Finish(w) PROVE JobBarComplete'
  BY <1>0, <1>6, <1>13, Zenon DEF Finish, MarkDone, Statuses
<1>14. ASSUME NEW w \in Workers, Fail(w) PROVE JobBarComplete'
  BY <1>0, <1>6, <1>14, Zenon DEF Fail, MarkFailed, Statuses
<1>15. ASSUME NEW j \in Jobs, Cancel(j) PROVE JobBarComplete'
  BY <1>6, <1>15, Zenon DEF Cancel, CancelJob, Statuses, pipeVars
<1>16. ASSUME Restart PROVE JobBarComplete'
  BY <1>16, Zenon DEF Restart, SchedRestart, JobBarComplete
<1>17. CASE UNCHANGED vars
  BY <1>17, CompleteKept, Zenon DEF vars, schedVars, pipeVars
<1> QED
  BY <1>1, <1>2, <1>3, <1>4, <1>5, <1>7, <1>8, <1>9, <1>10, <1>11, <1>12, <1>13, <1>14,
     <1>15, <1>16, <1>17, Zenon DEF Next

(* Steps that leave the state and the ledger of the strategies alone.      *)
LEMMA AloneKept ==
    ASSUME Alone, pool' = pool, active' = active, position' = position, trades' = trades,
           \A v \in Workers : worker'[v] = worker[v] \/ worker'[v].pc = "idle"
                             \/ (worker'[v].pc = "taken" /\ v \in pool)
    PROVE  Alone'
<1>1. \A v \in Workers : Resumes(v) => Resumes(v)'
  BY Zenon DEF Resumes
<1>2. Covered => Covered'
  BY Zenon DEF Covered
<1> QED BY <1>1, <1>2, Zenon DEF Alone

LEMMA AloneStep ==
    ASSUME TypeOK, Places, Alone, [Next]_vars
    PROVE  Alone'
<1> USE DEF SchedTypeOK
<1>0. \A w \in Workers : worker[w].pc # "idle" => worker[w].job \in Jobs /\ w \in pool
  BY Zenon DEF Places, Alone
<1>1. ASSUME NEW b \in SourceBars, SourceBar(b) PROVE Alone'
  BY <1>1, AloneKept, Zenon DEF SourceBar
<1>2. ASSUME NEW m \in Modes, NEW s \in Strategies, NEW t \in Times, FanoutStrategy(m, s, t)
      PROVE  Alone'
  BY <1>2, AloneKept, Zenon DEF FanoutStrategy
<1>3. ASSUME FanoutFails PROVE Alone'
  BY <1>3, AloneKept, Zenon DEF FanoutFails
<1>4. ASSUME NEW s \in Strategies, NEW m \in Modes \cup {"off"}, SetMode(s, m) PROVE Alone'
  BY <1>4, AloneKept, Zenon DEF SetMode
<1>5. ASSUME NEW w \in Workers, Take(w) PROVE Alone'
  <2>1. \A v \in Workers : worker'[v] = worker[v] \/ (worker'[v].pc = "taken" /\ v \in pool)
    BY <1>5 DEF Take, TypeOK, IdleWorker
  <2> QED BY <1>5, <2>1, AloneKept, Zenon DEF Take
<1>6. ASSUME NEW w \in Workers, Free(w)
      PROVE  \A v \in Workers : worker'[v] = worker[v] \/ worker'[v].pc = "idle"
  BY <1>6, Zenon DEF Free, TypeOK, IdleWorker
(* The steps of a worker w that keep its job: another worker alone in the  *)
(* pool would have to be w.                                                *)
<1>7. ASSUME NEW w \in Workers, worker[w].pc # "idle", pool' = pool,
             \A v \in Workers : v # w => worker'[v] = worker[v],
             pool = {w} => Resumes(w)' /\ Covered'
      PROVE  Alone'
  <2>1. w \in pool
    BY <1>0, <1>7, Zenon
  <2> QED BY <1>7, <2>1, Zenon DEF Alone
<1>8. ASSUME NEW w \in Workers, Check(w) PROVE Alone'
  <2>1. CASE AlreadyProcessed(worker[w].job)
    BY <1>6, <1>8, <2>1, AloneKept, Zenon DEF Check
  <2>2. CASE ~AlreadyProcessed(worker[w].job)
    <3>1. /\ worker[w].pc # "idle" /\ worker[w].job \in Jobs
          /\ worker'[w].pc = "checked" /\ worker'[w].job = worker[w].job
          /\ \A v \in Workers : v # w => worker'[v] = worker[v]
          /\ active' = active /\ position' = position /\ trades' = trades /\ pool' = pool
      BY <1>0, <1>8, <2>2 DEF Check, Goto, TypeOK
    <3>2. active[StrategyOf(worker[w].job)].bar < BarOf(worker[w].job)
      <4>1. StrategyOf(worker[w].job) \in Strategies /\ BarOf(worker[w].job) \in SourceBars
        BY <3>1, JobParts, Zenon
      <4>2. active[StrategyOf(worker[w].job)].bar \in SourceBars \cup {NoBar}
        BY <4>1, Zenon DEF TypeOK
      <4> QED BY <2>2, <4>1, <4>2, PipelineAssumption DEF AlreadyProcessed, SourceBars, NoBar
    <3>3. Resumes(w)'
      BY <3>1, <3>2, Zenon DEF Resumes
    <3>4. pool = {w} => Covered'
      BY <3>1, Zenon DEF Alone, Covered
    <3> QED BY <1>7, <3>1, <3>3, <3>4, Zenon
  <2> QED BY <2>1, <2>2, Zenon
<1>9. ASSUME NEW w \in Workers, Start(w) PROVE Alone'
  <2>1. /\ worker[w].pc = "checked"
        /\ worker'[w].pc = "running" /\ worker'[w].job = worker[w].job
        /\ \A v \in Workers : v # w => worker'[v] = worker[v]
        /\ active' = active /\ position' = position /\ trades' = trades /\ pool' = pool
    BY <1>9, Zenon DEF Start, Goto, TypeOK
  <2>2. pool = {w} => Resumes(w)' /\ Covered'
    BY <2>1, Zenon DEF Alone, Covered, Resumes
  <2> QED BY <1>7, <2>1, <2>2, Zenon
<1>10. ASSUME NEW w \in Workers, LoadAndRun(w) PROVE Alone'
  <2>1. /\ worker[w].pc = "running"
        /\ worker'[w].pc = "loaded" /\ worker'[w].job = worker[w].job
        /\ worker'[w].base = ResumeChain(worker[w].job)
        /\ \A v \in Workers : v # w => worker'[v] = worker[v]
        /\ active' = active /\ position' = position /\ trades' = trades /\ pool' = pool
    BY <1>10, Zenon DEF LoadAndRun, TypeOK
  <2>2. pool = {w} => Resumes(w)' /\ Covered'
    BY <2>1, Zenon DEF Alone, Covered, Resumes, ResumeChain
  <2> QED BY <1>7, <2>1, <2>2, Zenon
<1>11. ASSUME NEW w \in Workers, SaveSnapshot(w) PROVE Alone'
  <2>1. /\ worker[w].pc = "loaded" /\ worker[w].job \in Jobs
        /\ worker'[w].pc \in {"recorded", "saved"} /\ worker'[w].job = worker[w].job
        /\ \A v \in Workers : v # w => worker'[v] = worker[v]
        /\ position' = position /\ trades' = trades /\ pool' = pool
    BY <1>0, <1>11 DEF SaveSnapshot, Goto, TypeOK
  <2>2. PICK j \in Jobs : j = worker[w].job
    BY <2>1, Zenon
  <2>3. /\ StrategyOf(j) \in Strategies
        /\ active'[StrategyOf(j)].chain = worker[w].base \cup {BarOf(j)}
        /\ \A s \in Strategies : s # StrategyOf(j) => active'[s] = active[s]
    BY <1>11, <2>2, JobParts, Zenon DEF SaveSnapshot, TypeOK
  <2>4. ASSUME pool = {w} PROVE Resumes(w)' /\ Covered'
    <3>1. worker[w].base = active[StrategyOf(j)].chain /\ Covered
      BY <2>1, <2>2, <2>4, Zenon DEF Alone, Resumes
    <3>2. \A s \in Strategies : active[s].chain \subseteq active'[s].chain
      BY <2>3, <3>1, Zenon
    <3>3. \A i \in trades : StrategyOf(i) \in Strategies
      BY PipelineAssumption, JobParts, Zenon DEF TypeOK
    <3>4. Covered'
      BY <2>1, <3>1, <3>2, <3>3, Zenon DEF Covered
    <3>5. Resumes(w)'
      BY <2>1, <2>2, <2>3, Zenon DEF Resumes
    <3> QED BY <3>4, <3>5, Zenon
  <2> QED BY <1>7, <2>1, <2>4, Zenon
<1>12. ASSUME NEW w \in Workers, RecordPosition(w) PROVE Alone'
  <2>1. /\ worker[w].pc = "saved" /\ worker[w].job \in Jobs
        /\ worker'[w].pc = "positioned" /\ worker'[w].job = worker[w].job
        /\ \A v \in Workers : v # w => worker'[v] = worker[v]
        /\ active' = active /\ trades' = trades /\ pool' = pool
        /\ position' = [position EXCEPT ![StrategyOf(worker[w].job)] = BarOf(worker[w].job)]
    BY <1>0, <1>12, Zenon DEF RecordPosition, Goto, TypeOK
  <2>2. ASSUME pool = {w} PROVE Resumes(w)' /\ Covered'
    <3>1. Resumes(w) /\ Covered
      BY <2>2, Zenon DEF Alone
    <3>2. Resumes(w)'
      BY <2>1, <3>1, Zenon DEF Resumes
    <3>3. \A s \in Strategies : position'[s] # NoBar => position'[s] \in active[s].chain
      BY <2>1, <3>1, JobParts, Zenon DEF Resumes, Covered, TypeOK
    <3> QED BY <2>1, <3>1, <3>2, <3>3, Zenon DEF Covered
  <2> QED BY <1>7, <2>1, <2>2, Zenon
<1>13. ASSUME NEW w \in Workers, RecordTrades(w) PROVE Alone'
  <2>1. CASE worker[w].job \in trades
    BY <1>6, <1>13, <2>1, AloneKept, Zenon DEF RecordTrades
  <2>2. CASE worker[w].job \notin trades
    <3>1. /\ worker[w].pc = "positioned" /\ worker[w].job \in Jobs
          /\ worker'[w].pc = "recorded" /\ worker'[w].job = worker[w].job
          /\ \A v \in Workers : v # w => worker'[v] = worker[v]
          /\ active' = active /\ position' = position /\ pool' = pool
          /\ trades' = trades \cup {worker[w].job}
      BY <1>0, <1>13, <2>2 DEF RecordTrades, Goto, TypeOK
    <3>2. pool = {w} => Resumes(w)' /\ Covered'
      BY <3>1, Zenon DEF Alone, Covered, Resumes
    <3> QED BY <1>7, <3>1, <3>2, Zenon
  <2> QED BY <2>1, <2>2, Zenon
<1>14. ASSUME NEW w \in Workers, Finish(w) PROVE Alone'
  BY <1>6, <1>14, AloneKept, Zenon DEF Finish
<1>15. ASSUME NEW w \in Workers, Fail(w) PROVE Alone'
  BY <1>6, <1>15, AloneKept, Zenon DEF Fail
<1>16. ASSUME NEW j \in Jobs, Cancel(j) PROVE Alone'
  BY <1>16, AloneKept, Zenon DEF Cancel, pipeVars
<1>17. ASSUME Restart PROVE Alone'
  BY <1>17, AloneKept, Zenon DEF Restart, IdleWorker
<1>18. CASE UNCHANGED vars
  BY <1>18, AloneKept, Zenon DEF vars, pipeVars
<1> QED
  BY <1>1, <1>2, <1>3, <1>4, <1>5, <1>8, <1>9, <1>10, <1>11, <1>12, <1>13, <1>14,
     <1>15, <1>16, <1>17, <1>18, Zenon DEF Next

-----------------------------------------------------------------------------
(* The theorems about the bar pipeline                                     *)

LEMMA PipelineStarts == Init => PipelineInv
<1> SUFFICES ASSUME Init PROVE PipelineInv
  BY Zenon
<1>1. TypeOK
  <2>1. SchedTypeOK
    BY Zenon, EmptyQueue DEF Init, SchedInit, SchedTypeOK, Statuses
  <2>2. IdleFan \in [bar: SourceBars \cup {NoBar}, todo: SUBSET (Modes \X Strategies)]
    BY Zenon DEF IdleFan
  <2>3. NoSnapshot \in [bar: SourceBars \cup {NoBar}, chain: SUBSET SourceBars]
    BY Zenon DEF NoSnapshot
  <2>4. /\ pool \subseteq Workers /\ mode \in [Strategies -> Modes \cup {"off"}]
        /\ source \subseteq SourceBars /\ trades \subseteq AllJobs
        /\ targets \subseteq {Factor[s] : s \in Strategies} \X SourceBars
        /\ position \in [Strategies -> SourceBars \cup {NoBar}]
    BY Zenon DEF Init
  <2>5. worker \in [Workers -> [pc: Phases, job: Jobs \cup {None}, base: SUBSET SourceBars]]
    BY IdleWorkerType, Zenon DEF Init, WorkerState
  <2>6. fan \in [bar: SourceBars \cup {NoBar}, todo: SUBSET (Modes \X Strategies)]
        /\ active \in [Strategies -> [bar: SourceBars \cup {NoBar}, chain: SUBSET SourceBars]]
    BY <2>2, <2>3, Zenon DEF Init
  <2> QED BY <2>1, <2>4, <2>5, <2>6, Zenon DEF TypeOK
<1>2. queue = <<>> /\ \A w \in Workers : worker[w].pc = "idle" /\ worker[w].job = None
  BY Zenon DEF Init, SchedInit, IdleWorker
<1>3. \A j \in Jobs : ~Queued(j) /\ ~Held(j) /\ status[j] = "absent"
  BY <1>2, SchedAssumption DEF Init, SchedInit, Queued, Held
<1>4. Places
  <2>1. Len(queue) = 0 /\ \A w \in Workers : worker[w].job \notin Jobs
    BY <1>2, SchedAssumption, Zenon
  <2>2. \A i, k \in 1..Len(queue) : i = k
    BY <2>1
  <2>3. \A w \in Workers : worker[w].pc = "idle" <=> worker[w].job \notin Jobs
    BY <1>2, <2>1, Zenon
  <2>4. \A j \in Jobs : status[j] # "pending"
    BY <1>3, Zenon
  <2> QED BY <1>3, <2>1, <2>2, <2>3, <2>4, Zenon DEF Places
<1>5. Keys /\ JobBarComplete
  BY Zenon DEF Init, SchedInit, Keys, JobBarComplete
<1>6. Alone
  BY <1>2, Zenon DEF Init, Alone, Resumes, Covered, NoSnapshot
<1> QED BY <1>1, <1>4, <1>5, <1>6, Zenon DEF PipelineInv

(* Every step of the fan-out, of the scheduler and of a worker, a failure, *)
(* a cancel and a restart at any point included, keeps the invariant.      *)
THEOREM PipelineInductive == Spec => []PipelineInv
<1>1. PipelineInv /\ [Next]_vars => PipelineInv'
  BY PipelineTypeStep, PlacesStep, KeysStep, CompleteStep, AloneStep, Zenon DEF PipelineInv
<1> QED BY <1>1, PipelineStarts, PTL DEF Spec

(* A set with no two different elements has at most one.                   *)
LEMMA AtMostOne ==
    ASSUME NEW S, \A x, y \in S : x = y
    PROVE  Cardinality(S) \in {0, 1} /\ (S = {} => Cardinality(S) = 0)
<1>1. CASE S = {}
  BY <1>1, FS_EmptySet, Zenon
<1>2. CASE S # {}
  <2>1. PICK x : S = {x}
    BY <1>2
  <2> QED BY <1>2, <2>1, FS_Singleton, Zenon
<1> QED BY <1>1, <1>2, Zenon

LEMMA PlacesAreOne == TypeOK /\ Places => PendingInOnePlace
<1> SUFFICES ASSUME TypeOK, Places PROVE PendingInOnePlace
  BY Zenon
<1>0. DOMAIN queue = 1..Len(queue)
  BY DEF TypeOK, SchedTypeOK
<1>1. ASSUME NEW j \in Jobs
      PROVE  /\ Cardinality(Holders(j)) + Cardinality(InQueue(j)) <= 1
             /\ Queued(j) => InQueue(j) # {}
             /\ Held(j) => Holders(j) # {}
  <2>1. \A v, w \in Holders(j) : v = w
    BY Zenon DEF Holders, Places
  <2>2. \A i, k \in InQueue(j) : i = k
    BY <1>0, Zenon DEF InQueue, Places
  <2>3. (Queued(j) <=> InQueue(j) # {}) /\ (Held(j) <=> Holders(j) # {})
    BY <1>0, Zenon DEF Queued, InQueue, Held, Holders
  <2>4. Holders(j) = {} \/ InQueue(j) = {}
    BY <2>3, Zenon DEF Places
  <2>5. Cardinality(Holders(j)) \in {0, 1} /\ (Holders(j) = {} => Cardinality(Holders(j)) = 0)
    BY <2>1, AtMostOne, Zenon
  <2>6. Cardinality(InQueue(j)) \in {0, 1} /\ (InQueue(j) = {} => Cardinality(InQueue(j)) = 0)
    BY <2>2, AtMostOne, Zenon
  <2> QED BY <2>3, <2>4, <2>5, <2>6
<1> QED BY <1>1, Zenon DEF Places, PendingInOnePlace

(* However many workers there are and whatever fails, is cancelled or      *)
(* restarts, no job is lost, handed out twice or left holding its          *)
(* serialization key (dequeue, mark_running, mark_done and process).       *)
THEOREM PipelineJobsAccountedFor == Spec => []JobsAccountedFor
<1>1. PipelineInv => JobsAccountedFor
  <2>1. Keys => KeyHeldByWorker
    BY Zenon DEF Keys, KeyHeldByWorker, Holders
  <2> QED BY <2>1, PlacesAreOne, Zenon DEF PipelineInv, JobsAccountedFor
<1> QED BY <1>1, PipelineInductive, PTL

(* For any timeframes, and source bars that come late, twice or never, the *)
(* bar of every job is stored and complete before the job can be seen      *)
(* (_target_bar_from_source, process_source_bar).                          *)
THEOREM PipelineJobBarComplete == Spec => []JobBarComplete
<1>1. PipelineInv => JobBarComplete
  BY Zenon DEF PipelineInv
<1> QED BY <1>1, PipelineInductive, PTL

(* With one worker a strategy never resumes from a state without a bar     *)
(* that its position or its trades account for, whatever bars are skipped, *)
(* repeated or retried and wherever the process dies.                      *)
THEOREM PipelineStateCoversLedger == Spec => []StateCoversLedger
<1>1. PipelineInv => StateCoversLedger
  <2> SUFFICES ASSUME PipelineInv, Cardinality(pool) = 1 PROVE Covered
    BY Zenon DEF StateCoversLedger, Covered
  <2>1. IsFiniteSet(pool) /\ pool \subseteq Workers
    <3>1. pool \in SUBSET Workers
      BY Zenon DEF PipelineInv, TypeOK
    <3> QED BY <3>1, FS_Subset, PipelineAssumption, Zenon
  <2>2. PICK v : pool = {v}
    BY <2>1, FS_Singleton, Zenon
  <2> QED BY <2>1, <2>2, Zenon DEF PipelineInv, Alone
<1> QED BY <1>1, PipelineInductive, PTL

-----------------------------------------------------------------------------
(* The order table                                                         *)

(* A set of naturals that is not empty has a least element.                *)
LEMMA LeastNat ==
    ASSUME NEW T \in SUBSET Nat, T # {}
    PROVE  \E n \in T : \A m \in T : n <= m
<1>1. PICK n \in T : \A m \in T : ~(<<m, n>> \in OpToRel(<, Nat))
  BY NatLessThanWellFounded, WFMin, Zenon
<1>2. ASSUME NEW m \in T PROVE n <= m
  <2>1. m \in Nat /\ n \in Nat
    BY Zenon
  <2>2. <<m, n>> \in Nat \X Nat /\ <<m, n>>[1] = m /\ <<m, n>>[2] = n
    BY <2>1, Zenon
  <2>3. m < n => <<m, n>> \in OpToRel(<, Nat)
    BY <2>2, Zenon DEF OpToRel
  <2>4. ~(m < n)
    BY <1>1, <2>3, Zenon
  <2> QED BY <2>1, <2>4
<1> QED BY <1>2, Zenon

(* And one with an upper bound has a greatest one, which Max chooses.      *)
LEMMA MaxOfBounded ==
    ASSUME NEW T, T # {}, NEW b \in Nat, T \subseteq 0..b
    PROVE  Max(T) \in T /\ \A x \in T : x <= Max(T)
<1> DEFINE D == {n \in Nat : b - n \in T}
<1>1. D \in SUBSET Nat
  BY Zenon
<1>2. D # {}
  <2>1. PICK x \in T : TRUE
    BY Zenon
  <2>2. x \in 0..b /\ b - x \in Nat /\ b - (b - x) = x
    BY <2>1
  <2> QED BY <2>1, <2>2, Zenon
<1>3. PICK n \in D : \A m \in D : n <= m
  <2> HIDE DEF D
  <2> QED BY <1>1, <1>2, LeastNat, Zenon
<1>4. b - n \in T /\ n \in Nat
  BY <1>3, Zenon
<1>5. ASSUME NEW x \in T PROVE b - n >= x
  <2>1. x \in 0..b /\ b - x \in Nat /\ b - (b - x) = x
    BY <1>5
  <2>2. b - x \in D
    BY <2>1, Zenon
  <2>3. n <= b - x
    BY <1>3, <2>2, Zenon
  <2> QED BY <1>4, <2>1, <2>3
<1>6. \E x \in T : \A y \in T : x >= y
  BY <1>4, <1>5, Zenon
<1>7. Max(T) \in T /\ \A y \in T : Max(T) >= y
  BY <1>6, Zenon DEF Max
<1>8. \A y \in T : y \in Int
  OBVIOUS
<1> QED BY <1>7, <1>8, Zenon

(* Every row was written at a time of its own that is not in the future.   *)
TableInv ==
    /\ TableTypeOK
    /\ \A c \in Stored : orderRow[c].at <= ms
    /\ \A c, d \in Stored : orderRow[c].at = orderRow[d].at => c = d
    /\ \A c \in Stored : known[c] # orderRow[c].at => orderRow[c].at > cursor

(* A write gives its row a time after every other and after the cursor.    *)
LEMMA TableWrites ==
    ASSUME ~SlowClock, TableInv, NEW c \in OrderIds, NEW t \in (1..MaxMs) \cap (ms..MaxMs),
           NEW st \in {"pending", "filled", "cancelled"}, WriteAt(t),
           orderRow' = [orderRow EXCEPT ![c] = [status |-> st, at |-> t]],
           seenIds' \in [Managers -> SUBSET OrderIds],
           UNCHANGED <<refused, cursor, known, ledgerTrades, ledgerPosition, page>>
    PROVE  TableInv'
<1>1. ms' = t /\ t > ms /\ t \in 0..MaxMs /\ ms \in 0..MaxMs /\ cursor \in 0..ms
  BY TableAssumption DEF WriteAt, TableInv, TableTypeOK
<1>2. orderRow'[c].at = t /\ \A d \in OrderIds : d # c => orderRow'[d] = orderRow[d]
  BY Zenon DEF TableInv, TableTypeOK
<1>3. \A d \in Stored' : d # c => d \in Stored
  BY <1>2, Zenon DEF Stored
<1>4. orderRow' \in [OrderIds -> [status : {"none", "pending", "filled", "cancelled"}, at : 0..MaxMs]]
  BY <1>1, Zenon DEF TableInv, TableTypeOK
<1>5. TableTypeOK'
  BY <1>1, <1>4, TableAssumption DEF TableInv, TableTypeOK
<1>6. \A d \in Stored : orderRow[d].at \in 0..MaxMs /\ orderRow[d].at <= ms
  BY Zenon DEF TableInv, TableTypeOK, Stored
<1>7. \A d \in Stored' : d \in OrderIds
  BY Zenon DEF Stored
<1>8. \A d \in Stored' : orderRow'[d].at <= ms'
  BY <1>1, <1>2, <1>3, <1>6, <1>7, TableAssumption
<1>9. \A d, e \in Stored' : orderRow'[d].at = orderRow'[e].at => d = e
  BY <1>1, <1>2, <1>3, <1>6, <1>7, TableAssumption DEF TableInv
<1>10. \A d \in Stored' : known'[d] # orderRow'[d].at => orderRow'[d].at > cursor'
  BY <1>1, <1>2, <1>3, <1>6, <1>7, TableAssumption DEF TableInv
<1> QED BY <1>5, <1>8, <1>9, <1>10, Zenon DEF TableInv

(* The cursor moves to the newest row of the page, and no row left out of  *)
(* the page is as old.                                                     *)
LEMMA TablePolls ==
    ASSUME TableInv, Poll
    PROVE  TableInv'
<1>1. PICK rows \in SUBSET Stored :
          /\ rows # {} /\ PageOf(rows)
          /\ known' = [c \in OrderIds |-> IF c \in rows THEN orderRow[c].at ELSE known[c]]
          /\ cursor' = Max({orderRow[c].at : c \in rows})
          /\ UNCHANGED <<orderRow, seenIds, refused, ms, ledgerTrades, ledgerPosition, page>>
  BY Zenon DEF Poll
<1> DEFINE T == {orderRow[c].at : c \in rows}
<1>2. ms \in Nat /\ \A c \in Stored : c \in OrderIds /\ orderRow[c].at \in 0..ms /\ orderRow[c].at \in 0..MaxMs
  BY TableAssumption DEF TableInv, TableTypeOK, Stored
<1>3. T # {} /\ T \subseteq 0..ms
  BY <1>1, <1>2, Zenon
<1>4. cursor' \in T /\ \A x \in T : x <= cursor'
  <2>1. cursor' = Max(T)
    BY <1>1, Zenon
  <2> HIDE DEF T
  <2> QED BY <1>2, <1>3, <2>1, MaxOfBounded, Zenon
<1>5. TableTypeOK'
  BY <1>1, <1>2, <1>3, <1>4, Zenon DEF TableInv, TableTypeOK
<1>6. Stored' = Stored
  BY <1>1, Zenon DEF Stored
<1>7. ASSUME NEW c \in Stored, known'[c] # orderRow[c].at PROVE orderRow[c].at > cursor'
  <2>1. c \notin rows /\ known'[c] = known[c]
    BY <1>1, <1>2, <1>7, Zenon
  <2>2. orderRow[c].at > cursor
    BY <1>7, <2>1, Zenon DEF TableInv
  <2>3. PICK d \in rows : orderRow[d].at = cursor'
    BY <1>4, Zenon
  <2>4. orderRow[d].at <= orderRow[c].at
    BY <1>1, <2>1, <2>2, <2>3, Zenon DEF PageOf
  <2>5. orderRow[d].at # orderRow[c].at
    BY <1>1, <2>1, <2>3, Zenon DEF TableInv
  <2> QED BY <1>2, <2>3, <2>4, <2>5
<1> QED BY <1>1, <1>5, <1>6, <1>7, Zenon DEF TableInv

LEMMA TableStep ==
    ASSUME ~SlowClock, TableInv, [TableNext]_tableVars
    PROVE  TableInv'
<1>0. ASSUME orderRow' = orderRow, ms' = ms, cursor' = cursor, known' = known, TableTypeOK'
      PROVE  TableInv'
  BY <1>0, Zenon DEF TableInv, Stored
<1>1. ASSUME NEW m \in Managers, LoadExistingIds(m) PROVE TableInv'
  BY <1>0, <1>1, Zenon DEF LoadExistingIds, TableInv, TableTypeOK, Stored
<1>2. ASSUME NEW m \in Managers, NEW c \in OrderIds, SubmitDuplicate(m, c) PROVE TableInv'
  BY <1>0, <1>2, Zenon DEF SubmitDuplicate, TableInv, TableTypeOK
<1>3. ASSUME NEW m \in Managers, NEW c \in OrderIds, SubmitNew(m, c) PROVE TableInv'
  <2>1. seenIds' \in [Managers -> SUBSET OrderIds]
    BY <1>3, Zenon DEF SubmitNew, TableInv, TableTypeOK
  <2>2. CASE UNCHANGED <<orderRow, ms>>
    BY <1>0, <1>3, <2>1, <2>2, Zenon DEF SubmitNew, TableInv, TableTypeOK
  <2>3. CASE \E t \in (1..MaxMs) \cap (ms..MaxMs) :
                 WriteAt(t) /\ orderRow' = [orderRow EXCEPT ![c] = [status |-> "pending", at |-> t]]
    BY <1>3, <2>1, <2>3, TableWrites, Zenon DEF SubmitNew
  <2> QED BY <1>3, <2>2, <2>3, Zenon DEF SubmitNew
<1>4. ASSUME NEW c \in OrderIds, NEW st \in {"filled", "cancelled"}, UpdateOrderStatus(c, st)
      PROVE  TableInv'
  <2>1. seenIds' \in [Managers -> SUBSET OrderIds]
    BY <1>4, Zenon DEF UpdateOrderStatus, TableInv, TableTypeOK
  <2> QED BY <1>4, <2>1, TableWrites, Zenon DEF UpdateOrderStatus
<1>5. ASSUME NEW S \in {{"cancelled"}, {"pending", "filled", "cancelled"}}, DeleteDataOrders(S)
      PROVE  TableInv'
  <2>1. /\ orderRow' = [c \in OrderIds |-> IF orderRow[c].status \in S THEN NoRow ELSE orderRow[c]]
        /\ UNCHANGED <<seenIds, refused, ms, cursor, known, ledgerTrades, ledgerPosition, page>>
    BY <1>5, Zenon DEF DeleteDataOrders
  <2>2. \A c \in Stored' : c \in Stored /\ orderRow'[c] = orderRow[c]
    BY <2>1, Zenon DEF Stored, NoRow
  <2>3. TableTypeOK'
    <3>1. NoRow \in [status : {"none", "pending", "filled", "cancelled"}, at : 0..MaxMs]
      BY TableAssumption DEF NoRow
    <3>2. orderRow' \in [OrderIds -> [status : {"none", "pending", "filled", "cancelled"}, at : 0..MaxMs]]
      BY <2>1, <3>1, Zenon DEF TableInv, TableTypeOK
    <3> QED BY <2>1, <3>2, Zenon DEF TableInv, TableTypeOK
  <2>4. \A c \in Stored' : orderRow'[c].at <= ms'
    BY <2>1, <2>2, Zenon DEF TableInv
  <2>5. \A c, d \in Stored' : orderRow'[c].at = orderRow'[d].at => c = d
    BY <2>2, Zenon DEF TableInv
  <2>6. \A c \in Stored' : known'[c] # orderRow'[c].at => orderRow'[c].at > cursor'
    BY <2>1, <2>2, Zenon DEF TableInv
  <2> QED BY <2>3, <2>4, <2>5, <2>6, Zenon DEF TableInv
<1>6. ASSUME Poll PROVE TableInv'
  BY <1>6, TablePolls, Zenon
<1>7. ASSUME RecordTrade PROVE TableInv'
  BY <1>0, <1>7, TableAssumption DEF RecordTrade, TableInv, TableTypeOK
<1>8. ASSUME GetStrategyPositions PROVE TableInv'
  BY <1>0, <1>8, Zenon DEF GetStrategyPositions, TableInv, TableTypeOK
<1>9. ASSUME NEW side \in {"flat", "long"}, UpsertPosition(side) PROVE TableInv'
  BY <1>0, <1>9, Zenon DEF UpsertPosition, TableInv, TableTypeOK
<1>10. CASE UNCHANGED tableVars
  BY <1>0, <1>10, Zenon DEF tableVars, TableInv, TableTypeOK
<1> QED
  BY <1>1, <1>2, <1>3, <1>4, <1>5, <1>6, <1>7, <1>8, <1>9, <1>10, Zenon DEF TableNext

(* As long as no two writes of the table share a millisecond, a client     *)
(* that polls GET /orders with its updated_after cursor, page by page, has *)
(* every update it has not been told of still ahead of it, for any page    *)
(* limit and any number of managers that write in between.                 *)
THEOREM TablePollerMissesNothing ==
    ASSUME ~SlowClock
    PROVE  TableSpec => []PollerMissesNothing
<1>1. TableInit => TableInv
  BY TableAssumption DEF TableInit, TableInv, TableTypeOK, Stored, NoRow
<1>2. TableInv /\ [TableNext]_tableVars => TableInv'
  BY TableStep, Zenon
<1>3. TableInv => PollerMissesNothing
  BY Zenon DEF TableInv, PollerMissesNothing
<1> QED BY <1>1, <1>2, <1>3, PTL DEF TableSpec

-----------------------------------------------------------------------------
(* Orders under the risk limits                                            *)

LEMMA ElementOf ==
    ASSUME NEW A, NEW s \in Seq(A), NEW m \in DOMAIN s
    PROVE  m \in Nat /\ m \in 1..Len(s) /\ s[m] \in A
OBVIOUS

LEMMA Appended ==
    ASSUME NEW A, NEW s \in Seq(A), NEW e \in A
    PROVE  /\ Append(s, e) \in Seq(A)
           /\ Len(s) \in Nat /\ Len(s) + 1 \notin DOMAIN s
           /\ DOMAIN Append(s, e) = DOMAIN s \cup {Len(s) + 1}
           /\ Append(s, e)[Len(s) + 1] = e
           /\ \A m \in DOMAIN s : Append(s, e)[m] = s[m]
OBVIOUS

(* The entries of a rate window S that are still in it at time t.          *)
Within(S, t) == {x \in S : x[1] > t - Window}

(* The entries of one time are numbered from 0: none has a number as large *)
(* as the count of its time, so the next entry is a new one.               *)
StampsOK(S) ==
    /\ S \in SUBSET (Nat \X Nat) /\ IsFiniteSet(S)
    /\ \A x \in S : x[2] < Cardinality({y \in S : y[1] = x[1]})

(* What check_order approves: the account, the time, the kill switch then. *)
ApprovalType == [acct : Accounts, at : Nat, killed : BOOLEAN]

(* The approvals of account a that the window of time t covers.            *)
Windowed(ap, a, t) == {m \in DOMAIN ap : ap[m].acct = a /\ ap[m].at > t - Window}

(* Each of them has an entry of its own in the rate rule's window.         *)
Recorded(ap, S, a, t) ==
    \E f \in Injection(Windowed(ap, a, t), Within(S, t)) :
        \A m \in Windowed(ap, a, t) : f[m][1] = ap[m].at

LEMMA WithinOK ==
    ASSUME NEW S, StampsOK(S), NEW t \in Nat
    PROVE  StampsOK(Within(S, t))
<1> DEFINE R == Within(S, t)
<1>1. R \in SUBSET S
    BY Zenon DEF Within
<1>2. IsFiniteSet(R)
    BY <1>1, FS_Subset, Zenon DEF StampsOK
<1>3. ASSUME NEW x \in R
      PROVE  x[2] < Cardinality({y \in R : y[1] = x[1]})
    <2>1. {y \in R : y[1] = x[1]} = {y \in S : y[1] = x[1]}
        BY Zenon DEF Within
    <2>. QED BY <2>1, <1>1, Zenon DEF StampsOK
<1>. HIDE DEF R
<1>4. R \in SUBSET (Nat \X Nat)
    BY <1>1, Zenon DEF StampsOK
<1>5. StampsOK(R)
    BY <1>4, <1>2, <1>3, Zenon DEF StampsOK
<1>. QED BY <1>5, Zenon DEF R

LEMMA NewStampOK ==
    ASSUME NEW S, StampsOK(S), NEW t \in Nat,
           NEW x, x = <<t, Cardinality({y \in S : y[1] = t})>>
    PROVE  /\ x \notin S
           /\ StampsOK(S \cup {x})
<1> DEFINE Now == {y \in S : y[1] = t}
<1>1. Now \in SUBSET S /\ IsFiniteSet(Now) /\ Cardinality(Now) \in Nat
    BY FS_Subset, FS_CardinalityType, Zenon DEF StampsOK
<1>2. x = <<t, Cardinality(Now)>> /\ x \in Nat \X Nat /\ x[1] = t /\ x[2] = Cardinality(Now)
    BY <1>1, Zenon
<1>3. x \notin S
    <2>1. ASSUME x \in S PROVE FALSE
        <3>1. x[2] < Cardinality({y \in S : y[1] = x[1]})
            BY <2>1, Zenon DEF StampsOK
        <3>2. {y \in S : y[1] = x[1]} = Now
            BY <1>2, Zenon
        <3>. QED BY <3>1, <3>2, <1>1, <1>2
    <2>. QED BY <2>1, Zenon
<1> DEFINE T == S \cup {x}
<1>4. T \in SUBSET (Nat \X Nat) /\ IsFiniteSet(T)
    BY <1>2, FS_AddElement, Zenon DEF StampsOK
<1>5. {y \in T : y[1] = t} = Now \cup {x}
    BY <1>2, Zenon
<1>6. Cardinality(Now \cup {x}) = Cardinality(Now) + 1
    <2>1. x \notin Now
        BY <1>3, Zenon
    <2>. QED BY <2>1, <1>1, FS_AddElement, Zenon
<1>7. ASSUME NEW z \in T PROVE z[2] < Cardinality({y \in T : y[1] = z[1]})
    <2>1. CASE z[1] = t
        <3>1. {y \in T : y[1] = z[1]} = Now \cup {x}
            BY <2>1, <1>5, Zenon
        <3>2. z[2] \in Nat
            BY <1>4, Zenon
        <3>3. z = x \/ z \in Now
            BY <2>1, Zenon
        <3>4. CASE z = x
            <4> DEFINE c == Cardinality(Now)
                       d == Cardinality({y \in T : y[1] = z[1]})
            <4>1. z[2] = c
                BY <3>4, <1>2, Zenon
            <4>2. d = c + 1 /\ c \in Nat
                BY <3>1, <1>6, <1>1, Zenon
            <4> HIDE DEF c, d
            <4>3. z[2] < d
                BY <4>1, <4>2
            <4>. QED BY <4>3, Zenon DEF d
        <3>5. CASE z \in Now
            <4>1. {y \in S : y[1] = z[1]} = Now
                BY <2>1, Zenon
            <4>2. z[2] < Cardinality(Now)
                BY <3>5, <4>1, Zenon DEF StampsOK
            <4>. QED BY <4>2, <3>1, <3>2, <1>6, <1>1
        <3>. QED BY <3>3, <3>4, <3>5, Zenon
    <2>2. CASE z[1] # t
        <3>1. z \in S
            BY <2>2, <1>2, Zenon
        <3>2. {y \in T : y[1] = z[1]} = {y \in S : y[1] = z[1]}
            BY <2>2, <1>2
        <3>. QED BY <3>1, <3>2, Zenon DEF StampsOK
    <2>. QED BY <2>1, <2>2, Zenon
<1>. HIDE DEF T
<1>8. StampsOK(T)
    BY <1>4, <1>7, Zenon DEF StampsOK
<1>. QED BY <1>3, <1>8, Zenon DEF T

(* Time passes: the window covers no more than before.                     *)
LEMMA RecordedLater ==
    ASSUME NEW S \in SUBSET (Nat \X Nat), NEW ap \in Seq(ApprovalType),
           NEW a, NEW t \in Nat, Recorded(ap, S, a, t)
    PROVE  Recorded(ap, S, a, t + 1)
<1>1. PICK f \in Injection(Windowed(ap, a, t), Within(S, t)) :
               \A m \in Windowed(ap, a, t) : f[m][1] = ap[m].at
    BY Zenon DEF Recorded
<1> DEFINE W == Windowed(ap, a, t + 1)
           g == [m \in W |-> f[m]]
<1>2. W \subseteq Windowed(ap, a, t)
    <2>1. ASSUME NEW m \in DOMAIN ap, ap[m].at > (t + 1) - Window
          PROVE  ap[m].at > t - Window
        <3>1. ap[m] \in ApprovalType
            BY ElementOf, Zenon
        <3>2. ap[m].at \in Nat /\ Window \in Nat
            BY <3>1, OrderAssumption, Zenon DEF ApprovalType
        <3>. QED BY <3>2, <2>1, SMTT(30)
    <2>. QED BY <2>1, Zenon DEF Windowed
<1>3. ASSUME NEW m \in W PROVE f[m] \in Within(S, t + 1) /\ f[m][1] = ap[m].at
    <2>1. f[m] \in S /\ f[m][1] = ap[m].at
        BY <1>1, <1>2, Zenon DEF Injection, Within
    <2>2. ap[m].at > (t + 1) - Window
        BY Zenon DEF Windowed
    <2>. QED BY <2>1, <2>2, Zenon DEF Within
<1>4. ASSUME NEW m \in W, NEW n \in W, f[m] = f[n] PROVE m = n
    BY <1>1, <1>2, <1>4, Zenon DEF Injection, IsInjective
<1> HIDE DEF W
<1>5. g \in Injection(W, Within(S, t + 1))
    BY <1>3, <1>4, Zenon DEF Injection, IsInjective
<1>6. \A m \in W : g[m][1] = ap[m].at
    BY <1>3, Zenon
<1>. QED BY <1>5, <1>6, Zenon DEF Recorded, W

(* Dropping what has left the window, or adding an entry, keeps it.        *)
LEMMA RecordedKept ==
    ASSUME NEW S, NEW T, NEW ap, NEW a, NEW t \in Nat, Recorded(ap, S, a, t),
           Within(S, t) \subseteq T
    PROVE  Recorded(ap, T, a, t)
<1>1. PICK f \in Injection(Windowed(ap, a, t), Within(S, t)) :
               \A m \in Windowed(ap, a, t) : f[m][1] = ap[m].at
    BY Zenon DEF Recorded
<1>2. Within(S, t) \subseteq Within(T, t)
    BY Zenon DEF Within
<1>3. f \in Injection(Windowed(ap, a, t), Within(T, t))
    BY <1>1, <1>2, Zenon DEF Injection
<1>. QED BY <1>1, <1>3, Zenon DEF Recorded

(* The window of now covers a new approval.                                *)
LEMMA WindowedNew ==
    ASSUME NEW ap \in Seq(ApprovalType), NEW a, NEW t \in Nat,
           NEW r \in ApprovalType, r.acct = a, r.at = t
    PROVE  Windowed(Append(ap, r), a, t) = Windowed(ap, a, t) \cup {Len(ap) + 1}
<1> DEFINE aq == Append(ap, r)
           n == Len(ap) + 1
<1>1. /\ DOMAIN aq = DOMAIN ap \cup {n} /\ aq[n] = r
      /\ \A m \in DOMAIN ap : aq[m] = ap[m]
    OBVIOUS
<1>2. aq[n].acct = a /\ aq[n].at = t /\ t > t - Window
    BY <1>1, OrderAssumption
<1> HIDE DEF aq, n
<1>3. Windowed(aq, a, t) = Windowed(ap, a, t) \cup {n}
    BY <1>1, <1>2, Zenon DEF Windowed
<1>. QED BY <1>3, Zenon DEF aq, n

LEMMA ApprovalsAppended ==
    ASSUME NEW ap \in Seq(ApprovalType), NEW r \in ApprovalType
    PROVE  /\ Len(ap) + 1 \in Nat
           /\ DOMAIN Append(ap, r) = DOMAIN ap \cup {Len(ap) + 1}
           /\ Len(ap) + 1 \notin DOMAIN ap
           /\ Append(ap, r)[Len(ap) + 1] = r
           /\ \A m \in DOMAIN ap : Append(ap, r)[m] = ap[m]
<1>1. Len(ap) \in Nat /\ DOMAIN ap = 1..Len(ap)
    OBVIOUS
<1>2. DOMAIN Append(ap, r) = 1..(Len(ap) + 1)
    OBVIOUS
<1>3. Append(ap, r)[Len(ap) + 1] = r
    OBVIOUS
<1>4. \A m \in 1..Len(ap) : Append(ap, r)[m] = ap[m]
    OBVIOUS
<1> QED BY <1>1, <1>2, <1>3, <1>4

(* The rate rule's new entry is the new approval's.                        *)
LEMMA RecordedNew ==
    ASSUME NEW S, NEW ap \in Seq(ApprovalType), NEW a \in Accounts,
           NEW t \in Nat, Recorded(ap, S, a, t),
           NEW r \in ApprovalType, r.acct = a, r.at = t,
           NEW x, x \notin S, x[1] = t,
           NEW T, Within(S, t) \subseteq T, x \in T
    PROVE  Recorded(Append(ap, r), T, a, t)
<1>1. PICK f \in Injection(Windowed(ap, a, t), Within(S, t)) :
               \A m \in Windowed(ap, a, t) : f[m][1] = ap[m].at
    BY Zenon DEF Recorded
<1> DEFINE aq == Append(ap, r)
           W == Windowed(ap, a, t)
           n == Len(ap) + 1
           g == [m \in W \cup {n} |-> IF m = n THEN x ELSE f[m]]
<1>2. /\ n \in Nat /\ DOMAIN aq = DOMAIN ap \cup {n} /\ n \notin DOMAIN ap
      /\ aq[n] = r
      /\ \A m \in DOMAIN ap : aq[m] = ap[m]
    BY ApprovalsAppended, Zenon
<1>3. W \subseteq DOMAIN ap
    BY Zenon DEF Windowed
<1>4. Windowed(aq, a, t) = W \cup {n}
    BY WindowedNew, Zenon
<1>5. x \in Within(T, t) /\ Within(S, t) \subseteq Within(T, t)
    BY OrderAssumption DEF Within
<1>6. \A m \in W : f[m] \in Within(S, t) /\ f[m] # x
    BY <1>1, Zenon DEF Injection, Within
<1>7. \A m \in W, l \in W : f[m] = f[l] => m = l
    BY <1>1, Zenon DEF Injection, IsInjective
<1>8. n \notin W
    BY <1>2, <1>3, Zenon
<1>9. \A m \in W : aq[m].at = ap[m].at /\ f[m][1] = ap[m].at
    BY <1>1, <1>2, <1>3, Zenon
<1>10. aq[n].at = t
    BY <1>2, Zenon
<1> HIDE DEF W, n, aq
<1>11. g \in [W \cup {n} -> Within(T, t)]
    BY <1>5, <1>6, Zenon
<1>12. ASSUME NEW m \in W \cup {n}, NEW l \in W \cup {n}, g[m] = g[l] PROVE m = l
    BY <1>12, <1>6, <1>7, <1>8, Zenon
<1>13. g \in Injection(W \cup {n}, Within(T, t))
    BY <1>11, <1>12, Zenon DEF Injection, IsInjective
<1>14. \A m \in W \cup {n} : g[m][1] = aq[m].at
    BY <1>8, <1>9, <1>10, Zenon
<1>15. Recorded(aq, T, a, t)
    <2> HIDE DEF g
    <2>1. g \in Injection(Windowed(aq, a, t), Within(T, t))
        BY <1>4, <1>13, Zenon
    <2>2. \A m \in Windowed(aq, a, t) : g[m][1] = aq[m].at
        BY <1>4, <1>14, Zenon
    <2>. QED BY <2>1, <2>2, Zenon DEF Recorded
<1>. QED BY <1>15, Zenon DEF aq

(* An approval for another account changes nothing for this one.           *)
LEMMA RecordedOther ==
    ASSUME NEW S, NEW ap \in Seq(ApprovalType), NEW a \in Accounts,
           NEW t \in Nat, Recorded(ap, S, a, t),
           NEW r \in ApprovalType, r.acct # a,
           NEW aq, aq = Append(ap, r)
    PROVE  Recorded(aq, S, a, t)
<1>0. /\ DOMAIN aq = DOMAIN ap \cup {Len(ap) + 1}
      /\ aq[Len(ap) + 1] = r /\ \A m \in DOMAIN ap : aq[m] = ap[m]
    BY ApprovalsAppended, Zenon
<1>1. Windowed(aq, a, t) = Windowed(ap, a, t)
    BY <1>0, Zenon DEF Windowed
<1>2. \A m \in Windowed(ap, a, t) : aq[m].at = ap[m].at
    BY DEF Windowed
<1>3. PICK f \in Injection(Windowed(ap, a, t), Within(S, t)) :
               \A m \in Windowed(ap, a, t) : f[m][1] = ap[m].at
    BY Zenon DEF Recorded
<1>4. f \in Injection(Windowed(aq, a, t), Within(S, t))
    BY <1>1, <1>3, Zenon
<1>5. \A m \in Windowed(aq, a, t) : f[m][1] = aq[m].at
    BY <1>1, <1>2, <1>3, Zenon
<1>. QED BY <1>4, <1>5, Zenon DEF Recorded

(* A gateway that has just started.                                        *)
LEMMA NothingRecorded ==
    ASSUME NEW a, NEW t, NEW ap, DOMAIN ap = {}
    PROVE  StampsOK({}) /\ Recorded(ap, {}, a, t)
<1>1. Windowed(ap, a, t) = {}
    BY Zenon DEF Windowed
<1> DEFINE f == [m \in {} |-> {}]
<1>2. f \in Injection({}, Within({}, t))
    BY Zenon DEF Injection, IsInjective
<1>. QED BY <1>1, <1>2, FS_EmptySet, Zenon DEF Recorded, StampsOK

(* A router's submission.                                                 *)
CallType == [at : {"idle", "sent", "answered"}, intent : Intents,
             raw : RawStatuses \cup {"none"},
             reply : {"none", "rejected", "new", "partial", "filled", "cancelled",
                      "not_cancelled", "unavailable"}]
(* An order at the exchange.                                              *)
PlacedType == [client : {i.client : i \in Intents}, acct : Accounts, live : BOOLEAN,
               status : RawStatuses \cup {"Canceled"}, id : Nat]

(* The types of the variables, with what the proofs need beyond them.      *)
OrderTypes ==
    /\ acct \in [Accounts -> [exists : BOOLEAN, mode : AccountTypes, live : BOOLEAN]]
    /\ kill \in BOOLEAN /\ killFile \in BOOLEAN /\ now \in Nat
    /\ call \in [Submitters -> CallType]
    /\ placed \in Seq(PlacedType) /\ tracked \in SUBSET DOMAIN placed
    /\ stamps \in [Accounts -> SUBSET (Nat \X Nat)]
    /\ approvals \in Seq(ApprovalType)

RateRule == \E r \in DOMAIN Rules : Rules[r] = "rate"

(* What the approvals were given on.                                       *)
LimitsInv ==
    /\ \A a \in Accounts : StampsOK(stamps[a])
    /\ \A n \in DOMAIN approvals : ~approvals[n].killed /\ approvals[n].at <= now
    /\ RateRule => \A a \in Accounts : Recorded(approvals, stamps[a], a, now)
    /\ ApprovedWithinLimits

(* A call that has an answer has an order at the exchange.                 *)
AnswersInv ==
    /\ \A s \in Submitters : call[s].at = "answered" =>
           \E n \in DOMAIN placed : placed[n].client = call[s].intent.client
    /\ RepliesAreBacked

OrderInv == OrderTypes /\ LimitsInv /\ AnswersInv

LEMMA ReadyTyped ==
    /\ Ready \in CallType
    /\ Ready.at = "idle" /\ Ready.reply = "none"
<1>1. (CHOOSE i \in Intents : TRUE) \in Intents
    BY OrderAssumption, Zenon
<1>. QED BY <1>1, Zenon DEF Ready, CallType

LEMMA OrderInvInit == OrderInit => OrderInv
<1> SUFFICES ASSUME OrderInit PROVE OrderInv
    BY Zenon
<1>1. OrderTypes
    <2>1. <<>> \in Seq(PlacedType) /\ <<>> \in Seq(ApprovalType) /\ 0 \in Nat
        OBVIOUS
    <2>. QED BY <2>1, ReadyTyped, Zenon DEF OrderInit, OrderTypes, AccountTypes
<1>2. LimitsInv
    <2>1. DOMAIN approvals = {}
        BY DEF OrderInit
    <2>2. ASSUME NEW a \in Accounts PROVE StampsOK(stamps[a]) /\ Recorded(approvals, stamps[a], a, now)
        BY <2>1, NothingRecorded, Zenon DEF OrderInit
    <2>. QED BY <2>1, <2>2, Zenon DEF LimitsInv, ApprovedWithinLimits
<1>3. AnswersInv
    BY ReadyTyped, Zenon DEF OrderInit, AnswersInv, RepliesAreBacked
<1>. QED BY <1>1, <1>2, <1>3, Zenon DEF OrderInv

LEMMA ReplyTyped ==
    ASSUME OrderTypes, NEW s \in Submitters, NEW i \in Intents,
           NEW told \in {"rejected", "new", "partial", "filled", "cancelled", "not_cancelled", "unavailable"},
           Reply(s, i, told)
    PROVE  /\ call' \in [Submitters -> CallType]
           /\ call'[s].at = "idle" /\ call'[s].intent = i /\ call'[s].reply = told
           /\ \A u \in Submitters \ {s} : call'[u] = call[u]
<1> DEFINE c == [Ready EXCEPT !.intent = i, !.reply = told]
<1>1. c \in CallType /\ c.at = "idle" /\ c.intent = i /\ c.reply = told
    BY ReadyTyped, Zenon DEF CallType
<1> HIDE DEF c
<1>2. call' = [call EXCEPT ![s] = c]
    BY Zenon DEF Reply, c
<1>. QED BY <1>1, <1>2, Zenon DEF OrderTypes

LEMMA Placed ==
    ASSUME OrderTypes, AnswersInv, NEW s \in Submitters, call[s].at = "answered"
    PROVE  /\ PlacedBy(s) \in DOMAIN placed
           /\ placed[PlacedBy(s)].client = call[s].intent.client
<1> DEFINE c == call[s].intent.client
           T == {n \in DOMAIN placed : placed[n].client = c}
<1>1. placed \in Seq(PlacedType)
    BY Zenon DEF OrderTypes
<1>2. T # {}
    BY Zenon DEF AnswersInv
<1>3. T \subseteq 0..Len(placed) /\ Len(placed) \in Nat
    BY <1>1
<1>4. Max(T) \in T /\ \A x \in T : x <= Max(T)
    BY <1>2, <1>3, MaxOfBounded, Zenon
<1> DEFINE P(n) == placed[n].client = c /\ \A m \in DOMAIN placed : placed[m].client = placed[n].client => m <= n
<1>5. \E n \in DOMAIN placed : P(n)
    BY <1>4, Zenon
<1>6. PlacedBy(s) = CHOOSE n \in DOMAIN placed : P(n)
    BY Zenon DEF PlacedBy
<1>7. (CHOOSE n \in DOMAIN placed : P(n)) \in DOMAIN placed /\ P(CHOOSE n \in DOMAIN placed : P(n))
    <2> HIDE DEF P
    <2>. QED BY <1>5, Zenon
<1>. QED BY <1>6, <1>7, Zenon

(* The same step cases serve every conjunct of the invariant.              *)
LEMMA OrderSteps ==
    ASSUME OrderNext
    PROVE  \/ \E a \in Accounts, m \in AccountTypes, live \in BOOLEAN : CreateAccount(a, m, live)
           \/ \E a \in Accounts : DeleteAccount(a)
           \/ \E a \in Accounts, on \in BOOLEAN : SetLiveEnabled(a, on)
           \/ \E on \in BOOLEAN : ToggleKillSwitch(on)
           \/ \E on \in BOOLEAN : RiskKillSwitch(on)
           \/ Tick \/ RestartOrders \/ Reconcile
           \/ \E s \in Submitters, i \in Intents : Rejected(s, i)
           \/ \E s \in Submitters, i \in Intents : SubmitPaper(s, i)
           \/ \E s \in Submitters, i \in Intents : SubmitUnrouted(s, i)
           \/ \E s \in Submitters, i \in Intents : SubmitLive(s, i)
           \/ \E s \in Submitters : CallFails(s)
           \/ \E s \in Submitters : Answered(s)
           \/ \E s \in Submitters, raw \in RawStatuses : ExchangeTakes(s, raw)
           \/ \E n \in tracked : CancelOrder(n)
           \/ \E n \in tracked, s \in Submitters : QueryStatus(s, n)
           \/ \E s \in Submitters : CancelReturned(s)
BY Zenon DEF OrderNext, AccountsAdd, AccountTypes

LEMMA StampTyped ==
    ASSUME NEW S, StampsOK(S), NEW t \in Nat
    PROVE  <<t, Cardinality({x \in S : x[1] = t})>> \in Nat \X Nat
<1>1. {x \in S : x[1] = t} \in SUBSET S
    BY Zenon
<1>2. Cardinality({x \in S : x[1] = t}) \in Nat
    BY <1>1, FS_Subset, FS_CardinalityType, Zenon DEF StampsOK
<1>. QED BY <1>2, Zenon

(* RiskManager.check_order loses no entry that is still in the window.     *)
LEMMA CheckKeepsStamps ==
    ASSUME OrderTypes, LimitsInv, NEW i \in Intents,
           stamps' = StampsAfter(i) \/ stamps' = stamps
    PROVE  /\ stamps' \in [Accounts -> SUBSET (Nat \X Nat)]
           /\ \A a \in Accounts : StampsOK(stamps'[a]) /\ Within(stamps[a], now) \subseteq stamps'[a]
<1> DEFINE a == i.acct
           R == Recent(a)
           New == R \cup (IF RatePassed(i) THEN {Stamp(a)} ELSE {})
<1>1. a \in Accounts /\ now \in Nat /\ stamps \in [Accounts -> SUBSET (Nat \X Nat)]
    BY OrderAssumption, Zenon DEF OrderTypes
<1>2. R = Within(stamps[a], now)
    BY Zenon DEF Recent, Within
<1>3. StampsOK(R)
    BY <1>1, <1>2, WithinOK, Zenon DEF LimitsInv
<1>4. StampsOK(New)
    <2>1. CASE RatePassed(i)
        <3>1. New = R \cup {Stamp(a)}
            BY <2>1, Zenon
        <3>2. StampsOK(R \cup {Stamp(a)})
            BY <1>1, <1>3, NewStampOK, Zenon DEF Stamp
        <3>. QED BY <3>1, <3>2, Zenon
    <2>2. CASE ~RatePassed(i)
        <3>1. New = R
            BY <2>2, Zenon
        <3>. QED BY <3>1, <1>3, Zenon
    <2>. QED BY <2>1, <2>2, Zenon
<1>5. R \subseteq New
    BY Zenon
<1>6. \A b \in Accounts : StampsOK(stamps[b]) /\ Within(stamps[b], now) \subseteq stamps[b]
    BY Zenon DEF LimitsInv, Within
<1>7. CASE stamps' = stamps
    BY <1>7, <1>1, <1>6, Zenon
<1>8. CASE stamps' = StampsAfter(i) /\ RateAsked(i)
    <2>1. stamps' = [stamps EXCEPT ![a] = New]
        BY <1>8, Zenon DEF StampsAfter
    <2>2. New \in SUBSET (Nat \X Nat)
        BY <1>4, Zenon DEF StampsOK
    <2> HIDE DEF New, R, a
    <2>. QED BY <2>1, <2>2, <1>1, <1>2, <1>4, <1>5, <1>6, Zenon
<1>9. CASE stamps' = StampsAfter(i) /\ ~RateAsked(i)
    <2>1. stamps' = stamps
        BY <1>9, Zenon DEF StampsAfter
    <2>. QED BY <2>1, <1>7, Zenon
<1>. QED BY <1>7, <1>8, <1>9, Zenon

(* Every status an answer is read as.                                      *)
LEMMA StatusTyped ==
    ASSUME NEW raw
    PROVE  /\ Parse(raw) \in {"new", "partial", "filled", "rejected"}
           /\ StatusReport(raw) \in {"new", "partial", "filled", "cancelled", "rejected"}
<1>1. map_binance_status(raw) \in {"new", "filled", "cancelled", "rejected", "unknown"}
    BY Zenon DEF map_binance_status
<1>2. map_bybit_status(raw) \in {"new", "filled", "partial", "cancelled", "rejected", "unknown"}
    BY Zenon DEF map_bybit_status
<1>3. Parse(raw) \in {"new", "partial", "filled", "rejected"}
    BY <1>1, <1>2, Zenon DEF Parse, ParseBinance, ParseBybit
<1>. QED BY <1>1, <1>2, <1>3, Zenon DEF StatusReport

(* QueryStatus finds the intent of a placed order.                         *)
LEMMA IntentOf ==
    ASSUME OrderTypes, NEW n \in DOMAIN placed
    PROVE  /\ (CHOOSE i \in Intents : i.client = placed[n].client) \in Intents
           /\ (CHOOSE i \in Intents : i.client = placed[n].client).client = placed[n].client
<1>1. placed[n] \in PlacedType
    BY ElementOf, Zenon DEF OrderTypes
<1>2. placed[n].client \in {i.client : i \in Intents}
    BY <1>1, Zenon DEF PlacedType
<1>3. \E i \in Intents : i.client = placed[n].client
    BY <1>2, Zenon
<1>. QED BY <1>3, Zenon

LEMMA OrderTypesStep ==
    ASSUME OrderInv, OrderNext
    PROVE  OrderTypes'
<1> USE DEF OrderInv
<1>1. ASSUME NEW a \in Accounts, NEW m \in AccountTypes, NEW live \in BOOLEAN, CreateAccount(a, m, live)
      PROVE  OrderTypes'
    BY <1>1, Zenon DEF OrderTypes, CreateAccount
<1>2. ASSUME NEW a \in Accounts, DeleteAccount(a) PROVE OrderTypes'
    BY <1>2, Zenon DEF OrderTypes, DeleteAccount, AccountTypes
<1>3. ASSUME NEW a \in Accounts, NEW on \in BOOLEAN, SetLiveEnabled(a, on) PROVE OrderTypes'
    BY <1>3, Zenon DEF OrderTypes, SetLiveEnabled
<1>4. ASSUME NEW on \in BOOLEAN, ToggleKillSwitch(on) PROVE OrderTypes'
    BY <1>4, Zenon DEF OrderTypes, ToggleKillSwitch
<1>5. ASSUME NEW on \in BOOLEAN, RiskKillSwitch(on) PROVE OrderTypes'
    BY <1>5, Zenon DEF OrderTypes, RiskKillSwitch
<1>6. CASE Tick
    BY <1>6 DEF OrderTypes, Tick
<1>7. CASE RestartOrders
    <2>1. <<>> \in Seq(ApprovalType)
        OBVIOUS
    <2>. QED BY <1>7, <2>1, ReadyTyped, Zenon DEF OrderTypes, RestartOrders
<1>8. CASE Reconcile
    BY <1>8, Zenon DEF OrderTypes, Reconcile
<1>9. ASSUME NEW s \in Submitters, NEW i \in Intents, Rejected(s, i) PROVE OrderTypes'
    <2>1. call' \in [Submitters -> CallType]
        BY <1>9, ReplyTyped, Zenon DEF Rejected
    <2>2. stamps' \in [Accounts -> SUBSET (Nat \X Nat)]
        BY <1>9, CheckKeepsStamps, Zenon DEF Rejected
    <2>. QED BY <1>9, <2>1, <2>2, Zenon DEF OrderTypes, Rejected
<1>10. ASSUME NEW i \in Intents, Approve(i)
       PROVE  /\ stamps' \in [Accounts -> SUBSET (Nat \X Nat)] /\ approvals' \in Seq(ApprovalType)
              /\ UNCHANGED <<acct, killFile, kill, now>>
    <2>1. stamps' \in [Accounts -> SUBSET (Nat \X Nat)]
        BY <1>10, CheckKeepsStamps, Zenon DEF Approve
    <2>2. [acct |-> i.acct, at |-> now, killed |-> kill] \in ApprovalType
        BY OrderAssumption, Zenon DEF OrderTypes, ApprovalType
    <2>3. approvals' \in Seq(ApprovalType)
        BY <1>10, <2>2, Appended, Zenon DEF OrderTypes, Approve
    <2>. QED BY <1>10, <2>1, <2>3, Zenon DEF Approve
<1>11. ASSUME NEW s \in Submitters, NEW i \in Intents, SubmitPaper(s, i) PROVE OrderTypes'
    <2>1. call' \in [Submitters -> CallType]
        BY <1>11, ReplyTyped, Zenon DEF SubmitPaper
    <2>. QED BY <1>11, <2>1, <1>10, Zenon DEF OrderTypes, SubmitPaper
<1>12. ASSUME NEW s \in Submitters, NEW i \in Intents, SubmitUnrouted(s, i) PROVE OrderTypes'
    <2>1. call' \in [Submitters -> CallType]
        BY <1>12, ReplyTyped, Zenon DEF SubmitUnrouted
    <2>. QED BY <1>12, <2>1, <1>10, Zenon DEF OrderTypes, SubmitUnrouted
<1>13. ASSUME NEW s \in Submitters, NEW i \in Intents, SubmitLive(s, i) PROVE OrderTypes'
    <2>1. [Ready EXCEPT !.at = "sent", !.intent = i] \in CallType
        BY ReadyTyped, Zenon DEF CallType
    <2>2. call' \in [Submitters -> CallType]
        BY <1>13, <2>1, Zenon DEF OrderTypes, SubmitLive
    <2>. QED BY <1>13, <2>2, <1>10, Zenon DEF OrderTypes, SubmitLive
<1>14. ASSUME NEW s \in Submitters, CallFails(s) PROVE OrderTypes'
    <2>1. call[s].intent \in Intents
        BY Zenon DEF OrderTypes, CallType
    <2>2. call' \in [Submitters -> CallType]
        BY <1>14, <2>1, ReplyTyped, Zenon DEF CallFails
    <2>. QED BY <1>14, <2>2, Zenon DEF OrderTypes, CallFails
<1>15. ASSUME NEW s \in Submitters, Answered(s) PROVE OrderTypes'
    <2>1. call[s].intent \in Intents
        BY Zenon DEF OrderTypes, CallType
    <2>2. call' \in [Submitters -> CallType]
        BY <1>15, <2>1, ReplyTyped, StatusTyped, Zenon DEF Answered
    <2>3. PlacedBy(s) \in DOMAIN placed
        BY <1>15, Placed, Zenon DEF Answered
    <2>. QED BY <1>15, <2>2, <2>3, Zenon DEF OrderTypes, Answered
<1>16. ASSUME NEW s \in Submitters, NEW raw \in RawStatuses, ExchangeTakes(s, raw) PROVE OrderTypes'
    <2> DEFINE i == call[s].intent
               o == [client |-> i.client, acct |-> i.acct, live |-> acct[i.acct].live,
                     status |-> raw, id |-> Len(placed) + 1]
    <2>1. call[s] \in CallType /\ i \in Intents /\ i.acct \in Accounts
        BY OrderAssumption, Zenon DEF OrderTypes, CallType
    <2>2. o \in PlacedType
        <3>1. acct[i.acct].live \in BOOLEAN
            BY <2>1, Zenon DEF OrderTypes
        <3>2. Len(placed) + 1 \in Nat
            BY DEF OrderTypes
        <3>. QED BY <2>1, <3>1, <3>2, Zenon DEF PlacedType
    <2>3. placed' = Append(placed, o)
        BY <1>16, Zenon DEF ExchangeTakes
    <2>4. placed' \in Seq(PlacedType) /\ DOMAIN placed \subseteq DOMAIN placed'
        <3> HIDE DEF o
        <3>. QED BY <2>2, <2>3, Appended DEF OrderTypes
    <2>5. call' \in [Submitters -> CallType]
        BY <1>16, ZenonT(40) DEF OrderTypes, CallType, ExchangeTakes
    <2>. QED BY <1>16, <2>4, <2>5, Zenon DEF OrderTypes, ExchangeTakes
<1>17. ASSUME NEW n \in tracked, CancelOrder(n) PROVE OrderTypes'
    <2>1. n \in DOMAIN placed /\ placed[n] \in PlacedType
        BY ElementOf, Zenon DEF OrderTypes
    <2>2. [placed[n] EXCEPT !.status = "Canceled"] \in PlacedType
        BY <2>1, Zenon DEF PlacedType
    <2>3. placed' \in Seq(PlacedType) /\ DOMAIN placed' = DOMAIN placed
        BY <1>17, <2>1, <2>2 DEF OrderTypes, CancelOrder
    <2>. QED BY <1>17, <2>3, Zenon DEF OrderTypes, CancelOrder
<1>18. ASSUME NEW n \in tracked, NEW s \in Submitters, QueryStatus(s, n) PROVE OrderTypes'
    <2>1. n \in DOMAIN placed
        BY Zenon DEF OrderTypes
    <2>2. call' \in [Submitters -> CallType]
        BY <1>18, <2>1, IntentOf, ReplyTyped, StatusTyped, Zenon DEF QueryStatus
    <2>. QED BY <1>18, <2>2, Zenon DEF OrderTypes, QueryStatus
<1>19. ASSUME NEW s \in Submitters, CancelReturned(s) PROVE OrderTypes'
    <2>1. call[s].intent \in Intents
        BY Zenon DEF OrderTypes, CallType
    <2>2. call' \in [Submitters -> CallType]
        BY <1>19, <2>1, ReplyTyped, Zenon DEF CancelReturned
    <2>. QED BY <1>19, <2>2, Zenon DEF OrderTypes, CancelReturned
<1>. QED BY OrderSteps, <1>1, <1>2, <1>3, <1>4, <1>5, <1>6, <1>7, <1>8, <1>9, <1>11, <1>12, <1>13,
            <1>14, <1>15, <1>16, <1>17, <1>18, <1>19, Zenon

(* The count that ApprovedWithinLimits bounds.                             *)
Counted(ap, n) == {m \in 1..n : ap[m].acct = ap[n].acct /\ ap[m].at > ap[n].at - Window}

LEMMA LimitsStep ==
    ASSUME OrderInv, OrderNext
    PROVE  LimitsInv'
<1> USE DEF OrderInv
<1>1. CASE UNCHANGED <<now, stamps, approvals>>
    BY <1>1, Zenon DEF LimitsInv, ApprovedWithinLimits
<1>2. CASE Tick
    <2>1. now \in Nat /\ now' = now + 1 /\ stamps' = stamps /\ approvals' = approvals
        BY <1>2, Zenon DEF Tick, OrderTypes
    <2>2. \A n \in DOMAIN approvals : approvals[n].at \in Nat
        <3>1. \A n \in DOMAIN approvals : approvals[n] \in ApprovalType
            BY ElementOf, Zenon DEF OrderTypes
        <3>. QED BY <3>1, Zenon DEF ApprovalType
    <2>3. \A n \in DOMAIN approvals : ~approvals[n].killed /\ approvals[n].at <= now + 1
        BY <2>1, <2>2 DEF LimitsInv
    <2>4. ASSUME RateRule, NEW a \in Accounts PROVE Recorded(approvals, stamps[a], a, now + 1)
        BY <2>1, <2>4, RecordedLater, Zenon DEF LimitsInv, OrderTypes
    <2>5. ApprovedWithinLimits'
        BY <2>1, Zenon DEF LimitsInv, ApprovedWithinLimits
    <2>6. \A a \in Accounts : StampsOK(stamps[a])
        BY Zenon DEF LimitsInv
    <2>. QED BY <2>1, <2>3, <2>4, <2>5, <2>6, Zenon DEF LimitsInv, RateRule
<1>3. CASE RestartOrders
    <2>1. DOMAIN approvals' = {} /\ stamps' = [a \in Accounts |-> {}]
        BY <1>3 DEF RestartOrders
    <2>2. ASSUME NEW a \in Accounts PROVE StampsOK(stamps'[a]) /\ Recorded(approvals', stamps'[a], a, now')
        BY <2>1, NothingRecorded, Zenon
    <2>3. ApprovedWithinLimits'
        BY <2>1, Zenon DEF ApprovedWithinLimits
    <2>. QED BY <2>1, <2>2, <2>3, Zenon DEF LimitsInv
<1>4. ASSUME NEW s \in Submitters, NEW i \in Intents, Rejected(s, i) PROVE LimitsInv'
    <2>1. now' = now /\ approvals' = approvals /\ (stamps' = StampsAfter(i) \/ stamps' = stamps)
        BY <1>4, Zenon DEF Rejected
    <2>2. ASSUME NEW a \in Accounts PROVE StampsOK(stamps'[a]) /\ Within(stamps[a], now) \subseteq stamps'[a]
        BY <2>1, CheckKeepsStamps, Zenon
    <2>3. ASSUME RateRule, NEW a \in Accounts PROVE Recorded(approvals, stamps'[a], a, now)
        <3>1. Recorded(approvals, stamps[a], a, now)
            BY <2>3, Zenon DEF LimitsInv
        <3>. QED BY <3>1, <2>2, RecordedKept, Zenon DEF OrderTypes
    <2>4. ApprovedWithinLimits'
        BY <2>1, Zenon DEF LimitsInv, ApprovedWithinLimits
    <2>5. \A n \in DOMAIN approvals : ~approvals[n].killed /\ approvals[n].at <= now
        BY Zenon DEF LimitsInv
    <2>. QED BY <2>1, <2>2, <2>3, <2>4, <2>5, Zenon DEF LimitsInv, RateRule
<1>5. ASSUME NEW i \in Intents, Approve(i) PROVE LimitsInv'
    <2> DEFINE a == i.acct
               r == [acct |-> a, at |-> now, killed |-> kill]
               l == Len(approvals) + 1
    <2>1. /\ now' = now /\ approvals' = Append(approvals, r) /\ stamps' = StampsAfter(i)
          /\ Failing(i) = {}
        BY <1>5, Zenon DEF Approve, Allowed
    <2>2. r \in ApprovalType /\ a \in Accounts /\ now \in Nat /\ kill \in BOOLEAN
        BY OrderAssumption, Zenon DEF ApprovalType, OrderTypes
    <2>3. /\ l \in Nat /\ DOMAIN approvals' = DOMAIN approvals \cup {l} /\ approvals'[l] = r
          /\ l \notin DOMAIN approvals
          /\ \A m \in DOMAIN approvals : approvals'[m] = approvals[m]
        <3>1. approvals \in Seq(ApprovalType)
            BY Zenon DEF OrderTypes
        <3>2. Len(approvals) \in Nat
            BY <3>1
        <3> HIDE DEF r
        <3>. QED BY <2>1, <2>2, <3>1, <3>2, Appended
    <2>4. ~kill
        <3>1. 1 \in DOMAIN Rules /\ Rules[1] = "kill"
            BY OrderAssumption
        <3>2. Passes("kill", i)
            BY <2>1, <3>1, Zenon DEF Failing
        <3>. QED BY <3>2, Zenon DEF Passes
    <2>5. ASSUME NEW b \in Accounts PROVE StampsOK(stamps'[b]) /\ Within(stamps[b], now) \subseteq stamps'[b]
        BY <2>1, CheckKeepsStamps, Zenon
    <2>6. \A n \in DOMAIN approvals' : ~approvals'[n].killed /\ approvals'[n].at <= now
        BY <2>2, <2>3, <2>4 DEF LimitsInv
    <2>7. ASSUME RateRule
          PROVE  /\ \A b \in Accounts : Recorded(approvals', stamps'[b], b, now)
                 /\ \A n \in DOMAIN approvals' : Cardinality(Counted(approvals', n)) <= MaxOrders
        <3>1. Recent(a) = Within(stamps[a], now) /\ StampsOK(Recent(a))
            BY <2>2, WithinOK, Zenon DEF Recent, Within, LimitsInv
        <3>2. Cardinality(Recent(a)) < MaxOrders
            <4>1. PICK n \in DOMAIN Rules : Rules[n] = "rate"
                BY <2>7, Zenon DEF RateRule
            <4>2. Passes("rate", i)
                BY <2>1, <4>1, Zenon DEF Failing
            <4>. QED BY <4>2, Zenon DEF Passes
        <3>3. stamps' = [stamps EXCEPT ![a] = Recent(a) \cup {Stamp(a)}]
            <4>1. RateAsked(i) /\ RatePassed(i)
                BY <2>1, <2>7, Zenon DEF RateRule, RateAsked, RatePassed
            <4>. QED BY <2>1, <4>1, Zenon DEF StampsAfter
        <3>4. stamps'[a] = Recent(a) \cup {Stamp(a)}
            BY <3>3, <2>2, Zenon DEF OrderTypes
        <3>5. Stamp(a) \notin Recent(a) /\ Stamp(a)[1] = now
            BY <2>2, <3>1, NewStampOK, Zenon DEF Stamp
        <3>6. Recorded(approvals, Recent(a), a, now) /\ Within(Recent(a), now) \subseteq Recent(a)
            BY <2>2, <2>7, <3>1, RecordedKept, Zenon DEF LimitsInv, Within
        <3>7. /\ Windowed(approvals', a, now) = Windowed(approvals, a, now) \cup {l}
              /\ Recorded(approvals', stamps'[a], a, now)
            <4>1. Within(Recent(a), now) \subseteq stamps'[a] /\ Stamp(a) \in stamps'[a]
                BY <3>4, <3>6, Zenon
            <4>2. approvals \in Seq(ApprovalType)
                BY Zenon DEF OrderTypes
            <4>3. r \in ApprovalType /\ r.acct = a /\ r.at = now
                BY <2>2, Zenon
            <4> DEFINE S == Recent(a)
                       x == Stamp(a)
                       T == stamps'[a]
            <4>4. /\ Recorded(approvals, S, a, now) /\ x \notin S /\ x[1] = now
                  /\ Within(S, now) \subseteq T /\ x \in T
                  /\ a \in Accounts /\ now \in Nat
                BY <2>1, <2>2, <3>5, <3>6, <4>1, Zenon
            <4>5. approvals' = Append(approvals, r)
                BY <2>1, Zenon
            <4> HIDE DEF a, r, S, x, T
            <4>6. /\ Windowed(Append(approvals, r), a, now) = Windowed(approvals, a, now) \cup {Len(approvals) + 1}
                  /\ Recorded(Append(approvals, r), T, a, now)
                <5>1. Recorded(Append(approvals, r), T, a, now)
                    BY <4>2, <4>3, <4>4, RecordedNew, ZenonT(60)
                <5>2. Windowed(Append(approvals, r), a, now) = Windowed(approvals, a, now) \cup {Len(approvals) + 1}
                    BY <4>2, <4>3, <4>4, WindowedNew, Zenon
                <5>. QED BY <5>1, <5>2, Zenon
            <4>. QED BY <4>5, <4>6, Zenon DEF T
        <3>8. ASSUME NEW b \in Accounts, b # a PROVE Recorded(approvals', stamps'[b], b, now)
            <4>1. Recorded(approvals, stamps[b], b, now)
                BY <2>7, Zenon DEF LimitsInv
            <4>2. Recorded(approvals, stamps'[b], b, now)
                BY <4>1, <2>2, <2>5, RecordedKept, Zenon
            <4>3. r.acct # b
                BY <3>8, Zenon
            <4> HIDE DEF r
            <4>. QED BY <2>1, <2>2, <4>2, <4>3, RecordedOther, Zenon DEF OrderTypes
        <3>9. Cardinality(Windowed(approvals, a, now)) <= Cardinality(Recent(a))
              /\ IsFiniteSet(Windowed(approvals, a, now))
            <4>1. PICK f : f \in Injection(Windowed(approvals, a, now), Within(Recent(a), now))
                BY <3>6, Zenon DEF Recorded
            <4>2. Within(Recent(a), now) = Recent(a)
                BY <3>1, Zenon DEF Within
            <4>3. f \in Injection(Windowed(approvals, a, now), Recent(a)) /\ IsFiniteSet(Recent(a))
                BY <4>1, <4>2, <3>1, Zenon DEF StampsOK
            <4>. QED BY <4>3, FS_Injection, Zenon
        <3>10. Cardinality(Windowed(approvals', a, now)) <= MaxOrders
            <4>1. l \notin Windowed(approvals, a, now)
                BY <2>3, Zenon DEF Windowed
            <4>2. Cardinality(Windowed(approvals, a, now) \cup {l}) = Cardinality(Windowed(approvals, a, now)) + 1
                BY <4>1, <3>9, FS_AddElement, Zenon
            <4>3. Cardinality(Windowed(approvals, a, now)) \in Nat /\ Cardinality(Recent(a)) \in Nat
                BY <3>1, <3>9, FS_CardinalityType, Zenon DEF StampsOK
            <4> DEFINE x == Cardinality(Windowed(approvals, a, now))
                       y == Cardinality(Recent(a))
                       z == Cardinality(Windowed(approvals', a, now))
            <4>4. z = x + 1 /\ x \in Nat /\ y \in Nat /\ x <= y /\ y < MaxOrders
                BY <3>2, <3>7, <3>9, <4>2, <4>3, Zenon
            <4> HIDE DEF x, y, z
            <4>5. z <= MaxOrders
                BY <4>4, OrderAssumption
            <4>. QED BY <4>5, Zenon DEF z
        <3>11. Counted(approvals', l) = Windowed(approvals', a, now)
            <4>1. DOMAIN approvals' = 1..l
                BY <2>1, <2>2 DEF OrderTypes
            <4>2. approvals'[l].acct = a /\ approvals'[l].at = now
                BY <2>3
            <4>. QED BY <4>1, <4>2, Zenon DEF Counted, Windowed
        <3>12. ASSUME NEW n \in DOMAIN approvals PROVE Counted(approvals', n) = Counted(approvals, n)
            <4>1. 1..n \subseteq DOMAIN approvals
                BY DEF OrderTypes
            <4>. QED BY <4>1, <2>3, Zenon DEF Counted
        <3>13. \A n \in DOMAIN approvals : Cardinality(Counted(approvals, n)) <= MaxOrders
            BY <2>7, Zenon DEF LimitsInv, ApprovedWithinLimits, Counted, RateRule
        <3>14. \A n \in DOMAIN approvals' : Cardinality(Counted(approvals', n)) <= MaxOrders
            BY <2>3, <3>10, <3>11, <3>12, <3>13, Zenon
        <3>. QED BY <3>7, <3>8, <3>14, Zenon
    <2>8. ApprovedWithinLimits'
        BY <2>6, <2>7, Zenon DEF ApprovedWithinLimits, Counted, RateRule
    <2>. QED BY <2>1, <2>5, <2>6, <2>7, <2>8, Zenon DEF LimitsInv, RateRule
<1>6. ASSUME NEW s \in Submitters, NEW i \in Intents,
             SubmitPaper(s, i) \/ SubmitUnrouted(s, i) \/ SubmitLive(s, i)
      PROVE  LimitsInv'
    BY <1>5, <1>6, Zenon DEF SubmitPaper, SubmitUnrouted, SubmitLive
<1>7. CASE UNCHANGED <<now, stamps, approvals>> \/ Tick \/ RestartOrders
           \/ (\E s \in Submitters, i \in Intents : Rejected(s, i))
           \/ (\E s \in Submitters, i \in Intents : SubmitPaper(s, i) \/ SubmitUnrouted(s, i) \/ SubmitLive(s, i))
    BY <1>7, <1>1, <1>2, <1>3, <1>4, <1>6, Zenon
<1>. QED
    BY OrderSteps, <1>7, Zenon DEF CreateAccount, DeleteAccount, SetLiveEnabled, ToggleKillSwitch,
       RiskKillSwitch,
       Reconcile, CallFails, Answered, ExchangeTakes, CancelOrder, QueryStatus, CancelReturned

LEMMA AnswersStep ==
    ASSUME OrderInv, OrderNext
    PROVE  AnswersInv'
<1> USE DEF OrderInv
<1> DEFINE Has(p, c) == \E n \in DOMAIN p : p[n].client = c
<1>1. ASSUME \A c : Has(placed, c) => Has(placed', c), fills \subseteq fills', call' = call
      PROVE  AnswersInv'
    BY <1>1, Zenon DEF AnswersInv, RepliesAreBacked
<1>2. ASSUME NEW s \in Submitters, NEW i \in Intents,
             NEW told \in {"rejected", "new", "partial", "filled", "cancelled", "not_cancelled", "unavailable"},
             Reply(s, i, told), placed' = placed, fills \subseteq fills',
             told \in {"new", "partial", "filled"} => i.client \in fills' \/ Has(placed, i.client)
      PROVE  AnswersInv'
    <2>1. /\ call'[s].at = "idle" /\ call'[s].intent = i /\ call'[s].reply = told
          /\ \A u \in Submitters \ {s} : call'[u] = call[u]
        BY <1>2, ReplyTyped
    <2>2. ASSUME NEW u \in Submitters PROVE
              /\ call'[u].at = "answered" => Has(placed, call'[u].intent.client)
              /\ call'[u].reply \in {"new", "partial", "filled"} =>
                     call'[u].intent.client \in fills' \/ Has(placed, call'[u].intent.client)
        <3>1. CASE u = s
            BY <3>1, <2>1, <1>2, Zenon
        <3>2. CASE u # s
            <4>1. call'[u] = call[u]
                BY <3>2, <2>1, Zenon
            <4>. QED BY <4>1, <1>2, Zenon DEF AnswersInv, RepliesAreBacked
        <3>. QED BY <3>1, <3>2, Zenon
    <2>. QED BY <2>2, <1>2, Zenon DEF AnswersInv, RepliesAreBacked
<1>3. CASE UNCHANGED <<placed, fills, call>>
    BY <1>3, <1>1, Zenon
<1>4. CASE RestartOrders
    <2>1. ASSUME NEW s \in Submitters PROVE call'[s].at = "idle" /\ call'[s].reply = "none"
        BY <1>4, ReadyTyped, Zenon DEF RestartOrders
    <2>. QED BY <2>1, Zenon DEF AnswersInv, RepliesAreBacked
<1>5. ASSUME NEW s \in Submitters, NEW i \in Intents, Rejected(s, i) PROVE AnswersInv'
    BY <1>5, <1>2, Zenon DEF Rejected
<1>6. ASSUME NEW s \in Submitters, NEW i \in Intents, SubmitPaper(s, i) PROVE AnswersInv'
    BY <1>6, <1>2, Zenon DEF SubmitPaper
<1>7. ASSUME NEW s \in Submitters, NEW i \in Intents, SubmitUnrouted(s, i) PROVE AnswersInv'
    BY <1>7, <1>2, Zenon DEF SubmitUnrouted
<1>8. ASSUME NEW s \in Submitters, NEW i \in Intents, SubmitLive(s, i) PROVE AnswersInv'
    <2> DEFINE c == [Ready EXCEPT !.at = "sent", !.intent = i]
    <2>1. c.at = "sent" /\ c.reply = "none"
        BY ReadyTyped, Zenon DEF CallType
    <2>2. call' = [call EXCEPT ![s] = c] /\ placed' = placed /\ fills' = fills
        BY <1>8, Zenon DEF SubmitLive
    <2> HIDE DEF c
    <2>3. call'[s] = c /\ \A u \in Submitters \ {s} : call'[u] = call[u]
        BY <2>2, Zenon DEF OrderTypes
    <2>. QED BY <2>1, <2>2, <2>3 DEF AnswersInv, RepliesAreBacked
<1>9. ASSUME NEW s \in Submitters, CallFails(s) PROVE AnswersInv'
    <2>1. call[s].intent \in Intents
        BY Zenon DEF OrderTypes, CallType
    <2>. QED BY <1>9, <2>1, <1>2, Zenon DEF CallFails
<1>10. ASSUME NEW s \in Submitters, Answered(s) PROVE AnswersInv'
    <2>1. call[s].intent \in Intents
        BY Zenon DEF OrderTypes, CallType
    <2>2. Has(placed, call[s].intent.client)
        BY <1>10, Zenon DEF Answered, AnswersInv
    <2> HIDE DEF Has
    <2>. QED BY <1>10, <2>1, <2>2, <1>2, StatusTyped, Zenon DEF Answered
<1>11. ASSUME NEW s \in Submitters, NEW raw \in RawStatuses, ExchangeTakes(s, raw) PROVE AnswersInv'
    <2> DEFINE i == call[s].intent
               o == [client |-> i.client, acct |-> i.acct, live |-> acct[i.acct].live,
                     status |-> raw, id |-> Len(placed) + 1]
    <2>1. placed' = Append(placed, o) /\ fills' = fills /\ o.client = i.client
        BY <1>11, Zenon DEF ExchangeTakes
    <2>2. Has(placed', i.client) /\ \A c : Has(placed, c) => Has(placed', c)
        <3> HIDE DEF o
        <3>1. placed \in Seq(PlacedType)
            BY Zenon DEF OrderTypes
        <3>2. /\ DOMAIN placed' = DOMAIN placed \cup {Len(placed) + 1}
              /\ placed'[Len(placed) + 1] = o
              /\ \A m \in DOMAIN placed : placed'[m] = placed[m]
            BY <2>1, <3>1
        <3>. QED BY <2>1, <3>2, Zenon
    <2>3. /\ call'[s].intent = i /\ call'[s].reply = call[s].reply
          /\ \A u \in Submitters \ {s} : call'[u] = call[u]
        <3>1. call[s] \in CallType
            BY Zenon DEF OrderTypes
        <3>2. call' = [call EXCEPT ![s] = [[call[s] EXCEPT !.at = "answered"] EXCEPT !.raw = raw]]
            BY <1>11, <3>1, Zenon DEF ExchangeTakes, OrderTypes, CallType
        <3>. QED BY <3>1, <3>2, Zenon DEF OrderTypes, CallType
    <2>4. ASSUME NEW u \in Submitters PROVE
              /\ call'[u].at = "answered" => Has(placed', call'[u].intent.client)
              /\ call'[u].reply \in {"new", "partial", "filled"} =>
                     call'[u].intent.client \in fills' \/ Has(placed', call'[u].intent.client)
        <3>1. /\ call[u].at = "answered" => Has(placed, call[u].intent.client)
              /\ call[u].reply \in {"new", "partial", "filled"} =>
                     call[u].intent.client \in fills \/ Has(placed, call[u].intent.client)
            BY Zenon DEF AnswersInv, RepliesAreBacked
        <3> HIDE DEF Has, i
        <3>2. CASE u = s
            BY <3>2, <2>2, <2>3, Zenon
        <3>3. CASE u # s
            <4>1. call'[u] = call[u]
                BY <3>3, <2>3, Zenon
            <4>. QED BY <4>1, <3>1, <2>1, <2>2, Zenon
        <3>. QED BY <3>2, <3>3, Zenon
    <2>. QED BY <2>4, Zenon DEF AnswersInv, RepliesAreBacked
<1>12. ASSUME NEW n \in tracked, CancelOrder(n) PROVE AnswersInv'
    <2>1. n \in DOMAIN placed /\ placed[n] \in PlacedType
        BY ElementOf, Zenon DEF OrderTypes
    <2>2. DOMAIN placed' = DOMAIN placed /\ \A m \in DOMAIN placed : placed'[m].client = placed[m].client
        BY <1>12, <2>1, Zenon DEF CancelOrder, OrderTypes, PlacedType
    <2>. QED BY <1>12, <2>2, <1>1, Zenon DEF CancelOrder
<1>13. ASSUME NEW n \in tracked, NEW s \in Submitters, QueryStatus(s, n) PROVE AnswersInv'
    <2> DEFINE i == CHOOSE j \in Intents : j.client = placed[n].client
    <2>1. n \in DOMAIN placed
        BY Zenon DEF OrderTypes
    <2>2. i \in Intents /\ i.client = placed[n].client
        BY <2>1, IntentOf, Zenon
    <2>3. Reply(s, i, StatusReport(placed[n].status)) /\ placed' = placed /\ fills' = fills
        BY <1>13, Zenon DEF QueryStatus
    <2> HIDE DEF i
    <2>4. Has(placed, i.client)
        BY <2>1, <2>2, Zenon
    <2> HIDE DEF Has
    <2>. QED BY <2>2, <2>3, <2>4, <1>2, StatusTyped, Zenon
<1>14. ASSUME NEW s \in Submitters, CancelReturned(s) PROVE AnswersInv'
    <2>1. call[s].intent \in Intents
        BY Zenon DEF OrderTypes, CallType
    <2>. QED BY <1>14, <2>1, <1>2, Zenon DEF CancelReturned
<1> HIDE DEF Has
<1>15. CASE UNCHANGED <<placed, fills, call>> \/ RestartOrders
    BY <1>15, <1>3, <1>4, Zenon
<1>. QED
    BY OrderSteps, <1>15, <1>5, <1>6, <1>7, <1>8, <1>9, <1>10, <1>11, <1>12, <1>13, <1>14, Zenon
       DEF CreateAccount, DeleteAccount, SetLiveEnabled, ToggleKillSwitch, RiskKillSwitch, Tick, Reconcile

(* Every step of the routers, the approvals and the exchange keeps the     *)
(* invariant: within a life of the gateway every approval in the window    *)
(* has an entry of its own in the rate rule, and every answer a router     *)
(* reports has an order at the exchange or a paper fill.                   *)
THEOREM OrderInvStep == OrderInv /\ [OrderNext]_orderVars => OrderInv'
<1>1. ASSUME OrderInv, OrderNext PROVE OrderInv'
    BY <1>1, OrderTypesStep, LimitsStep, AnswersStep, Zenon DEF OrderInv
<1>2. ASSUME OrderInv, UNCHANGED orderVars PROVE OrderInv'
    <2>1. OrderTypes'
        BY <1>2, Zenon DEF OrderInv, OrderTypes, orderVars
    <2>2. LimitsInv'
        BY <1>2, Zenon DEF OrderInv, LimitsInv, ApprovedWithinLimits, orderVars
    <2>3. AnswersInv'
        BY <1>2, Zenon DEF OrderInv, AnswersInv, RepliesAreBacked, orderVars
    <2>. QED BY <2>1, <2>2, <2>3, Zenon DEF OrderInv
<1>. QED BY <1>1, <1>2, Zenon

(* For any accounts, submitters, intents, rules and window, no interleaving*)
(* of submissions, risk checks, restarts and exchange answers approves an  *)
(* order against the limits that RiskManager.check_order applies in this   *)
(* life of the gateway, or reports one that neither the exchange nor the   *)
(* paper account has (ExecutionRouter.submit_order).                       *)
THEOREM OrdersStayBacked == OrderSpec => []OrdersAreBacked
<1>1. OrderInv => OrdersAreBacked
    <2> SUFFICES ASSUME OrderInv PROVE OrdersAreBacked
        BY Zenon
    <2>1. DOMAIN placed = 1..Len(placed)
        BY DEF OrderInv, OrderTypes
    <2>2. \A s \in Submitters : call[s] \in CallType
        BY Zenon DEF OrderInv, OrderTypes
    <2>3. \A s \in Submitters : call[s].at \in {"idle", "sent", "answered"} /\ call[s].intent \in Intents
        BY <2>2, Zenon DEF CallType
    <2>4. OrderTypeOK
        BY <2>1, <2>3, Zenon DEF OrderInv, OrderTypes, OrderTypeOK
    <2>. QED BY <2>4, Zenon DEF OrderInv, LimitsInv, AnswersInv, OrdersAreBacked
<1>. QED BY <1>1, OrderInvInit, OrderInvStep, PTL DEF OrderSpec
=============================================================================
