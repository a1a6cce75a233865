---------------------------- MODULE StoresProofs ----------------------------
(***************************************************************************)
(* What the stores of results, requests and snapshots keep, for any number *)
(* of runs, requests, processes and snapshots: what a crash, a failed      *)
(* rename or a failed commit leaves of the results of the runs that the    *)
(* gateway creates and saves; that one idempotency key has one scheduled   *)
(* run at a time and that answers match their requests; and that the index *)
(* of the snapshots loses no update and no newest save, whichever process  *)
(* ends between two of its steps; and that a batch skips only what an      *)
(* earlier one completed, wherever that one was killed.                    *)
(***************************************************************************)
EXTENDS BacktestPublication, BacktestIdempotency, SnapshotStore, BatchRunner, FiniteSetTheorems, TLAPS

-----------------------------------------------------------------------------
(* The results of runs *)

\* Two states agree on everything RunOK(q) looks at.
SameRun(q) ==
  /\ row'[q] = row[q] /\ committed'[q] = committed[q] /\ saves'[q] = saves[q]
  /\ tmp'[q] = tmp[q] /\ dir'[q] = dir[q] /\ backup'[q] = backup[q] /\ at'[q] = at[q]

\* A step that touches neither run q nor the recovery keeps q's invariant.
LEMMA RunKept ==
  ASSUME NEW q \in Runs, RunOK(q), SameRun(q), UNCHANGED recVars
  PROVE  RunOK(q)'
BY Zenon DEF RunOK, NewOK, RunningOK, DoneOK, EndedOK, RecoveryOK, NothingLeft, SameRun, recVars

\* A run starts with no row and no directory.
THEOREM PublicationInit == Init => Consistent
BY SavesAssumption
   DEF Init, Consistent, TypeOK, Versions, RunOK, NewOK, RunningOK, DoneOK, EndedOK, RecoveryOK,
       NothingLeft

\* Every step of a save, of a deletion and of the gateway keeps the types.
LEMMA PublicationTypes == TypeOK /\ Next => TypeOK'
<1> SUFFICES ASSUME TypeOK, Next PROVE TypeOK'
  BY Zenon
<1>0. 0 \in Versions /\ \A v \in Versions : v < MaxSaves => v + 1 \in Versions
  BY SavesAssumption DEF Versions
<1> USE <1>0 DEF TypeOK, Goto, recVars, dirVars
<1>1. ASSUME NEW r \in Runs, CreateRun(r) \/ DeleteRun(r) \/ DeleteDir(r) PROVE TypeOK'
  <2>1. CASE CreateRun(r)
    BY <2>1, Zenon DEF CreateRun
  <2>2. CASE DeleteRun(r)
    BY <2>2, Zenon DEF DeleteRun
  <2>3. CASE DeleteDir(r)
    BY <2>3, Zenon DEF DeleteDir
  <2> QED
    BY <1>1, <2>1, <2>2, <2>3, Zenon
<1>2. ASSUME NEW r \in Runs, Save(r) PROVE TypeOK'
  <2>1. CASE SaveBegins(r)
    <3>1. saves' \in [Runs -> Versions]
      BY <2>1, Zenon DEF SaveBegins
    <3> QED
      BY <2>1, <3>1, Zenon DEF SaveBegins
  <2>2. CASE Writes(r)
    BY <2>2, Zenon DEF Writes
  <2>3. CASE MoveAside(r)
    BY <2>3, Zenon DEF MoveAside
  <2>4. CASE Install(r)
    BY <2>4 DEF Install
  <2>5. CASE Commit(r)
    BY <2>5 DEF Commit
  <2>6. CASE CleanBackup(r)
    BY <2>6, Zenon DEF CleanBackup
  <2>7. CASE UndoTmp(r)
    BY <2>7, Zenon DEF UndoTmp
  <2>8. CASE UndoDir(r)
    BY <2>8 DEF UndoDir
  <2>9. CASE Restore(r)
    BY <2>9, Zenon DEF Restore
  <2>10. CASE Raised(r)
    BY <2>10, Zenon DEF Raised
  <2> QED
    BY <1>2, <2>1, <2>2, <2>3, <2>4, <2>5, <2>6, <2>7, <2>8, <2>9, <2>10, Zenon DEF Save
<1>3. CASE Crash
  BY <1>3, Zenon DEF Crash
<1>4. CASE Recovery
  <2>1. CASE RecoveryBegins
    BY <2>1, Zenon DEF RecoveryBegins
  <2>2. CASE RecoveryEnds
    BY <2>2, Zenon DEF RecoveryEnds
  <2>3. ASSUME NEW r \in Runs, RecoverTmp(r) PROVE TypeOK'
    BY <2>3, Zenon DEF RecoverTmp
  <2>4. ASSUME NEW r \in Runs, RecoverDir(r) PROVE TypeOK'
    BY <2>4, Zenon DEF RecoverDir
  <2>5. ASSUME NEW r \in Runs, RecoverRestore(r) PROVE TypeOK'
    BY <2>5, Zenon DEF RecoverRestore
  <2> QED
    BY <1>4, <2>1, <2>2, <2>3, <2>4, <2>5, Zenon DEF Recovery
<1> QED
  BY <1>1, <1>2, <1>3, <1>4, Zenon DEF Next

\* A step of save_result for a run of the gateway keeps the run's invariant.
LEMMA SaveKeepsRun ==
  ASSUME CliRuns = {}, NEW r \in Runs, TypeOK, RunOK(r), Save(r)
  PROVE  RunOK(r)'
<1> USE SavesAssumption
    DEF TypeOK, Versions, Goto, recVars, dirVars, RunOK, NewOK, RunningOK, DoneOK, EndedOK,
        RecoveryOK, NothingLeft
<1>1. CASE SaveBegins(r)
  BY <1>1 DEF SaveBegins, Alive
<1>2. CASE Writes(r)
  BY <1>2, Zenon DEF Writes
<1>3. CASE MoveAside(r)
  BY <1>3 DEF MoveAside
<1>4. CASE Install(r)
  BY <1>4 DEF Install
<1>5. CASE Commit(r)
  BY <1>5 DEF Commit
<1>6. CASE CleanBackup(r)
  BY <1>6 DEF CleanBackup
<1>7. CASE UndoTmp(r)
  BY <1>7, Zenon DEF UndoTmp
<1>8. CASE UndoDir(r)
  BY <1>8 DEF UndoDir
<1>9. CASE Restore(r)
  BY <1>9 DEF Restore
<1>10. CASE Raised(r)
  BY <1>10, Zenon DEF Raised
<1> QED
  BY <1>1, <1>2, <1>3, <1>4, <1>5, <1>6, <1>7, <1>8, <1>9, <1>10, Zenon DEF Save

\* A step of save_result touches no other run and no recovery.
LEMMA SaveIsLocal ==
  ASSUME NEW r \in Runs, NEW q \in Runs \ {r}, TypeOK, Save(r)
  PROVE  SameRun(q) /\ UNCHANGED recVars
<1> USE DEF SameRun, TypeOK, Goto, recVars, dirVars
<1>1. CASE SaveBegins(r) \/ Writes(r) \/ MoveAside(r)
  BY <1>1 DEF SaveBegins, Writes, MoveAside
<1>2. CASE Install(r) \/ Commit(r) \/ CleanBackup(r)
  BY <1>2 DEF Install, Commit, CleanBackup
<1>3. CASE UndoTmp(r) \/ UndoDir(r) \/ Restore(r) \/ Raised(r)
  BY <1>3 DEF UndoTmp, UndoDir, Restore, Raised
<1> QED
  BY <1>1, <1>2, <1>3, Zenon DEF Save

\* Creation, saving, deletion, crash and recovery keep every run consistent.
THEOREM PublicationStep ==
  ASSUME CliRuns = {} PROVE Consistent /\ [Next]_vars => Consistent'
<1> SUFFICES ASSUME Consistent, [Next]_vars PROVE Consistent'
  BY Zenon
<1>0. TypeOK /\ \A q \in Runs : RunOK(q)
  BY Zenon DEF Consistent
<1>1. TypeOK'
  BY <1>0, PublicationTypes, Zenon DEF TypeOK, vars
<1>2. ASSUME NEW r \in Runs, NEW q \in Runs, Save(r) PROVE RunOK(q)'
  BY <1>0, <1>2, SaveKeepsRun, SaveIsLocal, RunKept, Zenon
<1>3. ASSUME NEW r \in Runs, NEW q \in Runs, CreateRun(r) \/ DeleteRun(r) \/ DeleteDir(r)
      PROVE  RunOK(q)'
  <2>1. CASE q = r
    <3> USE <1>0, SavesAssumption
        DEF TypeOK, Versions, Goto, recVars, dirVars, RunOK, NewOK, RunningOK, DoneOK, EndedOK,
            RecoveryOK, NothingLeft
    <3>1. CASE CreateRun(r)
      BY <3>1, <2>1, Zenon DEF CreateRun, Alive
    <3>2. CASE DeleteRun(r)
      BY <3>2, <2>1, Zenon DEF DeleteRun
    <3>3. CASE DeleteDir(r)
      BY <3>3, <2>1 DEF DeleteDir
    <3> QED
      BY <1>3, <3>1, <3>2, <3>3, Zenon
  <2>2. CASE q # r
    <3>1. SameRun(q) /\ UNCHANGED recVars
      BY <1>0, <1>3, <2>2, Zenon
         DEF CreateRun, DeleteRun, DeleteDir, SameRun, TypeOK, Goto, recVars, dirVars
    <3> QED
      BY <1>0, <3>1, RunKept, Zenon
  <2> QED
    BY <2>1, <2>2, Zenon
<1>4. ASSUME NEW q \in Runs, Crash PROVE RunOK(q)'
  BY <1>0, <1>4, Zenon
     DEF Crash, TypeOK, dirVars, RunOK, NewOK, RunningOK, DoneOK, EndedOK, RecoveryOK,
         NothingLeft
<1>5. ASSUME NEW q \in Runs, RecoveryBegins PROVE RunOK(q)'
  BY <1>0, <1>5, Zenon
     DEF RecoveryBegins, TypeOK, dirVars, RunOK, NewOK, RunningOK, DoneOK, EndedOK, RecoveryOK,
         NothingLeft
<1>6. ASSUME NEW q \in Runs, NEW r \in Runs, RecoverTmp(r) PROVE RunOK(q)'
  BY <1>0, <1>6
     DEF RecoverTmp, TypeOK, RunOK, NewOK, RunningOK, DoneOK, EndedOK, RecoveryOK, NothingLeft
<1>7. ASSUME NEW q \in Runs, NEW r \in Runs, RecoverDir(r) PROVE RunOK(q)'
  BY <1>0, <1>7
     DEF RecoverDir, TypeOK, RunOK, NewOK, RunningOK, DoneOK, EndedOK, RecoveryOK, NothingLeft
<1>8. ASSUME NEW q \in Runs, NEW r \in Runs, RecoverRestore(r) PROVE RunOK(q)'
  BY <1>0, <1>8, Zenon
     DEF RecoverRestore, TypeOK, RunOK, NewOK, RunningOK, DoneOK, EndedOK, RecoveryOK,
         NothingLeft
<1>9. ASSUME NEW q \in Runs, RecoveryEnds PROVE RunOK(q)'
  BY <1>0, <1>9
     DEF RecoveryEnds, TypeOK, dirVars, RunOK, NewOK, RunningOK, DoneOK, EndedOK, RecoveryOK,
         NothingLeft
<1>10. ASSUME NEW q \in Runs, UNCHANGED vars PROVE RunOK(q)'
  BY <1>0, <1>10, RunKept, Zenon DEF vars, SameRun, recVars
<1> QED
  BY <1>1, <1>2, <1>3, <1>4, <1>5, <1>6, <1>7, <1>8, <1>9, <1>10, Zenon
     DEF Consistent, Next, Recovery

\* save_result publishes atomically: a reader finds the committed artifacts of a
\* done run, whatever step of which run failed or was cut off by a crash.
THEOREM PublicationDone == ASSUME CliRuns = {} PROVE Spec => []DoneIsPublished
<1>1. Consistent => DoneIsPublished
  BY SavesAssumption DEF Consistent, TypeOK, Versions, RunOK, DoneOK, DoneIsPublished
<1>2. Consistent /\ [Next]_vars => Consistent'
  BY PublicationStep, Zenon
<1> QED
  BY <1>1, <1>2, PublicationInit, PTL DEF Spec

\* A second save_result that fails or is interrupted loses no committed artifact.
THEOREM PublicationKept == ASSUME CliRuns = {} PROVE Spec => []CommittedIsKept
<1>1. Consistent => CommittedIsKept
  BY Zenon DEF Consistent, RunOK, DoneOK, CommittedIsKept
<1>2. Consistent /\ [Next]_vars => Consistent'
  BY PublicationStep, Zenon
<1> QED
  BY <1>1, <1>2, PublicationInit, PTL DEF Spec

\* recover_incomplete_runs and the roll back of save_result leave nothing of a
\* failed run.
THEOREM PublicationFailed == ASSUME CliRuns = {} PROVE Spec => []FailedLeavesNothing
<1>1. Consistent => FailedLeavesNothing
  BY Zenon DEF Consistent, RunOK, EndedOK, NothingLeft, FailedLeavesNothing
<1>2. Consistent /\ [Next]_vars => Consistent'
  BY PublicationStep, Zenon
<1> QED
  BY <1>1, <1>2, PublicationInit, PTL DEF Spec

\* The three together: save_result, its roll back and the recovery after a crash are
\* atomic for every set of runs and in every interleaving of their steps.
THEOREM PublicationAtomic == ASSUME CliRuns = {} PROVE Spec => []SavesAreAtomic
<1>1. Consistent => TypeOK
  BY Zenon DEF Consistent
<1>2. Consistent /\ [Next]_vars => Consistent'
  BY PublicationStep, Zenon
<1> QED
  BY <1>1, <1>2, PublicationInit, PublicationDone, PublicationKept, PublicationFailed, PTL
     DEF Spec, SavesAreAtomic

-----------------------------------------------------------------------------
(* The idempotency table *)

USE DEF ReqGoto

(* The conjuncts of Inductive that speak about the rows and the requests.  *)
RowsOK ==
    /\ \A k \in Keys : token[k] = None => result[k] = None
    /\ \A k \in Keys : token[k] # None => key[token[k]] = k /\ hash[k] = body[token[k]]
    /\ \A k \in Keys : result[k] # None => result[k] = token[k]

MappedOK ==
    \A q \in Requests :
        reqAt[q] \in {"mapped", "scheduled"} /\ q \notin retired => result[key[q]] = q

LEMMA InductiveParts == Inductive <=> IdemTypeOK /\ RowsOK /\ MappedOK /\ AnswerMatchesRequest
BY Zenon DEF Inductive, RowsOK, MappedOK

(* The empty table of a new database.                                      *)
LEMMA InitInductive == IdemInit => Inductive
<1> SUFFICES ASSUME IdemInit PROVE Inductive
  BY Zenon
<1>1. IdemTypeOK
  BY Zenon DEF IdemInit, IdemTypeOK, Points
<1>2. RowsOK
  BY Zenon DEF IdemInit, RowsOK
<1>3. MappedOK /\ AnswerMatchesRequest
  BY Zenon DEF IdemInit, MappedOK, AnswerMatchesRequest
<1> QED
  BY <1>1, <1>2, <1>3, InductiveParts, Zenon

(* A step that leaves the table alone and maps or schedules nothing new.   *)
LEMMA TableKept ==
    ASSUME Inductive, IdemTypeOK', UNCHANGED <<table, key, body, answer, retired>>,
           \A q \in Requests : reqAt'[q] \in {"mapped", "scheduled"} =>
                                   reqAt[q] \in {"mapped", "scheduled"}
    PROVE  Inductive'
<1>1. RowsOK'
  BY InductiveParts, Zenon DEF RowsOK, table
<1>2. MappedOK'
  BY InductiveParts, Zenon DEF MappedOK, table
<1>3. AnswerMatchesRequest'
  BY InductiveParts, Zenon DEF AnswerMatchesRequest
<1> QED
  BY <1>1, <1>2, <1>3, Zenon DEF Inductive, RowsOK, MappedOK

(* The claim: rows that outlived their time go, with the runs they map.    *)
LEMMA ClaimInductive ==
    ASSUME Inductive, NEW q \in Requests, Claim(q) PROVE Inductive'
<1> DEFINE k == key[q]
           free == token[k] = None \/ Expired(k)
<1>0. IdemTypeOK /\ RowsOK /\ MappedOK /\ AnswerMatchesRequest
  BY InductiveParts, Zenon
<1>k. k \in Keys /\ body[q] \in Bodies
  BY <1>0, Zenon DEF IdemTypeOK
<1>c. /\ token' = [j \in Keys |-> IF j = k /\ free THEN q
                                  ELSE IF Expired(j) THEN None ELSE token[j]]
      /\ result' = [j \in Keys |-> IF Expired(j) THEN None ELSE result[j]]
      /\ hash' = IF free THEN [hash EXCEPT ![k] = body[q]] ELSE hash
      /\ stamp' = IF free THEN [stamp EXCEPT ![k] = now] ELSE stamp
      /\ retired' = retired \cup {result[j] : j \in Outlived}
      /\ reqAt[q] = "new"
      /\ UNCHANGED <<key, body, run, now>>
  BY Zenon DEF Claim
<1>a. \/ /\ free /\ reqAt' = [reqAt EXCEPT ![q] = "claimed"] /\ UNCHANGED answer
      \/ /\ ~free /\ Answers(q, k) /\ reqAt' = [reqAt EXCEPT ![q] = "answered"]
         /\ answer' = [answer EXCEPT ![q] = result[k]]
      \/ /\ ~free /\ reqAt' = [reqAt EXCEPT ![q] = "rejected"] /\ UNCHANGED answer
  BY Zenon DEF Claim
<1>r. retired' \in SUBSET Requests
  <2> SUFFICES ASSUME NEW j \in Outlived PROVE result[j] \in Requests
    BY <1>0, <1>c DEF IdemTypeOK
  <2> QED BY <1>0, Zenon DEF IdemTypeOK, Outlived
<1> HIDE DEF k, free
<1>1. IdemTypeOK'
  <2>1. token' \in [Keys -> Requests \cup {None}]
    BY <1>0, <1>c, Zenon DEF IdemTypeOK
  <2>2. result' \in [Keys -> Requests \cup {None}]
    BY <1>0, <1>c, Zenon DEF IdemTypeOK
  <2>3. hash' \in [Keys -> Bodies] /\ stamp' \in [Keys -> Nat]
    BY <1>0, <1>c, <1>k, Zenon DEF IdemTypeOK
  <2>4. reqAt' \in [Requests -> Points]
    BY <1>0, <1>a, Zenon DEF IdemTypeOK, Points
  <2>5. answer' \in [Requests -> Requests \cup {None}]
    BY <1>0, <1>a, <1>k, Zenon DEF IdemTypeOK
  <2> QED BY <1>0, <1>c, <1>r, <2>1, <2>2, <2>3, <2>4, <2>5, Zenon DEF IdemTypeOK
<1>2. RowsOK'
  <2>1. ASSUME NEW j \in Keys
        PROVE  /\ token'[j] = None => result'[j] = None
               /\ token'[j] # None => key'[token'[j]] = j /\ hash'[j] = body'[token'[j]]
               /\ result'[j] # None => result'[j] = token'[j]
    <3>1. CASE j = k /\ free
      <4>1. token'[j] = q /\ result'[j] = None /\ hash'[j] = body[q]
        BY <3>1, <1>c, <1>k, <1>0, Zenon DEF RowsOK, free, IdemTypeOK
      <4> QED BY <4>1, <3>1, <1>c, RequestsAssumption, Zenon DEF k
    <3>2. CASE Expired(j) /\ ~(j = k /\ free)
      BY <3>2, <1>c, Zenon
    <3>3. CASE ~Expired(j) /\ ~(j = k /\ free)
      <4>1. token'[j] = token[j] /\ result'[j] = result[j]
        BY <3>3, <1>c, Zenon
      <4>2. hash'[j] = hash[j]
        BY <3>3, <1>c, <1>0, Zenon DEF IdemTypeOK
      <4> QED BY <4>1, <4>2, <1>c, <1>0, Zenon DEF RowsOK
    <3> QED BY <3>1, <3>2, <3>3, Zenon
  <2> QED BY <2>1, Zenon DEF RowsOK
<1>3. MappedOK'
  <2> SUFFICES ASSUME NEW p \in Requests, reqAt'[p] \in {"mapped", "scheduled"}, p \notin retired'
               PROVE  result'[key'[p]] = p
    BY Zenon DEF MappedOK
  <2>1. p # q /\ reqAt[p] = reqAt'[p]
    BY <1>a, <1>0, Zenon DEF IdemTypeOK
  <2>2. result[key[p]] = p /\ key[p] \in Keys
    BY <2>1, <1>c, <1>0, Zenon DEF MappedOK, IdemTypeOK
  <2>3. key[p] \notin Outlived
    BY <2>2, <1>c, Zenon
  <2>4. ~Expired(key[p])
    BY <2>2, <2>3, RequestsAssumption, Zenon DEF Expired, Outlived
  <2> QED BY <2>2, <2>4, <1>c, Zenon
<1>4. AnswerMatchesRequest'
  <2>1. CASE UNCHANGED answer
    BY <2>1, <1>c, <1>0, Zenon DEF AnswerMatchesRequest
  <2>2. CASE Answers(q, k) /\ answer' = [answer EXCEPT ![q] = result[k]]
    <3>1. key[result[k]] = key[q] /\ body[result[k]] = body[q]
      BY <2>2, <1>0, <1>k, Zenon DEF Answers, RowsOK, k
    <3> QED BY <3>1, <2>2, <1>c, <1>0, Zenon DEF AnswerMatchesRequest, IdemTypeOK
  <2> QED BY <1>a, <2>1, <2>2, Zenon
<1> QED
  BY <1>1, <1>2, <1>3, <1>4, Zenon DEF Inductive, RowsOK, MappedOK

(* Giving up a launch deletes at most the own, incomplete claim.           *)
LEMMA ReleaseInductive ==
    ASSUME Inductive, NEW q \in Requests, Release(q) \/ UNCHANGED token,
           reqAt[q] \in {"claimed", "persisted"}, reqAt' = [reqAt EXCEPT ![q] = "rejected"],
           run' \in [Requests -> {"none", "running", "failed"}],
           UNCHANGED <<hash, result, stamp, key, body, answer, retired, now>>
    PROVE  Inductive'
<1>0. IdemTypeOK /\ RowsOK /\ MappedOK /\ AnswerMatchesRequest
  BY InductiveParts, Zenon
<1>1. \/ Holds(q) /\ token' = [token EXCEPT ![key[q]] = None]
      \/ token' = token
  BY Zenon DEF Release
<1>2. IdemTypeOK'
  <2>1. token' \in [Keys -> Requests \cup {None}]
    BY <1>0, <1>1, Zenon DEF IdemTypeOK
  <2> QED BY <2>1, <1>0, Zenon DEF IdemTypeOK, Points
<1>3. RowsOK'
  BY <1>0, <1>1 DEF RowsOK, IdemTypeOK, Holds
<1>4. MappedOK'
  BY <1>0, Zenon DEF MappedOK, IdemTypeOK
<1>5. AnswerMatchesRequest'
  BY <1>0, Zenon DEF AnswerMatchesRequest
<1> QED
  BY <1>2, <1>3, <1>4, <1>5, Zenon DEF Inductive, RowsOK, MappedOK

(* The completion finds no result for the key, so no other run is mapped.  *)
LEMMA CompleteInductive ==
    ASSUME Inductive, NEW q \in Requests, Complete(q) PROVE Inductive'
<1>0. IdemTypeOK /\ RowsOK /\ MappedOK /\ AnswerMatchesRequest
  BY InductiveParts, Zenon
<1>1. /\ Holds(q)
      /\ result' = [result EXCEPT ![key[q]] = q]
      /\ stamp' = [stamp EXCEPT ![key[q]] = now]
      /\ reqAt' = [reqAt EXCEPT ![q] = "mapped"]
      /\ UNCHANGED <<token, hash, key, body, run, answer, retired, now>>
  BY Zenon DEF Complete, Completes
<1>2. IdemTypeOK'
  BY <1>0, <1>1, Zenon DEF IdemTypeOK, Points
<1>3. RowsOK'
  BY <1>0, <1>1, RequestsAssumption, Zenon DEF RowsOK, IdemTypeOK, Holds
<1>4. MappedOK'
  <2> SUFFICES ASSUME NEW p \in Requests, reqAt'[p] \in {"mapped", "scheduled"}, p \notin retired'
               PROVE  result'[key'[p]] = p
    BY Zenon DEF MappedOK
  <2>1. CASE p = q
    BY <2>1, <1>0, <1>1, Zenon DEF IdemTypeOK
  <2>2. CASE p # q
    <3>1. result[key[p]] = p
      BY <2>2, <1>0, <1>1, Zenon DEF IdemTypeOK, MappedOK
    <3>2. key[p] # key[q]
      BY <3>1, <1>1, RequestsAssumption, Zenon DEF Holds
    <3> QED BY <3>1, <3>2, <1>0, <1>1, Zenon DEF IdemTypeOK
  <2> QED BY <2>1, <2>2, Zenon
<1>5. AnswerMatchesRequest'
  BY <1>0, <1>1, Zenon DEF AnswerMatchesRequest
<1> QED
  BY <1>2, <1>3, <1>4, <1>5, Zenon DEF Inductive, RowsOK, MappedOK

(* Scheduling answers the request with its own run.                        *)
LEMMA ScheduleInductive ==
    ASSUME Inductive, NEW q \in Requests, Schedule(q) PROVE Inductive'
<1>0. IdemTypeOK /\ RowsOK /\ MappedOK /\ AnswerMatchesRequest
  BY InductiveParts, Zenon
<1>1. /\ reqAt[q] = "mapped"
      /\ \/ reqAt' = [reqAt EXCEPT ![q] = "scheduled"] /\ answer' = [answer EXCEPT ![q] = q]
         \/ reqAt' = [reqAt EXCEPT ![q] = "rejected"] /\ answer' = answer
      /\ run' = [run EXCEPT ![q] = "failed"] \/ run' = run
      /\ UNCHANGED <<token, hash, result, stamp, key, body, retired, now>>
  BY Zenon DEF Schedule, table
<1>2. IdemTypeOK'
  <2>1. reqAt' \in [Requests -> Points] /\ answer' \in [Requests -> Requests \cup {None}]
    BY <1>0, <1>1 DEF IdemTypeOK, Points
  <2>2. run' \in [Requests -> {"none", "running", "failed"}]
    BY <1>0, <1>1, Zenon DEF IdemTypeOK
  <2> QED BY <2>1, <2>2, <1>0, <1>1, Zenon DEF IdemTypeOK
<1>3. RowsOK'
  BY <1>0, <1>1, Zenon DEF RowsOK
<1>4. MappedOK'
  BY <1>0, <1>1, Zenon DEF MappedOK, IdemTypeOK
<1>5. AnswerMatchesRequest'
  BY <1>0, <1>1 DEF AnswerMatchesRequest, IdemTypeOK
<1> QED
  BY <1>2, <1>3, <1>4, <1>5, Zenon DEF Inductive, RowsOK, MappedOK

(* Every step preserves the invariant.                                     *)
LEMMA NextInductive == Inductive /\ [IdemNext]_idemVars => Inductive'
<1> SUFFICES ASSUME Inductive, [IdemNext]_idemVars PROVE Inductive'
  BY Zenon
<1>0. IdemTypeOK
  BY InductiveParts, Zenon
<1>1. ASSUME NEW q \in Requests, Step(q) PROVE Inductive'
  <2>1. CASE Claim(q)
    BY <2>1, ClaimInductive, Zenon
  <2>2. CASE ClaimFails(q)
    <3>1. IdemTypeOK'
      BY <2>2, <1>0, Zenon DEF ClaimFails, IdemTypeOK, table, Points
    <3> QED BY <2>2, <3>1, <1>0, TableKept, Zenon DEF ClaimFails, IdemTypeOK
  <2>3. CASE Refused(q)
    <3>1. run' \in [Requests -> {"none", "running", "failed"}]
      BY <2>3, <1>0, Zenon DEF Refused, IdemTypeOK
    <3> QED BY <2>3, <3>1, ReleaseInductive, Zenon DEF Refused
  <2>4. CASE PersistRun(q)
    <3>1. IdemTypeOK'
      BY <2>4, <1>0, Zenon DEF PersistRun, IdemTypeOK, table, Points
    <3> QED BY <2>4, <3>1, <1>0, TableKept, Zenon DEF PersistRun, IdemTypeOK
  <2>5. CASE PersistJob(q)
    <3>1. IdemTypeOK'
      BY <2>5, <1>0, Zenon DEF PersistJob, IdemTypeOK, table, Points
    <3> QED BY <2>5, <3>1, <1>0, TableKept, Zenon DEF PersistJob, IdemTypeOK
  <2>6. CASE Complete(q)
    BY <2>6, CompleteInductive, Zenon
  <2>7. CASE CompleteFails(q)
    <3>1. run' \in [Requests -> {"none", "running", "failed"}]
      BY <2>7, <1>0, Zenon DEF CompleteFails, IdemTypeOK
    <3> QED BY <2>7, <3>1, ReleaseInductive, Zenon DEF CompleteFails
  <2>8. CASE Schedule(q)
    BY <2>8, ScheduleInductive, Zenon
  <2>9. CASE Dies(q)
    <3>1. IdemTypeOK'
      BY <2>9, <1>0, Zenon DEF Dies, IdemTypeOK, table, Points
    <3> QED BY <2>9, <3>1, <1>0, TableKept, Zenon DEF Dies, IdemTypeOK
  <2>10. CASE DeleteRequestRun(q)
    <3>1. IdemTypeOK'
      BY <2>10, <1>0, Zenon DEF DeleteRequestRun, IdemTypeOK, table, Points
    <3> QED BY <2>10, <3>1, TableKept, Zenon DEF DeleteRequestRun
  <2> QED BY <1>1, <2>1, <2>2, <2>3, <2>4, <2>5, <2>6, <2>7, <2>8, <2>9, <2>10, Zenon DEF Step
<1>2. CASE Recover
  <2>1. IdemTypeOK'
    BY <1>2, <1>0, Zenon DEF Recover, IdemTypeOK, table
  <2> QED BY <1>2, <2>1, TableKept, Zenon DEF Recover
<1>3. CASE Tick
  <2>1. IdemTypeOK'
    BY <1>3, <1>0 DEF Tick, IdemTypeOK, table
  <2> QED BY <1>3, <2>1, TableKept, Zenon DEF Tick
<1>4. CASE UNCHANGED idemVars
  <2>1. IdemTypeOK'
    BY <1>4, <1>0, Zenon DEF idemVars, IdemTypeOK
  <2> QED BY <1>4, <2>1, TableKept, Zenon DEF idemVars, table
<1> QED
  BY <1>1, <1>2, <1>3, <1>4, Zenon DEF IdemNext

(* The invariant of the api_idempotency table holds in every reachable     *)
(* state, for any requests, keys, bodies and times to live.                *)
THEOREM IdempotencyInductive == IdemSpec => []Inductive
<1> QED
  BY InitInductive, NextInductive, PTL DEF IdemSpec

(* One key has at most one scheduled run whose mapping is retained.        *)
THEOREM IdempotencyOneRun == IdemSpec => []OneRunPerKey
<1>1. Inductive => OneRunPerKey
  BY InductiveParts, Zenon DEF OneRunPerKey, MappedOK
<1> QED
  BY <1>1, IdempotencyInductive, PTL

(* No request is answered with the run of another key or body.             *)
THEOREM IdempotencyAnswers == IdemSpec => []AnswerMatchesRequest
<1>1. Inductive => AnswerMatchesRequest
  BY InductiveParts, Zenon
<1> QED
  BY <1>1, IdempotencyInductive, PTL

(* Both together: a retained key stands for one run and one body.          *)
THEOREM IdempotencyOneRunOneAnswer == IdemSpec => []OneRunOneAnswer
<1>1. Inductive => IdemTypeOK
  BY InductiveParts, Zenon
<1> QED
  BY <1>1, IdempotencyInductive, IdempotencyOneRun, IdempotencyAnswers, PTL DEF OneRunOneAnswer

-----------------------------------------------------------------------------
(* The snapshots *)

(* A save whose file is in place and whose entry is not in the index yet.  *)
Waiting(p) == task[p].pc = "written" \/ (task[p].pc = "persist" /\ task[p].id # NoSnap)

(* Snapshots are numbered without gaps, and everything names numbered ones.*)
Numbered ==
    /\ \E n \in 0..MaxSnapshots : DOMAIN barOf = 1..n
    /\ \A i \in DOMAIN barOf : barOf[i] \in Nat
    /\ files \subseteq DOMAIN barOf /\ gone \subseteq DOMAIN barOf
    /\ DOMAIN index \subseteq DOMAIN barOf
    /\ \A i \in DOMAIN index : index[i] \in Statuses3
    /\ last \in DOMAIN barOf \cup {NoSnap}

(* The processes: one of them at most is between the pruning of the files  *)
(* and the replacement of the index, and it holds the lock.                *)
Processes ==
    /\ DOMAIN copy = SnapProcs /\ DOMAIN task = SnapProcs
    /\ \A p \in SnapProcs :
        /\ DOMAIN copy[p] \subseteq DOMAIN barOf
        /\ \A i \in DOMAIN copy[p] : copy[p][i] \in Statuses3
        /\ task[p].pc \in {"idle", "written", "persist", "read"}
        /\ task[p].id \in DOMAIN barOf \cup {NoSnap}
        /\ task[p].pc = "persist" <=> holder = p
    /\ holder \in SnapProcs \cup {NoProc}

(* What a save that waits is about is new: no index ever named it, and no  *)
(* other process saves it.                                                 *)
SavesAreNew ==
    /\ gone \cap DOMAIN index = {}
    /\ \A p \in SnapProcs :
        Waiting(p) =>
            /\ task[p].id # NoSnap
            /\ task[p].id \notin DOMAIN index \cup gone
            /\ task[p].pc = "written" => task[p].id \in files
            /\ \A q \in SnapProcs \ {p} : Waiting(q) => task[q].id # task[p].id

(* The index about to be replaced: what process p will put in its place    *)
(* undoes nothing, and it names the new snapshot as active, with its file, *)
(* unless Keep newer ones are there.                                       *)
Replacement(p) ==
    /\ DOMAIN copy[p] \subseteq DOMAIN index \cup {task[p].id}
    /\ \A i \in DOMAIN index \cap DOMAIN copy[p] : Rank[index[i]] <= Rank[copy[p][i]]
    /\ task[p].id # NoSnap =>
          IF task[p].id \in DOMAIN copy[p]
          THEN copy[p][task[p].id] = "active" /\ task[p].id \in files
          ELSE Cardinality({j \in DOMAIN copy[p] : Newer(j, task[p].id)}) >= Keep

(* The inductive invariant of the snapshots.                               *)
SnapInv ==
    /\ Numbered /\ Processes /\ SavesAreNew
    /\ \A p \in SnapProcs : task[p].pc = "persist" => Replacement(p)
    /\ NewestIsKept

(* A set of naturals that is not empty has a least element.                *)
LEMMA LeastNat ==
    ASSUME NEW T \in SUBSET Nat, T # {}
    PROVE  \E n \in T : \A m \in T : n <= m
<1>1. PICK n \in T : \A m \in T : ~(<<m, n>> \in OpToRel(<, Nat))
  BY NatLessThanWellFounded, WFMin, Zenon
<1>2. ASSUME NEW m \in T PROVE n <= m
  <2>1. m \in Nat /\ n \in Nat
    BY Zenon
  <2>2. <<m, n>> \in Nat \X Nat /\ <<m, n>>[1] = m /\ <<m, n>>[2] = n
    BY <2>1, Zenon
  <2>3. m < n => <<m, n>> \in OpToRel(<, Nat)
    BY <2>2, Zenon DEF OpToRel
  <2>4. ~(m < n)
    BY <1>1, <2>3, Zenon
  <2> QED BY <2>1, <2>4
<1> QED BY <1>2, Zenon

(* The snapshots of S that are newer than i.                               *)
NewerIn(S, i) == {j \in S : Newer(j, i)}

(* There are finitely many snapshots, and the next number is a new one.    *)
LEMMA SnapshotsAreFinite ==
    ASSUME Numbered
    PROVE  /\ \A S \in SUBSET DOMAIN barOf : IsFiniteSet(S) /\ Cardinality(S) \in Nat
           /\ LET i == Cardinality(DOMAIN barOf) + 1
              IN /\ i \in Nat \ {0} /\ i \notin DOMAIN barOf
                 /\ DOMAIN barOf \cup {i} = 1..i
<1>1. PICK n \in 0..MaxSnapshots : DOMAIN barOf = 1..n
  BY Zenon DEF Numbered
<1>2. n \in Nat
  BY SnapAssumption
<1>3. IsFiniteSet(1..n) /\ Cardinality(1..n) = n
  BY <1>2, FS_Interval
<1>4. ASSUME NEW S \in SUBSET DOMAIN barOf
      PROVE  IsFiniteSet(S) /\ Cardinality(S) \in Nat
  <2>1. IsFiniteSet(S)
    BY <1>1, <1>3, FS_Subset, Zenon
  <2> QED BY <2>1, FS_CardinalityType, Zenon
<1>5. Cardinality(DOMAIN barOf) = n
  BY <1>1, <1>3, Zenon
<1>6. n + 1 \in Nat \ {0} /\ n + 1 \notin 1..n /\ 1..n \cup {n + 1} = 1..(n + 1)
  BY <1>2
<1> QED BY <1>1, <1>4, <1>5, <1>6, Zenon

(* Newer orders the snapshots.                                             *)
LEMMA NewerOrders ==
    ASSUME Numbered, NEW i \in DOMAIN barOf, NEW j \in DOMAIN barOf, NEW k \in DOMAIN barOf
    PROVE  /\ ~Newer(i, i)
           /\ Newer(i, j) /\ Newer(j, k) => Newer(i, k)
           /\ i = j \/ Newer(i, j) \/ Newer(j, i)
<1>1. barOf[i] \in Nat /\ barOf[j] \in Nat /\ barOf[k] \in Nat
  BY Zenon DEF Numbered
<1>2. DOMAIN barOf \subseteq Nat
  BY SnapAssumption DEF Numbered
<1>3. i \in Nat /\ j \in Nat /\ k \in Nat
  BY <1>2, Zenon
<1> HIDE SnapAssumption
<1> QED BY <1>1, <1>3 DEF Newer

(* A newer snapshot has fewer snapshots before it.                         *)
LEMMA NewerHasFewer ==
    ASSUME Numbered, NEW S \in SUBSET DOMAIN barOf, NEW i \in S, NEW j \in S, Newer(j, i)
    PROVE  /\ NewerIn(S, j) \subseteq NewerIn(S, i)
           /\ Cardinality(NewerIn(S, j)) < Cardinality(NewerIn(S, i))
<1>1. NewerIn(S, j) \subseteq NewerIn(S, i) /\ j \in NewerIn(S, i) /\ j \notin NewerIn(S, j)
  BY NewerOrders, Zenon DEF NewerIn
<1>2. IsFiniteSet(NewerIn(S, i))
  <2>1. NewerIn(S, i) \in SUBSET DOMAIN barOf
    BY Zenon DEF NewerIn
  <2> QED BY <2>1, SnapshotsAreFinite, Zenon
<1>3. NewerIn(S, j) # NewerIn(S, i)
  BY <1>1, Zenon
<1>4. Cardinality(NewerIn(S, j)) <= Cardinality(NewerIn(S, i))
      /\ (Cardinality(NewerIn(S, j)) = Cardinality(NewerIn(S, i)) => NewerIn(S, j) = NewerIn(S, i))
  BY <1>1, <1>2, FS_Subset, Zenon
<1>5. Cardinality(NewerIn(S, j)) \in Nat /\ Cardinality(NewerIn(S, i)) \in Nat
  BY <1>1, <1>2, FS_Subset, FS_CardinalityType, Zenon
<1> QED BY <1>1, <1>3, <1>4, <1>5

(* What is pruned leaves Keep newer ones behind (_prune_strategy_snapshots).*)
LEMMA PrunedLeavesKeep ==
    ASSUME Numbered, NEW S \in SUBSET DOMAIN barOf, NEW i \in S, i \notin Kept(S)
    PROVE  Cardinality(NewerIn(Kept(S), i)) >= Keep
<1> DEFINE Pruned == {m \in S : m \notin Kept(S)}
           Sizes == {Cardinality(NewerIn(S, m)) : m \in Pruned}
<1>1. \A m \in S : Cardinality(NewerIn(S, m)) \in Nat
  <2>1. \A m \in S : NewerIn(S, m) \in SUBSET DOMAIN barOf
    BY Zenon DEF NewerIn
  <2> QED BY <2>1, SnapshotsAreFinite, Zenon
<1>2. Sizes \in SUBSET Nat /\ Sizes # {}
  BY <1>1, Zenon
<1>3. PICK n \in Sizes : \A m \in Sizes : n <= m
  <2> HIDE DEF Sizes
  <2> QED BY <1>2, LeastNat, Zenon
<1>4. PICK m \in Pruned : n = Cardinality(NewerIn(S, m))
  BY <1>3, Zenon
<1>5. \A j \in Pruned : ~(Cardinality(NewerIn(S, j)) < Cardinality(NewerIn(S, m)))
  <2> TAKE j \in Pruned
  <2>1. Cardinality(NewerIn(S, m)) <= Cardinality(NewerIn(S, j))
    BY <1>3, <1>4, Zenon
  <2>2. Cardinality(NewerIn(S, m)) \in Nat /\ Cardinality(NewerIn(S, j)) \in Nat
    BY <1>1, Zenon
  <2> QED BY <2>1, <2>2
<1>6. NewerIn(S, m) \subseteq Kept(S)
  <2> SUFFICES ASSUME NEW j \in NewerIn(S, m), j \notin Kept(S) PROVE FALSE
    BY Zenon
  <2>1. j \in S /\ Newer(j, m) /\ m \in S /\ j \in Pruned
    BY Zenon DEF NewerIn
  <2>2. Cardinality(NewerIn(S, j)) < Cardinality(NewerIn(S, m))
    BY <2>1, NewerHasFewer, Zenon
  <2> QED BY <1>5, <2>1, <2>2, Zenon
<1>7. NewerIn(S, m) \subseteq NewerIn(Kept(S), i)
  <2>1. m \in S /\ i \in Pruned /\ S \subseteq DOMAIN barOf
    BY Zenon
  <2>2. ~Newer(i, m)
    BY <1>5, <2>1, NewerHasFewer, Zenon
  <2>3. m = i \/ Newer(m, i)
    BY <2>1, <2>2, NewerOrders, Zenon
  <2>4. NewerIn(S, m) \subseteq NewerIn(S, i)
    BY <2>1, <2>3, NewerHasFewer, Zenon
  <2> QED BY <1>6, <2>4, Zenon DEF NewerIn
<1>8. Cardinality(NewerIn(S, m)) >= Keep
  <2>1. ~(Cardinality(NewerIn(S, m)) < Keep)
    BY <1>4, Zenon DEF Kept, NewerIn
  <2> QED BY <1>1, <1>4, <2>1, SnapAssumption
<1>9. Cardinality(NewerIn(S, m)) <= Cardinality(NewerIn(Kept(S), i))
      /\ Cardinality(NewerIn(Kept(S), i)) \in Nat
  <2>1. NewerIn(Kept(S), i) \in SUBSET DOMAIN barOf
    BY Zenon DEF NewerIn, Kept
  <2>2. IsFiniteSet(NewerIn(Kept(S), i)) /\ Cardinality(NewerIn(Kept(S), i)) \in Nat
    BY <2>1, SnapshotsAreFinite, Zenon
  <2> QED BY <1>7, <2>2, FS_Subset, Zenon
<1> HIDE DEF Pruned, Sizes
<1>10. Cardinality(NewerIn(S, m)) \in Nat
  BY <1>1, <1>4, Zenon DEF Pruned
<1> QED BY <1>8, <1>9, <1>10, SnapAssumption

(* A snapshot with room to spare among those of T is not pruned when one   *)
(* snapshot is added.                                                      *)
LEMMA RoomIsKept ==
    ASSUME Numbered, NEW S \in SUBSET DOMAIN barOf, NEW T \in SUBSET DOMAIN barOf, NEW x,
           S \subseteq T \cup {x}, NEW l \in S, Cardinality(NewerIn(T, l)) < Keep - 1
    PROVE  l \in Kept(S)
<1>1. NewerIn(T, l) \in SUBSET DOMAIN barOf /\ NewerIn(S, l) \in SUBSET DOMAIN barOf
      /\ NewerIn(S, l) \subseteq NewerIn(T, l) \cup {x}
  BY Zenon DEF NewerIn
<1>2. IsFiniteSet(NewerIn(T, l)) /\ Cardinality(NewerIn(T, l)) \in Nat
      /\ Cardinality(NewerIn(S, l)) \in Nat
  BY <1>1, SnapshotsAreFinite, Zenon
<1>3. IsFiniteSet(NewerIn(T, l) \cup {x})
      /\ Cardinality(NewerIn(T, l) \cup {x}) =
            IF x \in NewerIn(T, l) THEN Cardinality(NewerIn(T, l)) ELSE Cardinality(NewerIn(T, l)) + 1
  BY <1>2, FS_AddElement, Zenon
<1>4. Cardinality(NewerIn(S, l)) <= Cardinality(NewerIn(T, l) \cup {x})
  BY <1>1, <1>3, FS_Subset, Zenon
<1>5. Cardinality(NewerIn(S, l)) < Keep
  BY <1>2, <1>3, <1>4, SnapAssumption
<1> QED BY <1>5, Zenon DEF Kept, NewerIn

(* What is saved or kept of the snapshots that are there does not change.  *)
SameBars == \A i \in DOMAIN barOf : i \in DOMAIN barOf' /\ barOf'[i] = barOf[i]

LEMMA NewerKept ==
    ASSUME SameBars, NEW S \in SUBSET DOMAIN barOf, NEW i \in DOMAIN barOf
    PROVE  {j \in S : Newer(j, i)'} = {j \in S : Newer(j, i)}
<1>1. \A j \in S : barOf'[j] = barOf[j]
  BY Zenon DEF SameBars
<1>2. barOf'[i] = barOf[i]
  BY Zenon DEF SameBars
<1> QED BY <1>1, <1>2, Zenon DEF Newer

(* A process that takes no part in a step still replaces the index as it   *)
(* did, if the index and its new snapshot's file are as they were.         *)
LEMMA ReplacementKept ==
    ASSUME Numbered, Processes, SameBars, NEW q \in SnapProcs, Replacement(q),
           task'[q] = task[q], copy'[q] = copy[q], index' = index,
           task[q].id \in files => task[q].id \in files'
    PROVE  Replacement(q)'
<1>1. DOMAIN copy[q] \in SUBSET DOMAIN barOf /\ task[q].id \in DOMAIN barOf \cup {NoSnap}
  BY Zenon DEF Processes
<1>2. task[q].id # NoSnap =>
        {j \in DOMAIN copy[q] : Newer(j, task[q].id)'} = {j \in DOMAIN copy[q] : Newer(j, task[q].id)}
  BY <1>1, NewerKept
<1>3. task[q].id # NoSnap =>
        {j \in DOMAIN copy[q] : Newer(j, task[q].id)}' = {j \in DOMAIN copy[q] : Newer(j, task[q].id)}
  BY <1>2, Zenon DEF Newer
<1>4. (DOMAIN copy[q] \subseteq DOMAIN index \cup {task[q].id})'
      /\ (\A i \in DOMAIN index \cap DOMAIN copy[q] : Rank[index[i]] <= Rank[copy[q][i]])'
  BY Zenon DEF Replacement, Rank
<1>5. (task[q].id # NoSnap =>
          IF task[q].id \in DOMAIN copy[q]
          THEN copy[q][task[q].id] = "active" /\ task[q].id \in files
          ELSE Cardinality({j \in DOMAIN copy[q] : Newer(j, task[q].id)}) >= Keep)'
  BY <1>3, Zenon DEF Replacement, NoSnap
<1> QED BY <1>4, <1>5, Zenon DEF Replacement, Rank, NoSnap

(* The newest save is kept by a step that leaves the index as it was.      *)
LEMMA NewestKept ==
    ASSUME Numbered, SameBars, NewestIsKept, index' = index, last' = last,
           last \in files /\ Cardinality(NewerIn(DOMAIN index, last)) < Keep - 1 => last \in files'
    PROVE  NewestIsKept'
<1>1. CASE last = NoSnap
  BY <1>1, Zenon DEF NewestIsKept, NoSnap
<1>2. CASE last # NoSnap
  <2>1. DOMAIN index \in SUBSET DOMAIN barOf /\ last \in DOMAIN barOf
    BY <1>2, Zenon DEF Numbered
  <2>2. {j \in DOMAIN index : Newer(j, last)'} = {j \in DOMAIN index : Newer(j, last)}
    BY <2>1, NewerKept, Zenon
  <2>3. {j \in DOMAIN index : Newer(j, last)}' = {j \in DOMAIN index : Newer(j, last)}
    BY <2>2, Zenon DEF Newer
  <2> QED BY <2>3, Zenon DEF NewestIsKept, NewerIn
<1> QED BY <1>1, <1>2, Zenon

LEMMA RankMeans == Rank["active"] = 1 /\ Rank["superseded"] = 2 /\ Rank["invalid"] = 3
BY Zenon DEF Rank

(* A file of a new snapshot is written: save_snapshot, and what            *)
(* StateRebuilder.rebuild saves.                                           *)
Saves(p, b) ==
    LET i == Cardinality(DOMAIN barOf) + 1
    IN /\ task[p].pc \in {"idle", "read"} /\ i <= MaxSnapshots
       /\ barOf' = [j \in DOMAIN barOf \cup {i} |-> IF j = i THEN b ELSE barOf[j]]
       /\ files' = files \cup {i}
       /\ SnapGoto(p, "written", i)
       /\ UNCHANGED <<index, copy, holder, last, gone>>

LEMMA SavesKeep ==
    ASSUME SnapInv, NEW p \in SnapProcs, NEW b \in Nat, Saves(p, b)
    PROVE  SnapInv'
<1> DEFINE i == Cardinality(DOMAIN barOf) + 1
<1>1. Numbered /\ Processes /\ SavesAreNew
  BY Zenon DEF SnapInv
<1>2. i \in Nat \ {0} /\ i \notin DOMAIN barOf /\ DOMAIN barOf \cup {i} = 1..i /\ i <= MaxSnapshots
  BY <1>1, SnapshotsAreFinite, Zenon DEF Saves
<1>3. /\ barOf' = [j \in DOMAIN barOf \cup {i} |-> IF j = i THEN b ELSE barOf[j]]
      /\ files' = files \cup {i} /\ task' = [task EXCEPT ![p] = [pc |-> "written", id |-> i]]
      /\ index' = index /\ copy' = copy /\ holder' = holder /\ last' = last /\ gone' = gone
      /\ task[p].pc # "persist"
  BY Zenon DEF Saves, SnapGoto
<1> HIDE DEF i
<1>4. DOMAIN barOf' = DOMAIN barOf \cup {i} /\ barOf'[i] = b
      /\ \A j \in DOMAIN barOf : barOf'[j] = barOf[j]
  BY <1>2, <1>3, Zenon
<1>5. SameBars
  BY <1>4, Zenon DEF SameBars
<1>6. task'[p].pc = "written" /\ task'[p].id = i /\ DOMAIN task' = SnapProcs
      /\ \A q \in SnapProcs \ {p} : task'[q] = task[q]
  BY <1>1, <1>3, Zenon DEF Processes
<1>7. Numbered'
  <2>1. i \in 0..MaxSnapshots /\ DOMAIN barOf' = 1..i
    BY <1>2, <1>4, SnapAssumption
  <2>2. \A j \in DOMAIN barOf' : barOf'[j] \in Nat
    BY <1>1, <1>4, Zenon DEF Numbered
  <2> QED BY <1>1, <1>3, <1>4, <2>1, <2>2, Zenon DEF Numbered, NoSnap
<1>8. Processes'
  BY <1>1, <1>3, <1>4, <1>6, Zenon DEF Processes, NoSnap, NoProc
<1>9. SavesAreNew'
  <2>1. \A q \in SnapProcs \ {p} : (Waiting(q)' <=> Waiting(q))
    BY <1>6, Zenon DEF Waiting, NoSnap
  <2>2. \A q \in SnapProcs : task[q].id # i
    BY <1>1, <1>2, Zenon DEF Processes, NoSnap
  <2>3. i # NoSnap /\ i \notin DOMAIN index \cup gone
    BY <1>1, <1>2, Zenon DEF Numbered, NoSnap
  <2>4. gone' \cap DOMAIN index' = {}
    BY <1>1, <1>3, Zenon DEF SavesAreNew
  <2>5. ASSUME NEW r \in SnapProcs, Waiting(r)'
        PROVE  /\ task'[r].id # NoSnap
               /\ task'[r].id \notin DOMAIN index \cup gone
               /\ task'[r].pc = "written" => task'[r].id \in files'
    <3>1. CASE r = p
      BY <1>3, <1>6, <2>3, <3>1, Zenon
    <3>2. CASE r # p
      BY <1>1, <1>3, <1>6, <2>1, <2>5, <3>2, Zenon DEF SavesAreNew
    <3> QED BY <3>1, <3>2, Zenon
  <2>6. ASSUME NEW r \in SnapProcs, NEW q \in SnapProcs \ {r}, Waiting(r)', Waiting(q)'
        PROVE  task'[q].id # task'[r].id
    <3>1. CASE r = p
      BY <1>6, <2>2, <3>1, Zenon
    <3>2. CASE q = p
      BY <1>6, <2>2, <3>2, Zenon
    <3>3. CASE r # p /\ q # p
      BY <1>1, <1>6, <2>1, <2>6, <3>3, Zenon DEF SavesAreNew
    <3> QED BY <3>1, <3>2, <3>3, Zenon
  <2> QED BY <1>3, <2>4, <2>5, <2>6, Zenon DEF SavesAreNew, NoSnap
<1>10. ASSUME NEW q \in SnapProcs, task'[q].pc = "persist" PROVE Replacement(q)'
  <2>1. q # p
    BY <1>6, <1>10, Zenon
  <2>2. task'[q] = task[q] /\ copy'[q] = copy[q]
    BY <1>3, <1>6, <2>1, Zenon
  <2>3. Replacement(q)
    BY <1>10, <2>2, Zenon DEF SnapInv
  <2> QED BY <1>1, <1>3, <1>5, <2>2, <2>3, ReplacementKept, Zenon
<1>11. NewestIsKept'
  BY <1>1, <1>3, <1>5, NewestKept, Zenon DEF SnapInv
<1> QED BY <1>7, <1>8, <1>9, <1>10, <1>11, Zenon DEF SnapInv

(* A process that ends up with nothing to write: its entries change and    *)
(* nothing that others see.                                                *)
Rests(p) ==
    /\ UNCHANGED <<barOf, files, index, last, gone>>
    /\ DOMAIN task' = SnapProcs /\ DOMAIN copy' = SnapProcs
    /\ \A q \in SnapProcs \ {p} : task'[q] = task[q] /\ copy'[q] = copy[q]
    /\ task'[p].pc \in {"idle", "read"} /\ task'[p].id \in DOMAIN barOf \cup {NoSnap}
    /\ DOMAIN copy'[p] \subseteq DOMAIN barOf /\ \A j \in DOMAIN copy'[p] : copy'[p][j] \in Statuses3
    /\ holder' = IF holder = p THEN NoProc ELSE holder

LEMMA RestsKeep ==
    ASSUME SnapInv, NEW p \in SnapProcs, Rests(p)
    PROVE  SnapInv'
<1>1. Numbered /\ Processes /\ SavesAreNew
  BY Zenon DEF SnapInv
<1>2. barOf' = barOf /\ files' = files /\ index' = index /\ last' = last /\ gone' = gone
      /\ holder' = IF holder = p THEN NoProc ELSE holder
  BY Zenon DEF Rests
<1>6. task'[p].pc \in {"idle", "read"} /\ task'[p].id \in DOMAIN barOf \cup {NoSnap}
  BY Zenon DEF Rests
<1>7. DOMAIN task' = SnapProcs /\ DOMAIN copy' = SnapProcs
      /\ \A q \in SnapProcs \ {p} : task'[q] = task[q] /\ copy'[q] = copy[q]
  BY Zenon DEF Rests
<1>8. SameBars
  BY <1>2, Zenon DEF SameBars
<1>9. DOMAIN copy'[p] \subseteq DOMAIN barOf /\ \A j \in DOMAIN copy'[p] : copy'[p][j] \in Statuses3
  BY Zenon DEF Rests
<1>10. Numbered'
  BY <1>1, <1>2, Zenon DEF Numbered, NoSnap
<1>11. Processes'
  <2>1. \A q \in SnapProcs : (task'[q].pc = "persist" <=> holder' = q)
    BY <1>1, <1>2, <1>6, <1>7, SnapAssumption, Zenon DEF Processes, NoProc
  <2>2. holder' \in SnapProcs \cup {NoProc}
    BY <1>1, <1>2, Zenon DEF Processes
  <2>3. \A q \in SnapProcs :
          /\ DOMAIN copy'[q] \subseteq DOMAIN barOf
          /\ \A j \in DOMAIN copy'[q] : copy'[q][j] \in Statuses3
          /\ task'[q].pc \in {"idle", "written", "persist", "read"}
          /\ task'[q].id \in DOMAIN barOf \cup {NoSnap}
    BY <1>1, <1>6, <1>7, <1>9, Zenon DEF Processes
  <2> QED BY <1>2, <1>7, <2>1, <2>2, <2>3, Zenon DEF Processes, NoSnap, NoProc, Statuses3
<1>12. SavesAreNew'
  <2>1. ~Waiting(p)' /\ \A q \in SnapProcs \ {p} : (Waiting(q)' <=> Waiting(q))
    BY <1>6, <1>7, Zenon DEF Waiting, NoSnap
  <2> QED BY <1>1, <1>2, <1>7, <2>1, Zenon DEF SavesAreNew, NoSnap
<1>13. ASSUME NEW q \in SnapProcs, task'[q].pc = "persist" PROVE Replacement(q)'
  <2>1. q # p
    BY <1>6, <1>7, <1>13, Zenon
  <2>2. Replacement(q)
    BY <1>7, <1>13, <2>1, Zenon DEF SnapInv
  <2> QED BY <1>1, <1>2, <1>7, <1>8, <2>1, <2>2, ReplacementKept, Zenon
<1>14. NewestIsKept'
  BY <1>1, <1>2, <1>8, NewestKept, Zenon DEF SnapInv
<1> QED BY <1>10, <1>11, <1>12, <1>13, <1>14, Zenon DEF SnapInv

(* A process takes the lock with the entries c that will replace the       *)
(* index, and unlinks the files F.                                         *)
Locks(p, x, c, F) ==
    /\ holder = NoProc /\ holder' = p
    /\ UNCHANGED <<barOf, index, gone>>
    /\ files' = files \ F
    /\ copy' = [copy EXCEPT ![p] = c]
    /\ task' = [task EXCEPT ![p] = [pc |-> "persist", id |-> x]]

LEMMA LocksKeep ==
    ASSUME SnapInv, NEW p \in SnapProcs, NEW x, NEW c, NEW F, Locks(p, x, c, F),
           (task[p].pc = "written" /\ x = task[p].id) \/ (task[p].pc = "idle" /\ x = NoSnap),
           F \subseteq DOMAIN index \cup {x},
           DOMAIN c \subseteq DOMAIN barOf, \A j \in DOMAIN c : c[j] \in Statuses3,
           Replacement(p)',
           last' \in {NoSnap, last}, NewestIsKept'
    PROVE  SnapInv'
<1>1. Numbered /\ Processes /\ SavesAreNew
  BY Zenon DEF SnapInv
<1>2. holder = NoProc /\ holder' = p /\ barOf' = barOf /\ index' = index /\ gone' = gone
      /\ files' = files \ F
  BY Zenon DEF Locks
<1>3. task'[p] = [pc |-> "persist", id |-> x] /\ DOMAIN task' = SnapProcs
      /\ copy'[p] = c /\ DOMAIN copy' = SnapProcs
      /\ \A q \in SnapProcs \ {p} : task'[q] = task[q] /\ copy'[q] = copy[q]
  BY <1>1, Zenon DEF Locks, Processes
<1>4. task'[p].pc = "persist" /\ task'[p].id = x
  <2>1. task'[p] = [pc |-> "persist", id |-> x]
    BY <1>3, Zenon
  <2> QED BY <2>1, SMTT(30)
<1>5. x \in DOMAIN barOf \cup {NoSnap}
  BY <1>1, Zenon DEF Processes
<1>6. \A q \in SnapProcs : task[q].pc # "persist"
  BY <1>1, <1>2, SnapAssumption, Zenon DEF Processes, NoProc
<1>7. Numbered'
  <2>1. files' \subseteq DOMAIN barOf'
    BY <1>1, <1>2, Zenon DEF Numbered
  <2> QED BY <1>1, <1>2, <2>1, Zenon DEF Numbered, NoSnap
<1>8. Processes'
  <2>1. \A q \in SnapProcs : (task'[q].pc = "persist" <=> holder' = q)
    BY <1>2, <1>3, <1>4, <1>6, Zenon
  <2>2. \A q \in SnapProcs :
          /\ DOMAIN copy'[q] \subseteq DOMAIN barOf
          /\ \A j \in DOMAIN copy'[q] : copy'[q][j] \in Statuses3
          /\ task'[q].pc \in {"idle", "written", "persist", "read"}
          /\ task'[q].id \in DOMAIN barOf \cup {NoSnap}
    BY <1>1, <1>3, <1>4, <1>5, Zenon DEF Processes
  <2> QED BY <1>2, <1>3, <2>1, <2>2, Zenon DEF Processes, NoSnap, NoProc, Statuses3
<1>9. SavesAreNew'
  <2>1. \A q \in SnapProcs \ {p} : (Waiting(q)' <=> Waiting(q))
    BY <1>3, Zenon DEF Waiting, NoSnap
  <2>2. Waiting(p)' => Waiting(p) /\ x = task[p].id
    BY <1>4, Zenon DEF Waiting, NoSnap
  <2>3. gone' \cap DOMAIN index' = {}
    BY <1>1, <1>2, Zenon DEF SavesAreNew
  <2>4. ASSUME NEW r \in SnapProcs, Waiting(r)'
        PROVE  /\ task'[r].id # NoSnap
               /\ task'[r].id \notin DOMAIN index \cup gone
               /\ task'[r].pc = "written" => task'[r].id \in files'
               /\ Waiting(r) /\ task'[r].id = task[r].id
    <3>1. CASE r = p
      BY <1>1, <1>4, <2>2, <2>4, <3>1, Zenon DEF SavesAreNew
    <3>2. CASE r # p
      <4>1. task'[r] = task[r] /\ Waiting(r)
        BY <1>3, <2>1, <2>4, <3>2, Zenon
      <4>2. task[r].id # NoSnap /\ task[r].id \notin DOMAIN index \cup gone
            /\ (task[r].pc = "written" => task[r].id \in files)
        BY <1>1, <4>1, Zenon DEF SavesAreNew
      <4>3. task[r].id # x
        <5>1. CASE x = NoSnap
          BY <4>2, <5>1, Zenon
        <5>2. CASE Waiting(p) /\ x = task[p].id
          BY <1>1, <3>2, <4>1, <5>2, Zenon DEF SavesAreNew
        <5> QED BY <5>1, <5>2, Zenon DEF Waiting
      <4> QED BY <1>2, <4>1, <4>2, <4>3, Zenon
    <3> QED BY <3>1, <3>2, Zenon
  <2>5. ASSUME NEW r \in SnapProcs, NEW q \in SnapProcs \ {r}, Waiting(r)', Waiting(q)'
        PROVE  task'[q].id # task'[r].id
    BY <1>1, <2>4, <2>5, Zenon DEF SavesAreNew
  <2> QED BY <1>2, <2>3, <2>4, <2>5, Zenon DEF SavesAreNew, NoSnap
<1>10. ASSUME NEW q \in SnapProcs, task'[q].pc = "persist" PROVE Replacement(q)'
  <2>1. q = p
    BY <1>3, <1>6, <1>10, Zenon
  <2> QED BY <2>1, Zenon
<1> QED BY <1>7, <1>8, <1>9, <1>10, Zenon DEF SnapInv

(* The index read under the lock: entries whose file is there.             *)
LEMMA LoadedMeans ==
    ASSUME Numbered
    PROVE  /\ DOMAIN Loaded = DOMAIN index \cap files /\ DOMAIN Loaded \subseteq DOMAIN barOf
           /\ \A i \in DOMAIN Loaded : Loaded[i] = index[i] /\ index[i] \in Statuses3
BY Zenon DEF Loaded, Numbered

LEMMA SaveIndexKeeps ==
    ASSUME SnapInv, NEW p \in SnapProcs, SaveIndex(p)
    PROVE  SnapInv'
<1> DEFINE i == task[p].id
           old == Superseded(Loaded)
           all == DOMAIN old \cup {i}
           c == [j \in Kept(all) |-> IF j = i THEN "active" ELSE old[j]]
           F == all \ Kept(all)
<1>1. Numbered /\ Processes /\ SavesAreNew /\ NewestIsKept
  BY Zenon DEF SnapInv
<1>2. Locks(p, i, c, F) /\ task[p].pc = "written" /\ last' = last
  BY Zenon DEF SaveIndex, Locks, SnapGoto, UnderLock
<1>3. DOMAIN old = DOMAIN index \cap files
      /\ \A j \in DOMAIN old : old[j] = IF index[j] = "active" THEN "superseded" ELSE index[j]
  BY <1>1, LoadedMeans, Zenon DEF Superseded
<1>4. Waiting(p)
  BY <1>2, Zenon DEF Waiting
<1>5. i # NoSnap /\ i \notin DOMAIN index /\ i \in files /\ i \in DOMAIN barOf
  BY <1>1, <1>2, <1>4, Zenon DEF SavesAreNew, Processes
<1>6. all \subseteq DOMAIN barOf
  BY <1>1, <1>3, <1>5, Zenon DEF Numbered
<1>7. Kept(all) \subseteq all
  BY Zenon DEF Kept
<1>8. DOMAIN c = Kept(all) /\ (i \in Kept(all) => c[i] = "active")
      /\ \A j \in Kept(all) : j # i => c[j] = old[j]
  BY Zenon
<1>9. barOf' = barOf /\ index' = index /\ files' = files \ F
      /\ task'[p].id = i /\ copy'[p] = c
  <2>1. task'[p] = [pc |-> "persist", id |-> i] /\ copy'[p] = c
    BY <1>1, <1>2, Zenon DEF Locks, Processes
  <2> QED BY <1>2, <2>1 DEF Locks
<1>10. \A j \in DOMAIN c : c[j] \in Statuses3
  <2>1. \A j \in DOMAIN old : old[j] \in Statuses3
    BY <1>1, <1>3, Zenon DEF Numbered, Statuses3
  <2> HIDE DEF c, old, F
  <2>2. \A j \in Kept(all) : j # i => j \in DOMAIN old
    BY <1>7, Zenon
  <2> QED BY <1>8, <2>1, <2>2, Zenon DEF Statuses3
<1>11. Replacement(p)'
  <2>1. DOMAIN c \subseteq DOMAIN index \cup {i}
    BY <1>3, <1>7, <1>8, Zenon
  <2>2. \A j \in DOMAIN index \cap DOMAIN c : Rank[index[j]] <= Rank[c[j]]
    <3> SUFFICES ASSUME NEW j \in DOMAIN index \cap DOMAIN c PROVE Rank[index[j]] <= Rank[c[j]]
      BY Zenon
    <3>1. j # i /\ j \in DOMAIN old /\ c[j] = old[j]
      BY <1>5, <1>7, <1>8, Zenon
    <3>2. c[j] = IF index[j] = "active" THEN "superseded" ELSE index[j]
      BY <1>3, <3>1, Zenon
    <3>3. index[j] \in Statuses3
      BY <1>1, Zenon DEF Numbered
    <3> HIDE DEF c
    <3> QED BY <3>2, <3>3, RankMeans, SMTT(30) DEF Statuses3
  <2>3. CASE i \in Kept(all)
    <3>1. c[i] = "active" /\ i \in files'
      BY <1>5, <1>8, <1>9, <2>3, Zenon
    <3> HIDE DEF c, F, all, old
    <3>2. i \in DOMAIN c
      BY <1>8, <2>3, Zenon
    <3> HIDE DEF i
    <3> QED BY <1>9, <2>1, <2>2, <3>1, <3>2, Zenon DEF Replacement, Rank, NoSnap
  <2>4. CASE i \notin Kept(all)
    <3>1. Cardinality(NewerIn(Kept(all), i)) >= Keep
      <4>1. all \in SUBSET DOMAIN barOf /\ i \in all
        BY <1>6, Zenon
      <4> HIDE DEF all, i
      <4> QED BY <1>1, <2>4, <4>1, PrunedLeavesKeep, Zenon
    <3>2. Cardinality(NewerIn(DOMAIN c, i)) >= Keep
      BY <1>8, <3>1, Zenon
    <3>3. i \notin DOMAIN c
      BY <1>8, <2>4, Zenon
    <3> HIDE DEF c, F, all, old, i
    <3>4. {j \in DOMAIN copy[p] : Newer(j, task[p].id)}' = NewerIn(DOMAIN c, i)
      BY <1>9, Zenon DEF NewerIn, Newer
    <3>5. (DOMAIN copy[p] \subseteq DOMAIN index \cup {task[p].id})'
          /\ (\A j \in DOMAIN index \cap DOMAIN copy[p] : Rank[index[j]] <= Rank[copy[p][j]])'
      BY <1>9, <2>1, <2>2, Zenon DEF Rank
    <3>6. (Cardinality({j \in DOMAIN copy[p] : Newer(j, task[p].id)}) >= Keep)'
      BY <3>2, <3>4, Zenon
    <3>7. task'[p].id \notin DOMAIN copy'[p]
      BY <1>9, <3>3, Zenon
    <3> QED BY <3>5, <3>6, <3>7, Zenon DEF Replacement, Rank, NoSnap
  <2> QED BY <2>3, <2>4, Zenon
<1>12. NewestIsKept'
  <2>1. SameBars
    BY <1>9, Zenon DEF SameBars
  <2>2. ASSUME last # NoSnap, last \in files, Cardinality(NewerIn(DOMAIN index, last)) < Keep - 1
        PROVE  last \in files'
    <3>1. last \in DOMAIN index \cap files
      BY <1>1, <2>2, Zenon DEF NewestIsKept, NewerIn
    <3>2. last \in all /\ all \in SUBSET DOMAIN barOf /\ all \subseteq DOMAIN index \cup {i}
          /\ DOMAIN index \in SUBSET DOMAIN barOf
      BY <1>1, <1>3, <1>6, <3>1, Zenon DEF Numbered
    <3>3. last \in Kept(all)
      <4> HIDE DEF all, i
      <4> QED BY <1>1, <2>2, <3>2, RoomIsKept, Zenon
    <3> QED BY <1>9, <2>2, <3>3, Zenon
  <2>3. CASE last = NoSnap
    BY <1>2, <2>3, Zenon DEF NewestIsKept, NoSnap
  <2>4. CASE last # NoSnap
    <3> HIDE DEF i, old, all, c, F
    <3> QED BY <1>1, <1>2, <1>9, <2>1, <2>2, <2>4, NewestKept, Zenon
  <2> QED BY <2>3, <2>4, Zenon
<1>13. F \subseteq DOMAIN index \cup {i} /\ DOMAIN c \subseteq DOMAIN barOf /\ last' \in {NoSnap, last}
  BY <1>2, <1>3, <1>6, <1>7, <1>8, Zenon
<1>14. task[p].pc = "written" /\ i = task[p].id
  BY <1>2, Zenon
<1> HIDE DEF i, old, all, c, F
<1> QED BY <1>2, <1>10, <1>11, <1>12, <1>13, <1>14, LocksKeep, Zenon

LEMMA DeleteKeeps ==
    ASSUME SnapInv, NEW p \in SnapProcs, NEW i \in Ids, DeleteSnapshot(p, i)
    PROVE  SnapInv'
<1> DEFINE c == [j \in DOMAIN Loaded \ {i} |-> Loaded[j]]
<1>1. Numbered /\ Processes /\ SavesAreNew
  BY Zenon DEF SnapInv
<1>2. Locks(p, NoSnap, c, {i}) /\ task[p].pc = "idle" /\ last' = NoSnap /\ i \in DOMAIN Loaded
  BY Zenon DEF DeleteSnapshot, Locks, SnapGoto, UnderLock
<1>3. DOMAIN c \subseteq DOMAIN index /\ DOMAIN c \subseteq DOMAIN barOf /\ i \in DOMAIN index
      /\ \A j \in DOMAIN c : c[j] = index[j] /\ c[j] \in Statuses3
  BY <1>1, <1>2, LoadedMeans, Zenon
<1> HIDE DEF c
<1>4. index' = index /\ task'[p].id = NoSnap /\ copy'[p] = c
  <2>1. task'[p] = [pc |-> "persist", id |-> NoSnap] /\ copy'[p] = c
    BY <1>1, <1>2, Zenon DEF Locks, Processes
  <2> QED BY <1>2, <2>1 DEF Locks
<1>5. Replacement(p)'
  <2>1. \A j \in DOMAIN index \cap DOMAIN c : Rank[index[j]] <= Rank[c[j]]
    BY <1>3, RankMeans DEF Statuses3
  <2> QED BY <1>3, <1>4, <2>1, Zenon DEF Replacement, Rank, NoSnap
<1>6. NewestIsKept'
  BY <1>2, Zenon DEF NewestIsKept, NoSnap
<1> QED BY <1>2, <1>3, <1>5, <1>6, LocksKeep, Zenon

(* What holds of the index whenever it is replaced: its entries move       *)
(* forward, and none of them comes back.                                   *)
Forward ==
    /\ \A i \in DOMAIN index \cap DOMAIN index' : Rank[index[i]] <= Rank[index'[i]]
    /\ gone \cap DOMAIN index' = {}

(* The new entries replace the index.                                      *)
Publishes(p, entries) ==
    /\ UNCHANGED <<barOf, files>>
    /\ Publish(p, entries)
    /\ holder' = NoProc
    /\ DOMAIN task' = SnapProcs /\ \A q \in SnapProcs \ {p} : task'[q] = task[q]
    /\ task'[p].pc = "idle" /\ task'[p].id \in DOMAIN barOf \cup {NoSnap}

LEMMA PublishesKeep ==
    ASSUME SnapInv, NEW p \in SnapProcs, NEW c, Publishes(p, c),
           holder \in {p, NoProc},
           DOMAIN c \subseteq DOMAIN barOf, \A j \in DOMAIN c : c[j] \in Statuses3,
           \A j \in DOMAIN c : j \in DOMAIN index \/ (Waiting(p) /\ j = task[p].id),
           \A j \in DOMAIN index \cap DOMAIN c : Rank[index[j]] <= Rank[c[j]],
           last' \in DOMAIN barOf \cup {NoSnap}, NewestIsKept'
    PROVE  SnapInv' /\ Forward
<1>1. Numbered /\ Processes /\ SavesAreNew
  BY Zenon DEF SnapInv
<1>2. barOf' = barOf /\ files' = files /\ holder' = NoProc /\ index' = c
      /\ gone' = gone \cup (DOMAIN index \ DOMAIN c) /\ copy' = [copy EXCEPT ![p] = c]
  BY Zenon DEF Publishes, Publish
<1>4. task'[p].pc = "idle" /\ task'[p].id \in DOMAIN barOf \cup {NoSnap}
  BY Zenon DEF Publishes
<1>5. DOMAIN task' = SnapProcs /\ copy'[p] = c /\ DOMAIN copy' = SnapProcs
      /\ \A q \in SnapProcs \ {p} : task'[q] = task[q] /\ copy'[q] = copy[q]
  BY <1>1, <1>2, Zenon DEF Processes, Publishes
<1>6. \A q \in SnapProcs : task'[q].pc # "persist"
  <2>1. \A q \in SnapProcs \ {p} : task[q].pc # "persist"
    BY <1>1, SnapAssumption, Zenon DEF Processes, NoProc
  <2> QED BY <1>4, <1>5, <2>1, Zenon
<1>7. \A j \in DOMAIN c : j \notin gone
  BY <1>1, Zenon DEF SavesAreNew
<1>8. Numbered'
  <2>1. gone' \subseteq DOMAIN barOf'
    BY <1>1, <1>2, Zenon DEF Numbered
  <2> QED BY <1>1, <1>2, <2>1, Zenon DEF Numbered, NoSnap
<1>9. Processes'
  <2>1. \A q \in SnapProcs : (task'[q].pc = "persist" <=> holder' = q)
    BY <1>2, <1>6, SnapAssumption, Zenon DEF NoProc
  <2>2. \A q \in SnapProcs :
          /\ DOMAIN copy'[q] \subseteq DOMAIN barOf
          /\ \A j \in DOMAIN copy'[q] : copy'[q][j] \in Statuses3
          /\ task'[q].pc \in {"idle", "written", "persist", "read"}
          /\ task'[q].id \in DOMAIN barOf \cup {NoSnap}
    BY <1>1, <1>4, <1>5, Zenon DEF Processes
  <2> QED BY <1>2, <1>5, <2>1, <2>2, Zenon DEF Processes, NoSnap, NoProc, Statuses3
<1>10. SavesAreNew'
  <2>1. ~Waiting(p)' /\ \A q \in SnapProcs \ {p} : (Waiting(q)' <=> Waiting(q))
    BY <1>4, <1>5, Zenon DEF Waiting, NoSnap
  <2>2. gone' \cap DOMAIN index' = {}
    BY <1>2, <1>7, Zenon
  <2>3. ASSUME NEW r \in SnapProcs, Waiting(r)'
        PROVE  /\ task'[r].id # NoSnap
               /\ task'[r].id \notin DOMAIN c \cup gone'
               /\ task'[r].pc = "written" => task'[r].id \in files'
               /\ Waiting(r) /\ task'[r].id = task[r].id
    <3>1. r # p /\ Waiting(r) /\ task'[r] = task[r]
      BY <1>5, <2>1, <2>3, Zenon
    <3>2. task[r].id # NoSnap /\ task[r].id \notin DOMAIN index \cup gone
          /\ (task[r].pc = "written" => task[r].id \in files)
      BY <1>1, <3>1, Zenon DEF SavesAreNew
    <3>3. Waiting(p) => task[r].id # task[p].id
      BY <1>1, <3>1, Zenon DEF SavesAreNew
    <3> QED BY <1>2, <3>1, <3>2, <3>3, Zenon
  <2>4. ASSUME NEW r \in SnapProcs, NEW q \in SnapProcs \ {r}, Waiting(r)', Waiting(q)'
        PROVE  task'[q].id # task'[r].id
    BY <1>1, <2>3, <2>4, Zenon DEF SavesAreNew
  <2> QED BY <1>2, <2>2, <2>3, <2>4, Zenon DEF SavesAreNew, NoSnap
<1>11. SnapInv'
  BY <1>6, <1>8, <1>9, <1>10, Zenon DEF SnapInv
<1>12. Forward
  BY <1>2, <1>7, Zenon DEF Forward
<1> QED BY <1>11, <1>12, Zenon

LEMMA PersistKeeps ==
    ASSUME SnapInv, NEW p \in SnapProcs, Persist(p)
    PROVE  SnapInv' /\ Forward
<1>1. Numbered /\ Processes /\ SavesAreNew /\ Replacement(p)
  BY Zenon DEF SnapInv, Persist
<1>2. task' = [task EXCEPT ![p] = [pc |-> "idle", id |-> NoSnap]] /\ task[p].pc = "persist"
      /\ Publish(p, copy[p]) /\ holder' = NoProc /\ last' = task[p].id
      /\ barOf' = barOf /\ files' = files
  BY Zenon DEF Persist, SnapGoto
<1>3. task'[p] = [pc |-> "idle", id |-> NoSnap] /\ DOMAIN task' = SnapProcs
      /\ \A q \in SnapProcs \ {p} : task'[q] = task[q]
  BY <1>1, <1>2, Zenon DEF Processes
<1>4. task'[p].pc = "idle" /\ task'[p].id = NoSnap
  BY <1>3
<1>5. Publishes(p, copy[p])
  BY <1>2, <1>3, <1>4, Zenon DEF Publishes
<1>6. holder = p /\ task[p].id \in DOMAIN barOf \cup {NoSnap}
      /\ DOMAIN copy[p] \subseteq DOMAIN barOf /\ \A j \in DOMAIN copy[p] : copy[p][j] \in Statuses3
  BY <1>1, <1>2, Zenon DEF Processes
<1>7. NoSnap \notin DOMAIN barOf
  BY <1>1 DEF Numbered, NoSnap
<1>8. \A j \in DOMAIN copy[p] : j \in DOMAIN index \/ (Waiting(p) /\ j = task[p].id)
  BY <1>1, <1>2, <1>6, <1>7, Zenon DEF Replacement, Waiting
<1>9. \A j \in DOMAIN index \cap DOMAIN copy[p] : Rank[index[j]] <= Rank[copy[p][j]]
  BY <1>1, Zenon DEF Replacement
<1>10. NewestIsKept'
  <2>1. index' = copy[p] /\ last' = task[p].id /\ barOf' = barOf /\ files' = files
    BY <1>2, Zenon DEF Publish
  <2>2. CASE task[p].id = NoSnap
    BY <2>1, <2>2, Zenon DEF NewestIsKept, NoSnap
  <2>3. CASE task[p].id # NoSnap /\ task[p].id \in DOMAIN copy[p]
    <3>1. copy[p][task[p].id] = "active" /\ task[p].id \in files
      BY <1>1, <2>3, Zenon DEF Replacement
    <3> QED BY <2>1, <2>3, <3>1, Zenon DEF NewestIsKept
  <2>4. CASE task[p].id # NoSnap /\ task[p].id \notin DOMAIN copy[p]
    <3>1. Cardinality(NewerIn(DOMAIN copy[p], task[p].id)) >= Keep
      BY <1>1, <2>4, Zenon DEF Replacement, NewerIn
    <3>2. {i \in DOMAIN index : Newer(i, last)}' = NewerIn(DOMAIN copy[p], task[p].id)
      BY <2>1, Zenon DEF NewerIn, Newer
    <3>3. Cardinality(NewerIn(DOMAIN copy[p], task[p].id)) \in Nat
      <4>1. NewerIn(DOMAIN copy[p], task[p].id) \in SUBSET DOMAIN barOf
        BY <1>6, Zenon DEF NewerIn
      <4> QED BY <1>1, <4>1, SnapshotsAreFinite, Zenon
    <3>4. ~(Cardinality(NewerIn(DOMAIN copy[p], task[p].id)) < Keep - 1)
      BY <3>1, <3>3, SnapAssumption
    <3> QED BY <3>2, <3>4, Zenon DEF NewestIsKept
  <2> QED BY <2>2, <2>3, <2>4, Zenon
<1> QED BY <1>2, <1>5, <1>6, <1>8, <1>9, <1>10, PublishesKeep, Zenon

LEMMA MarkInvalidKeeps ==
    ASSUME SnapInv, NEW p \in SnapProcs, NEW since \in SnapBars, MarkInvalid(p, since)
    PROVE  SnapInv' /\ Forward
<1> DEFINE c == [i \in DOMAIN Loaded |-> IF barOf[i] >= since THEN "invalid" ELSE Loaded[i]]
<1>1. Numbered /\ Processes /\ SavesAreNew
  BY Zenon DEF SnapInv
<1>2. task[p].pc = "idle" /\ holder = NoProc /\ Publish(p, c) /\ last' = NoSnap
      /\ barOf' = barOf /\ files' = files /\ task' = task /\ holder' = holder
  BY Zenon DEF MarkInvalid, UnderLock
<1>3. DOMAIN c \subseteq DOMAIN index /\ DOMAIN c \subseteq DOMAIN barOf
      /\ \A j \in DOMAIN c : c[j] \in {"invalid", index[j]} /\ index[j] \in Statuses3
  BY <1>1, LoadedMeans, Zenon
<1> HIDE DEF c
<1>4. \A j \in DOMAIN c : c[j] \in Statuses3 /\ Rank[index[j]] <= Rank[c[j]]
  BY <1>3, RankMeans DEF Statuses3
<1>5. Publishes(p, c)
  BY <1>1, <1>2, Zenon DEF Publishes, Processes
<1>6. NewestIsKept'
  BY <1>2, Zenon DEF NewestIsKept, NoSnap
<1> QED BY <1>2, <1>3, <1>4, <1>5, <1>6, PublishesKeep, Zenon

(* The entries a process looks at.                                         *)
LEMMA CurrentMeans ==
    ASSUME Numbered, Processes, NEW p \in SnapProcs
    PROVE  /\ DOMAIN Current(p) \subseteq DOMAIN barOf
           /\ \A i \in DOMAIN Current(p) : Current(p)[i] \in Statuses3
<1>1. CASE p \in fresh
  BY <1>1, Zenon DEF Current, Processes
<1>2. CASE p \notin fresh
  BY <1>2, LoadedMeans, Zenon DEF Current
<1> QED BY <1>1, <1>2, Zenon

(* The steps after which a process has nothing to write.                   *)
LEMMA QuietSteps ==
    ASSUME SnapInv, NEW p \in SnapProcs,
           \/ PersistFails(p) \/ LoadState(p) \/ RestartStore(p)
           \/ \E b \in SnapBars : Invalidate(p, b) \/ FindSnapshot(p, b)
    PROVE  Rests(p)
<1>1. Numbered /\ Processes
  BY Zenon DEF SnapInv
<1>2. \A q \in SnapProcs : (task[q].pc = "persist" <=> holder = q)
  BY <1>1, Zenon DEF Processes
<1>3. ASSUME task' = [task EXCEPT ![p] = [pc |-> "idle", id |-> NoSnap]]
      PROVE  /\ DOMAIN task' = SnapProcs /\ \A q \in SnapProcs \ {p} : task'[q] = task[q]
             /\ task'[p].pc \in {"idle", "read"} /\ task'[p].id \in DOMAIN barOf \cup {NoSnap}
  <2>1. DOMAIN task' = SnapProcs /\ \A q \in SnapProcs \ {p} : task'[q] = task[q]
    BY <1>1, <1>3, Zenon DEF Processes
  <2>2. task'[p] = [pc |-> "idle", id |-> NoSnap]
    BY <1>1, <1>3, Zenon DEF Processes
  <2> QED BY <2>1, <2>2
<1>4. ASSUME NEW c, copy' = [copy EXCEPT ![p] = c],
             DOMAIN c \subseteq DOMAIN barOf, \A j \in DOMAIN c : c[j] \in Statuses3
      PROVE  /\ DOMAIN copy' = SnapProcs /\ \A q \in SnapProcs \ {p} : copy'[q] = copy[q]
             /\ DOMAIN copy'[p] \subseteq DOMAIN barOf
             /\ \A j \in DOMAIN copy'[p] : copy'[p][j] \in Statuses3
  BY <1>1, <1>4, Zenon DEF Processes
<1>5. CASE PersistFails(p)
  <2>1. task' = [task EXCEPT ![p] = [pc |-> "idle", id |-> NoSnap]] /\ task[p].pc = "persist"
        /\ copy' = copy /\ holder' = NoProc /\ UNCHANGED <<barOf, files, index, last, gone>>
    BY <1>5, Zenon DEF PersistFails, SnapGoto
  <2> QED BY <1>1, <1>2, <1>3, <2>1, Zenon DEF Rests, Processes
<1>6. CASE LoadState(p)
  <2>1. task' = [task EXCEPT ![p] = [pc |-> "idle", id |-> NoSnap]] /\ task[p].pc = "read"
        /\ copy' = copy /\ holder' = holder /\ UNCHANGED <<barOf, files, index, last, gone>>
    BY <1>6, Zenon DEF LoadState, SnapGoto
  <2>2. holder # p
    BY <1>2, <2>1, Zenon
  <2> QED BY <1>1, <1>3, <2>1, <2>2, Zenon DEF Rests, Processes
<1>7. CASE RestartStore(p)
  <2>1. task' = [task EXCEPT ![p] = [pc |-> "idle", id |-> NoSnap]]
        /\ copy' = [copy EXCEPT ![p] = Loaded]
        /\ holder' = (IF holder = p THEN NoProc ELSE holder)
        /\ UNCHANGED <<barOf, files, index, last, gone>>
    BY <1>7, Zenon DEF RestartStore, NoTask
  <2>2. DOMAIN Loaded \subseteq DOMAIN barOf /\ \A j \in DOMAIN Loaded : Loaded[j] \in Statuses3
    BY <1>1, LoadedMeans, Zenon
  <2> QED BY <1>3, <1>4, <2>1, <2>2, Zenon DEF Rests
<1>8. ASSUME NEW b \in SnapBars, Invalidate(p, b) PROVE Rests(p)
  <2> DEFINE c == [i \in DOMAIN Current(p) |-> IF barOf[i] >= b THEN "invalid" ELSE Current(p)[i]]
  <2>1. task[p].pc = "idle" /\ task' = task /\ copy' = [copy EXCEPT ![p] = c]
        /\ holder' = holder /\ UNCHANGED <<barOf, files, index, last, gone>>
    BY <1>8, Zenon DEF Invalidate
  <2>2. DOMAIN c \subseteq DOMAIN barOf /\ \A j \in DOMAIN c : c[j] \in Statuses3
    BY <1>1, CurrentMeans, Zenon DEF Statuses3
  <2>3. holder # p
    BY <1>2, <2>1, Zenon
  <2> HIDE DEF c
  <2> QED BY <1>1, <1>4, <2>1, <2>2, <2>3, Zenon DEF Rests, Processes
<1>9. ASSUME NEW b \in SnapBars, FindSnapshot(p, b) PROVE Rests(p)
  <2>1. task[p].pc = "idle" /\ copy' = [copy EXCEPT ![p] = Current(p)]
        /\ holder' = holder /\ UNCHANGED <<barOf, files, index, last, gone>>
    BY <1>9, Zenon DEF FindSnapshot
  <2>2. PICK i \in Latest(Current(p), b) : task' = [task EXCEPT ![p] = [pc |-> "read", id |-> i]]
    BY <1>9, Zenon DEF FindSnapshot, SnapGoto
  <2>3. i \in DOMAIN barOf
    BY <1>1, <2>2, CurrentMeans, Zenon DEF Latest
  <2>4. task'[p] = [pc |-> "read", id |-> i] /\ DOMAIN task' = SnapProcs
        /\ \A q \in SnapProcs \ {p} : task'[q] = task[q]
    BY <1>1, <2>2, Zenon DEF Processes
  <2>5. task'[p].pc = "read" /\ task'[p].id = i
    BY <2>4, SMTT(30)
  <2>6. holder # p
    BY <1>2, <2>1, Zenon
  <2> QED BY <1>1, <1>4, <2>1, <2>3, <2>4, <2>5, <2>6, CurrentMeans, Zenon DEF Rests
<1> QED BY <1>5, <1>6, <1>7, <1>8, <1>9, Zenon

LEMMA SnapStarts == SnapInit => SnapInv
<1> SUFFICES ASSUME SnapInit PROVE SnapInv
  BY Zenon
<1>1. barOf = [i \in {} |-> 0] /\ files = {} /\ index = [i \in {} |-> "active"] /\ gone = {}
      /\ copy = [p \in SnapProcs |-> index] /\ task = [p \in SnapProcs |-> NoTask]
      /\ holder = NoProc /\ last = NoSnap
  BY Zenon DEF SnapInit
<1>2. DOMAIN barOf = {} /\ DOMAIN index = {}
  BY <1>1, Zenon
<1>3. Numbered
  <2>1. 0 \in 0..MaxSnapshots /\ 1..0 = {}
    BY SnapAssumption
  <2> QED BY <1>1, <1>2, <2>1, Zenon DEF Numbered
<1>4. NoTask.pc = "idle" /\ NoTask.id = NoSnap
  BY Zenon DEF NoTask
<1>5. DOMAIN copy = SnapProcs /\ DOMAIN task = SnapProcs
      /\ \A p \in SnapProcs : copy[p] = index /\ task[p].pc = "idle" /\ task[p].id = NoSnap
  BY <1>1, <1>4, Zenon
<1>6. Processes
  <2>1. \A p \in SnapProcs : holder # p
    BY <1>1, SnapAssumption, Zenon DEF NoProc
  <2>2. \A p \in SnapProcs : task[p].pc # "persist"
    BY <1>5, Zenon
  <2> QED BY <1>1, <1>2, <1>5, <2>1, <2>2, Zenon DEF Processes
<1>7. \A p \in SnapProcs : ~Waiting(p) /\ task[p].pc # "persist"
  BY <1>5, Zenon DEF Waiting
<1>8. SavesAreNew
  BY <1>1, <1>7, Zenon DEF SavesAreNew
<1>9. NewestIsKept
  BY <1>1, Zenon DEF NewestIsKept
<1> QED BY <1>3, <1>6, <1>7, <1>8, <1>9, Zenon DEF SnapInv

LEMMA SnapStep == SnapInv /\ [SnapNext]_snapVars => SnapInv' /\ (Forward \/ UNCHANGED snapVars)
<1> SUFFICES ASSUME SnapInv, [SnapNext]_snapVars PROVE SnapInv' /\ (Forward \/ UNCHANGED snapVars)
  BY Zenon
<1>1. CASE UNCHANGED snapVars
  <2>1. barOf' = barOf /\ files' = files /\ index' = index /\ copy' = copy /\ task' = task
        /\ holder' = holder /\ last' = last /\ gone' = gone
    BY <1>1, Zenon DEF snapVars
  <2>2. Numbered' /\ Processes'
    BY <2>1, Zenon DEF SnapInv, Numbered, Processes, NoSnap, NoProc, Statuses3
  <2>3. \A p \in SnapProcs : (Waiting(p)' <=> Waiting(p))
    BY <2>1, Zenon DEF Waiting, NoSnap
  <2>4. SavesAreNew'
    BY <2>1, <2>3, Zenon DEF SnapInv, SavesAreNew, NoSnap
  <2>5. SameBars
    BY <2>1, Zenon DEF SameBars
  <2>6. \A p \in SnapProcs : task'[p].pc = "persist" => Replacement(p)'
    BY <2>1, <2>5, ReplacementKept, Zenon DEF SnapInv
  <2>7. NewestIsKept'
    BY <2>1, <2>5, NewestKept, Zenon DEF SnapInv
  <2> QED BY <1>1, <2>2, <2>4, <2>6, <2>7, Zenon DEF SnapInv
<1>2. ASSUME index' = index PROVE Forward
  <2>1. \A i \in DOMAIN index : index[i] \in Statuses3
    BY Zenon DEF SnapInv, Numbered
  <2>2. \A i \in DOMAIN index : Rank[index[i]] <= Rank[index[i]]
    BY <2>1, RankMeans DEF Statuses3
  <2> QED BY <1>2, <2>2, Zenon DEF Forward, SnapInv, SavesAreNew
<1>3. ASSUME NEW p \in SnapProcs, NEW b \in Nat, Saves(p, b) PROVE SnapInv' /\ Forward
  BY <1>2, <1>3, SavesKeep, Zenon DEF Saves
<1>4. ASSUME NEW p \in SnapProcs, Rests(p) PROVE SnapInv' /\ Forward
  BY <1>2, <1>4, RestsKeep, Zenon DEF Rests
<1>5. ASSUME NEW p \in SnapProcs, NEW b \in SnapBars, SaveFile(p, b) PROVE SnapInv' /\ Forward
  <2>1. Saves(p, b)
    BY <1>5, Zenon DEF SaveFile, Saves
  <2>2. b \in Nat
    BY SnapAssumption, Zenon
  <2> QED BY <1>3, <2>1, <2>2, Zenon
<1>6. ASSUME NEW p \in SnapProcs, NEW f \in SnapBars, NEW b \in SnapBars, Rebuild(p, f, b)
      PROVE  SnapInv' /\ Forward
  <2>1. Saves(p, b)
    BY <1>6, Zenon DEF Rebuild, Saves
  <2>2. b \in Nat
    BY SnapAssumption, Zenon
  <2> QED BY <1>3, <2>1, <2>2, Zenon
<1>7. ASSUME NEW p \in SnapProcs, SaveIndex(p) PROVE SnapInv' /\ Forward
  BY <1>2, <1>7, SaveIndexKeeps, Zenon DEF SaveIndex
<1>8. ASSUME NEW p \in SnapProcs, NEW i \in Ids, DeleteSnapshot(p, i) PROVE SnapInv' /\ Forward
  BY <1>2, <1>8, DeleteKeeps, Zenon DEF DeleteSnapshot
<1>9. ASSUME NEW p \in SnapProcs, Persist(p) PROVE SnapInv' /\ Forward
  BY <1>9, PersistKeeps, Zenon
<1>10. ASSUME NEW p \in SnapProcs, NEW b \in SnapBars, MarkInvalid(p, b) PROVE SnapInv' /\ Forward
  BY <1>10, MarkInvalidKeeps, Zenon
<1>11. ASSUME NEW p \in SnapProcs,
              \/ PersistFails(p) \/ LoadState(p) \/ RestartStore(p)
              \/ \E b \in SnapBars : Invalidate(p, b) \/ FindSnapshot(p, b)
       PROVE  SnapInv' /\ Forward
  BY <1>4, <1>11, QuietSteps, Zenon
<1>12. CASE SnapNext
  BY <1>5, <1>6, <1>7, <1>8, <1>9, <1>10, <1>11, <1>12, Zenon DEF SnapNext
<1> QED BY <1>1, <1>12, Zenon

(* The invariant holds in every reachable state of the snapshot store.     *)
THEOREM SnapInductive == SnapSpec => []SnapInv
BY SnapStarts, SnapStep, PTL DEF SnapSpec

(* Only processes have a fresh copy of the index.                          *)
LEMMA FreshTyped == SnapSpec => [](fresh \subseteq SnapProcs)
<1>1. SnapInit => fresh \subseteq SnapProcs
  BY Zenon DEF SnapInit
<1>2. fresh \subseteq SnapProcs /\ [SnapNext]_snapVars => (fresh \subseteq SnapProcs)'
  <2> SUFFICES ASSUME fresh \subseteq SnapProcs, [SnapNext]_snapVars PROVE fresh' \subseteq SnapProcs
    BY Zenon
  <2>1. fresh' = fresh \/ \E p \in SnapProcs : fresh' \in {{p}, fresh \cup {p}}
    BY Zenon DEF SnapNext, snapVars, SaveFile, SaveIndex, DeleteSnapshot, Persist, PersistFails, MarkInvalid,
       Invalidate, FindSnapshot, LoadState, Rebuild, RestartStore, Publish
  <2> QED BY <2>1, Zenon
<1> QED BY <1>1, <1>2, PTL DEF SnapSpec

(* Whatever the processes do, and wherever they end between the pruning of *)
(* files and the replacement of the index, the snapshot that save_snapshot *)
(* indexed last is there to resume from, for every number of processes,    *)
(* snapshots and max_snapshots_per_strategy.                               *)
THEOREM SnapNewestSaveKept == SnapSpec => []NewestSaveKept
<1>1. SnapInv /\ fresh \subseteq SnapProcs => NewestSaveKept
  <2> SUFFICES ASSUME SnapInv, fresh \subseteq SnapProcs PROVE NewestSaveKept
    BY Zenon
  <2>1. Numbered /\ Processes /\ NewestIsKept
    BY Zenon DEF SnapInv
  <2>2. DOMAIN barOf \subseteq Ids
    BY <2>1, SnapAssumption DEF Numbered, Ids
  <2> QED BY <2>1, <2>2, Zenon DEF Numbered, Processes, SnapTypeOK, NewestSaveKept
<1> QED BY <1>1, SnapInductive, FreshTyped, PTL

(* No process undoes what another wrote to the index: a snapshot that is   *)
(* superseded or invalid stays so, and one that was pruned or deleted does *)
(* not come back.                                                          *)
THEOREM SnapIndexMovesForward == SnapSpec => IndexMovesForward
<1>1. IndexMovesForward <=> [][Forward]_snapVars
  BY Zenon DEF IndexMovesForward, Forward
<1>2. SnapInv /\ [SnapNext]_snapVars => [Forward]_snapVars
  BY SnapStep, Zenon
<1> HIDE DEF IndexMovesForward, Forward
<1> QED BY <1>1, <1>2, SnapInductive, PTL DEF SnapSpec

-----------------------------------------------------------------------------
(* The batch runner                                                        *)

(* A set of numbers that is not empty has a least one, which Min chooses.  *)
LEMMA LeastNumber ==
    ASSUME NEW T \in SUBSET Nat, T # {}
    PROVE  Min(T) \in T
<1>1. PICK n \in T : \A m \in T : ~(<<m, n>> \in OpToRel(<, Nat))
  BY NatLessThanWellFounded, WFMin, Zenon
<1>2. ASSUME NEW m \in T PROVE n <= m
  <2>1. m \in Nat /\ n \in Nat
    BY Zenon
  <2>2. <<m, n>> \in Nat \X Nat /\ <<m, n>>[1] = m /\ <<m, n>>[2] = n
    BY <2>1, Zenon
  <2>3. m < n => <<m, n>> \in OpToRel(<, Nat)
    BY <2>2, Zenon DEF OpToRel
  <2>4. ~(m < n)
    BY <1>1, <2>3, Zenon
  <2> QED BY <2>1, <2>4
<1> QED BY <1>2, Zenon DEF Min

(* What the files of a chart hold.                                         *)
Batches == 0 .. MaxBatches
CsvType == [by : Batches, whole : BOOLEAN]
MetaType == [by : Batches, whole : BOOLEAN, valid : BOOLEAN]
SummaryType == [by : Batches, whole : BOOLEAN, status : {"none", "ok", "run_error"}]

\* The steps of the process: before the charts, in a chart, and those with an entry.
EarlySteps == {"ingest", "compile", "register", "charts", "finish"}
ChartSteps == Exports \cup {"meta", "summary"}

\* The files of the current chart that were exported by the time of a step.
Exported(place, e) ==
  CASE place = "plots"  -> {}
    [] place = "trades" -> {"plots"}
    [] place = "equity" -> {"plots", "trades"}
    [] OTHER            -> expected_output_files(e)

Steps == {"idle", "entries"} \cup EarlySteps \cup ChartSteps
EntryStatuses == {"planned", "ingested", "compiled", "registered", "ok", "skipped_completed"} \cup ErrorStatuses
ProcType ==
  [batch : Batches, at : Steps, args : ArgsType, left : SUBSET DOMAIN BatchEntries,
   charts : SUBSET Frames, outcome : {"ok", "run_error"},
   runs : Seq(Frames \X {"ok", "run_error"}), status : EntryStatuses,
   bars : [Frames -> {"none", "bare", "canonical"}], results : Seq(Entries \X EntryStatuses)]

(* The process has an entry, and a chart, wherever a step needs one.       *)
ProcInv ==
  /\ proc \in ProcType
  /\ proc.at # "idle" => proc.batch > 0
  /\ proc.at \in EarlySteps \cup ChartSteps => proc.left # {}
  /\ proc.at \in ChartSteps => proc.charts # {}

(* The types of what is on disk and in the registries.                     *)
FilesTyped ==
  /\ pine \in [Entries -> [row : BOOLEAN, artifact : BOOLEAN]]
  /\ strategies \subseteq Entries \X Frames
  /\ csv \in [Entries -> [Frames -> [Exports -> CsvType]]]
  /\ runMeta \in [Entries -> [Frames -> MetaType]]
  /\ summary \in [Entries -> [Frames -> SummaryType]]
  /\ good \in [Entries -> [Frames -> Batches]]

\* What a chart's records say: a summary that reads "ok" is of a run recorded ok, no
\* recorded run is of a batch to come, and no expected file is older than it.
ChartTold(e, t, c, s, g, b) ==
  /\ s.whole /\ s.status = "ok" => g > 0
  /\ g <= b
  /\ g > 0 => \A f \in expected_output_files(e) : c[f].by >= g

RecordsTold ==
  /\ \A e \in Entries, t \in Frames : ChartTold(e, t, csv[e][t], summary[e][t], good[e][t], proc.batch)
  /\ proc.at \in ChartSteps /\ (proc.at \in {"meta", "summary"} => proc.outcome = "ok") =>
       \A f \in Exported(proc.at, Entry) : csv[Entry][Chart][f].by = proc.batch

(* The inductive invariant of the batch runner.                            *)
BatchInv == ProcInv /\ FilesTyped /\ RecordsTold

LEMMA EntryTyped ==
  ASSUME ProcInv, proc.left # {}
  PROVE  Entry \in Entries
<1>1. DOMAIN BatchEntries \subseteq Nat
  BY BatchAssumption
<1>2. Min(proc.left) \in proc.left
  BY <1>1, LeastNumber, Zenon DEF ProcInv, ProcType
<1> QED BY <1>2, Zenon DEF ProcInv, ProcType, Entry, Entries

LEMMA ChartTyped ==
  ASSUME ProcInv, proc.charts # {}
  PROVE  Chart \in Frames
<1>1. Chart \in proc.charts
  BY Zenon DEF Chart
<1> QED BY <1>1, Zenon DEF ProcInv, ProcType

LEMMA IdleTyped ==
  ASSUME NEW n \in Batches
  PROVE  BatchIdle(n) \in ProcType
<1>1. (CHOOSE a \in BatchArgs : TRUE) \in ArgsType
  BY BatchAssumption, Zenon
<1>2. <<>> \in Seq(Frames \X {"ok", "run_error"}) /\ <<>> \in Seq(Entries \X EntryStatuses)
  OBVIOUS
<1> QED BY <1>1, <1>2, Zenon DEF BatchIdle, ProcType, EntryStatuses, Steps

LEMMA IdleProc ==
  ASSUME NEW n \in Batches, proc' = BatchIdle(n)
  PROVE  ProcInv' /\ proc'.batch = n /\ proc'.at = "idle"
<1>1. (CHOOSE a \in BatchArgs : TRUE) \in ArgsType
  BY BatchAssumption, Zenon
<1> QED BY <1>1, SMTT(30) DEF BatchIdle, ProcInv, ProcType, EntryStatuses, Steps, EarlySteps, ChartSteps,
Exports

LEMMA BatchStarts == BatchInit => BatchInv
<1> SUFFICES ASSUME BatchInit PROVE BatchInv
  BY Zenon
<1>0. 0 \in Batches
  BY BatchAssumption DEF Batches
<1>1. ProcInv /\ proc.batch = 0 /\ proc.at = "idle"
  <2>1. (CHOOSE a \in BatchArgs : TRUE) \in ArgsType
    BY BatchAssumption, Zenon
  <2> QED BY <1>0, <2>1, SMTT(30) DEF BatchInit, BatchIdle, ProcInv, ProcType, EntryStatuses, Steps,
  EarlySteps, ChartSteps, Exports
<1>2. FilesTyped
  BY <1>0, Zenon DEF BatchInit, FilesTyped, CsvType, MetaType, SummaryType, Missing
<1>3. ASSUME NEW e \in Entries, NEW t \in Frames PROVE ChartTold(e, t, csv[e][t], summary[e][t], good[e][t], proc.batch)
  BY <1>1 DEF BatchInit, ChartTold
<1> QED BY <1>1, <1>2, <1>3, Zenon DEF BatchInv, RecordsTold, ChartSteps, Exports

(* Steps that leave the records alone and do not enter a chart.            *)
LEMMA RecordsSame ==
  ASSUME BatchInv, csv' = csv, summary' = summary, good' = good,
         proc'.batch \in Batches, proc'.batch >= proc.batch, proc'.at \notin ChartSteps
  PROVE  RecordsTold'
<1>1. ASSUME NEW e \in Entries, NEW t \in Frames
      PROVE  ChartTold(e, t, csv[e][t], summary[e][t], good[e][t], proc'.batch)
  BY <1>1 DEF BatchInv, RecordsTold, ChartTold, FilesTyped, ProcInv, ProcType, Batches
<1> QED BY <1>1, Zenon DEF RecordsTold

(* What the steps outside the charts do to what the records depend on.     *)
QuietStep ==
  /\ ProcInv' /\ csv' = csv /\ summary' = summary /\ good' = good /\ runMeta' = runMeta
  /\ proc'.batch \in Batches /\ proc'.batch >= proc.batch /\ proc'.at \notin ChartSteps

LEMMA QuietProc ==
  ASSUME BatchInv,
         \/ \E a \in BatchArgs : StartBatch(a)
         \/ SkipEntry \/ TakeEntry \/ EntryRaises \/ GetOrAddSource \/ CompileSource
         \/ RegisterStrategies \/ ChartsDone \/ FinishEntry \/ FinishBatch
  PROVE  QuietStep
<1>0. /\ ProcInv /\ proc \in ProcType /\ proc.batch \in Nat /\ proc.batch \in Batches
  BY BatchAssumption, SMTT(30) DEF BatchInv, ProcInv, ProcType, Batches
<1>a. /\ {"idle", "entries", "finish", "ingest", "compile", "register", "charts"} \subseteq Steps
      /\ EarlySteps = {"ingest", "compile", "register", "charts", "finish"}
      /\ ChartSteps = {"plots", "trades", "equity", "meta", "summary"}
      /\ {"planned", "ingested", "compiled", "registered", "ok", "skipped_completed", "compile_error",
          "fatal_error", "partial_or_error"} = EntryStatuses
  BY Zenon DEF Steps, EarlySteps, ChartSteps, Exports, EntryStatuses, ErrorStatuses
<1>b. ASSUME proc' \in ProcType, proc'.batch = proc.batch, proc.batch > 0,
             proc'.at \in {"entries", "finish", "ingest", "compile", "register", "charts"},
             proc'.at # "entries" => proc'.left # {},
             csv' = csv /\ summary' = summary /\ good' = good /\ runMeta' = runMeta
      PROVE  QuietStep
  BY <1>0, <1>a, <1>b, SMTT(30) DEF QuietStep, ProcInv
<1>c. ASSUME proc.at # "idle" PROVE proc.batch > 0
  BY <1>0, <1>c, Zenon DEF ProcInv
<1>d. ASSUME proc.at \in EarlySteps PROVE proc.batch > 0 /\ proc.left # {}
  BY <1>0, <1>a, <1>d, Zenon DEF ProcInv
<1>1. ASSUME NEW a \in BatchArgs, StartBatch(a) PROVE QuietStep
  <2>0. proc.batch < MaxBatches
    BY <1>1, Zenon DEF StartBatch
  <2>1. proc.batch + 1 \in Batches /\ proc.batch + 1 > 0 /\ proc.batch + 1 >= proc.batch /\ a \in ArgsType
    BY <1>0, <2>0, BatchAssumption DEF Batches
  <2>2. filter_entries(a) \subseteq DOMAIN BatchEntries
    BY Zenon DEF filter_entries
  <2>3. proc' = [BatchIdle(proc.batch + 1) EXCEPT !.at = "entries", !.args = a, !.left = filter_entries(a)]
    BY <1>1, Zenon DEF StartBatch
  <2>4. proc' \in ProcType
    <3>1. BatchIdle(proc.batch + 1) \in ProcType
      BY <2>1, IdleTyped, Zenon
    <3> HIDE DEF BatchIdle
    <3> QED BY <1>a, <2>1, <2>2, <2>3, <3>1, Zenon DEF ProcType
  <2>5. proc'.batch = proc.batch + 1 /\ proc'.at = "entries"
    BY <2>3, Zenon DEF BatchIdle
  <2>6. csv' = csv /\ summary' = summary /\ good' = good /\ runMeta' = runMeta
    BY <1>1, Zenon DEF StartBatch
  <2> QED BY <1>a, <2>1, <2>4, <2>5, <2>6, Zenon DEF QuietStep, ProcInv
<1>2. CASE SkipEntry
  <2>1. Entry \in Entries /\ proc.at = "entries"
    BY <1>0, <1>2, EntryTyped, Zenon DEF SkipEntry
  <2>2. proc' = [proc EXCEPT !.left = Others, !.results = Done(Entry, "skipped_completed")]
    BY <1>2, Zenon DEF SkipEntry
  <2>3. Others \in SUBSET DOMAIN BatchEntries /\ Done(Entry, "skipped_completed") \in Seq(Entries \X EntryStatuses)
    BY <1>0, <1>a, <2>1 DEF Others, Done, ProcType
  <2>4. proc' \in ProcType
    BY <1>0, <2>2, <2>3, Zenon DEF ProcType
  <2>5. proc'.batch = proc.batch /\ proc'.at = "entries"
    BY <1>0, <2>1, <2>2, Zenon DEF ProcType
  <2>6. csv' = csv /\ summary' = summary /\ good' = good /\ runMeta' = runMeta
    BY <1>2, Zenon DEF SkipEntry
  <2> QED BY <1>b, <1>c, <2>1, <2>4, <2>5, <2>6, Zenon
<1>3. CASE TakeEntry
  <2>0. csv' = csv /\ summary' = summary /\ good' = good /\ runMeta' = runMeta
    BY <1>3, Zenon DEF TakeEntry
  <2>1. proc' \in ProcType
    <3>1. <<>> \in Seq(Frames \X {"ok", "run_error"})
      OBVIOUS
    <3>2. PICK c \in {"finish", "ingest"} : proc' = [proc EXCEPT !.at = c, !.status = "planned", !.runs = <<>>]
      BY <1>3, Zenon DEF TakeEntry
    <3> QED BY <1>0, <1>a, <3>1, <3>2, Zenon DEF ProcType
  <2>2. /\ proc'.batch = proc.batch /\ proc'.at \in {"finish", "ingest"} /\ proc'.left = proc.left
        /\ proc.left # {} /\ proc.at = "entries"
    BY <1>0, <1>3, Zenon DEF TakeEntry, ProcType
  <2> QED BY <1>b, <1>c, <2>0, <2>1, <2>2, Zenon
<1>4. CASE EntryRaises
  <2>0. csv' = csv /\ summary' = summary /\ good' = good /\ runMeta' = runMeta
    BY <1>4, Zenon DEF EntryRaises
  <2>1. proc' \in ProcType
    BY <1>0, <1>a, <1>4, Zenon DEF EntryRaises, ProcType
  <2>2. /\ proc'.batch = proc.batch /\ proc'.at = "finish" /\ proc'.left = proc.left /\ proc.at \in EarlySteps
    BY <1>0, <1>a, <1>4, Zenon DEF EntryRaises, ProcType
  <2> QED BY <1>b, <1>d, <2>0, <2>1, <2>2, Zenon
<1>5. CASE GetOrAddSource
  <2>0. csv' = csv /\ summary' = summary /\ good' = good /\ runMeta' = runMeta
    BY <1>5, Zenon DEF GetOrAddSource
  <2>1. proc' \in ProcType
    BY <1>0, <1>a, <1>5, Zenon DEF GetOrAddSource, ProcType, After
  <2>2. /\ proc'.batch = proc.batch /\ proc'.at \in {"finish", "compile"} /\ proc'.left = proc.left
        /\ proc.at \in EarlySteps
    BY <1>0, <1>a, <1>5, Zenon DEF GetOrAddSource, ProcType, After
  <2> QED BY <1>b, <1>d, <2>0, <2>1, <2>2, Zenon
<1>6. CASE CompileSource
  <2>0. csv' = csv /\ summary' = summary /\ good' = good /\ runMeta' = runMeta
    BY <1>6, Zenon DEF CompileSource
  <2>1. PICK success \in BOOLEAN :
        proc' = [proc EXCEPT !.status = IF success THEN "compiled" ELSE "compile_error",
                             !.at = IF success THEN After("compile", "register") ELSE "finish"]
    BY <1>6, Zenon DEF CompileSource
  <2>2. proc' \in ProcType
    BY <1>0, <1>a, <2>1, Zenon DEF ProcType, After
  <2>3. proc.at \in EarlySteps
    BY <1>a, <1>6, Zenon DEF CompileSource
  <2>4. proc'.batch = proc.batch /\ proc'.at \in {"finish", "register"} /\ proc'.left = proc.left
    BY <1>0, <2>1, Zenon DEF ProcType, After
  <2> QED BY <1>b, <1>d, <2>0, <2>2, <2>3, <2>4, Zenon
<1>7. CASE RegisterStrategies
  <2>0. csv' = csv /\ summary' = summary /\ good' = good /\ runMeta' = runMeta
    BY <1>7, Zenon DEF RegisterStrategies
  <2>1. proc' \in ProcType
    BY <1>0, <1>a, <1>7, Zenon DEF RegisterStrategies, ProcType, After, wanted_charts
  <2>2. /\ proc'.batch = proc.batch /\ proc'.at \in {"finish", "charts"} /\ proc'.left = proc.left
        /\ proc.at \in EarlySteps
    BY <1>0, <1>a, <1>7, Zenon DEF RegisterStrategies, ProcType, After
  <2> QED BY <1>b, <1>d, <2>0, <2>1, <2>2, Zenon
<1>8. CASE ChartsDone
  <2>0. csv' = csv /\ summary' = summary /\ good' = good /\ runMeta' = runMeta
    BY <1>8, Zenon DEF ChartsDone
  <2>1. proc' \in ProcType
    BY <1>0, <1>a, <1>8, Zenon DEF ChartsDone, ProcType
  <2>2. /\ proc'.batch = proc.batch /\ proc'.at = "finish" /\ proc'.left = proc.left
        /\ proc.at \in EarlySteps
    BY <1>0, <1>a, <1>8, Zenon DEF ChartsDone, ProcType
  <2> QED BY <1>b, <1>d, <2>0, <2>1, <2>2, Zenon
<1>9. CASE FinishEntry
  <2>0. csv' = csv /\ summary' = summary /\ good' = good /\ runMeta' = runMeta
    BY <1>9, Zenon DEF FinishEntry
  <2>1. proc.at \in EarlySteps
    BY <1>a, <1>9, Zenon DEF FinishEntry
  <2>2. Entry \in Entries
    BY <1>0, <1>d, <2>1, EntryTyped, Zenon
  <2>3. Others \in SUBSET DOMAIN BatchEntries /\ Done(Entry, proc.status) \in Seq(Entries \X EntryStatuses)
    BY <1>0, <1>a, <2>2 DEF Others, Done, ProcType
  <2>4. PICK l \in {{}, Others} :
          proc' = [proc EXCEPT !.results = Done(Entry, proc.status), !.at = "entries", !.left = l]
    BY <1>9, Zenon DEF FinishEntry
  <2>5. proc' \in ProcType
    BY <1>0, <1>a, <2>3, <2>4, Zenon DEF ProcType
  <2>6. proc'.batch = proc.batch /\ proc'.at = "entries"
    BY <1>0, <2>4, Zenon DEF ProcType
  <2> QED BY <1>b, <1>d, <2>0, <2>1, <2>5, <2>6, Zenon
<1>10. CASE FinishBatch
  <2>0. csv' = csv /\ summary' = summary /\ good' = good /\ runMeta' = runMeta
    BY <1>10, Zenon DEF FinishBatch
  <2>1. ProcInv' /\ proc'.batch = proc.batch /\ proc'.at = "idle"
    BY <1>0, <1>10, IdleProc, Zenon DEF FinishBatch
  <2> QED BY <1>0, <1>a, <2>0, <2>1 DEF QuietStep
<1> QED BY <1>1, <1>2, <1>3, <1>4, <1>5, <1>6, <1>7, <1>8, <1>9, <1>10, ZenonT(40)

LEMMA QuietKeeps ==
  ASSUME BatchInv,
         \/ \E a \in BatchArgs : StartBatch(a)
         \/ SkipEntry \/ TakeEntry \/ EntryRaises \/ GetOrAddSource \/ CompileSource
         \/ RegisterStrategies \/ ChartsDone \/ FinishEntry \/ FinishBatch
  PROVE  BatchInv'
<1>1. QuietStep
  BY QuietProc, Zenon
<1>2. RecordsTold'
  BY <1>1, RecordsSame, Zenon DEF QuietStep
<1>3. strategies' \subseteq Entries \X Frames /\ pine' \in [Entries -> [row : BOOLEAN, artifact : BOOLEAN]]
  <2>0. /\ strategies \subseteq Entries \X Frames /\ pine \in [Entries -> [row : BOOLEAN, artifact : BOOLEAN]]
        /\ ProcInv
    BY Zenon DEF BatchInv, FilesTyped
  <2>1. ASSUME proc.at \in EarlySteps PROVE Entry \in Entries
    BY <2>0, <2>1, EntryTyped, Zenon DEF ProcInv
  <2>2. CASE GetOrAddSource
    <3>1. Entry \in Entries
      BY <2>1, <2>2, Zenon DEF GetOrAddSource, EarlySteps
    <3> QED BY <2>0, <2>2, <3>1, Zenon DEF GetOrAddSource
  <2>3. CASE CompileSource
    <3>1. Entry \in Entries
      BY <2>1, <2>3, Zenon DEF CompileSource, EarlySteps
    <3>2. PICK success \in BOOLEAN : pine' = [pine EXCEPT ![Entry].artifact = @ \/ success]
      BY <2>3, Zenon DEF CompileSource
    <3>3. strategies' = strategies
      BY <2>3, Zenon DEF CompileSource
    <3> DEFINE v == pine[Entry].artifact \/ success
    <3>4. v \in BOOLEAN /\ pine' = [pine EXCEPT ![Entry].artifact = v]
      BY <2>0, <3>2, Zenon
    <3> HIDE DEF v
    <3> QED BY <2>0, <3>1, <3>3, <3>4, Zenon
  <2>4. CASE RegisterStrategies
    <3>1. Entry \in Entries
      BY <2>1, <2>4, Zenon DEF RegisterStrategies, EarlySteps
    <3> QED BY <2>0, <2>4, <3>1, Zenon DEF RegisterStrategies, wanted_charts
  <2>5. CASE UNCHANGED <<strategies, pine>>
    BY <2>0, <2>5, Zenon
  <2> QED BY <2>2, <2>3, <2>4, <2>5, Zenon
      DEF StartBatch, SkipEntry, TakeEntry, EntryRaises, ChartsDone, FinishEntry, FinishBatch
<1>4. FilesTyped'
  BY <1>1, <1>3, Zenon DEF BatchInv, FilesTyped, QuietStep
<1> QED BY <1>1, <1>2, <1>4, Zenon DEF BatchInv, QuietStep

(* A step in the charts of an entry: the process stays with both.          *)
LEMMA ChartProc ==
  ASSUME ProcInv, proc.at \in ChartSteps \cup {"charts"}, proc.charts # {},
         proc' \in ProcType, proc'.batch = proc.batch, proc'.left = proc.left,
         proc'.charts = proc.charts, proc'.at \in ChartSteps
  PROVE  ProcInv' /\ Entry' = Entry /\ Chart' = Chart /\ Entry \in Entries /\ Chart \in Frames
<1>1. proc.left # {} /\ proc.batch > 0
  BY Zenon DEF ProcInv, ChartSteps, EarlySteps, Exports
<1>2. Entry \in Entries /\ Chart \in Frames
  BY <1>1, EntryTyped, ChartTyped, Zenon
<1>3. Entry' = Entry /\ Chart' = Chart
  BY Zenon DEF Entry, Chart
<1> QED BY <1>1, <1>2, <1>3, Zenon DEF ProcInv

(* The run of a chart touches no file.                                     *)
LEMMA RunKeeps ==
  ASSUME BatchInv, RunIndicator \/ RunStrategy
  PROVE  BatchInv'
<1>0. /\ ProcInv /\ proc \in ProcType /\ proc.at = "charts" /\ proc.charts # {} /\ Chart \in Frames
      /\ UNCHANGED <<pine, strategies, csv, runMeta, summary, good>>
  <2>1. ProcInv /\ proc \in ProcType
    BY Zenon DEF BatchInv, ProcInv
  <2>2. proc.at = "charts" /\ proc.charts # {} /\ UNCHANGED <<pine, strategies, csv, runMeta, summary, good>>
    BY Zenon DEF RunIndicator, RunStrategy
  <2> QED BY <2>1, <2>2, ChartTyped, Zenon
<1> DEFINE BarsType == [Frames -> {"none", "bare", "canonical"}]
<1>1. ASSUME NEW got \in {"none", "bare", "canonical"} PROVE LoadBars(got).cache \in BarsType
  <2>1. proc.bars \in BarsType
    BY <1>0, Zenon DEF ProcType
  <2> QED BY <1>0, <2>1, Zenon DEF LoadBars
<1>2. ASSUME NEW loaded, NEW works, RunWith(loaded, works)
      PROVE  \E ok \in BOOLEAN : proc' = [proc EXCEPT !.bars = loaded.cache,
                           !.outcome = IF ok THEN "ok" ELSE "run_error",
                           !.at = IF ok THEN "plots" ELSE "meta"]
  <2> DEFINE ok == loaded.usable /\ works
  <2>1. CASE ok
    BY <1>2, <2>1, Zenon DEF RunWith
  <2>2. CASE ~ok
    BY <1>2, <2>2, Zenon DEF RunWith
  <2> QED BY <2>1, <2>2, Zenon
<1>3. PICK cache \in BarsType, ok \in BOOLEAN :
        proc' = [proc EXCEPT !.bars = cache, !.outcome = IF ok THEN "ok" ELSE "run_error",
                             !.at = IF ok THEN "plots" ELSE "meta"]
  <2>1. CASE RunIndicator
    <3>1. PICK got \in {"none", "bare", "canonical"}, works \in BOOLEAN : RunWith(LoadBars(got), works)
      BY <2>1, Zenon DEF RunIndicator
    <3> QED BY <1>1, <1>2, <3>1, Zenon
  <2>2. CASE RunStrategy
    <3>1. PICK got \in {"none", "bare", "canonical"}, works \in BOOLEAN :
            RunWith([LoadBars(got) EXCEPT !.usable = @ /\ LoadBars(got).cache[Chart] = "canonical"], works)
      BY <2>2, Zenon DEF RunStrategy
    <3> DEFINE l == [LoadBars(got) EXCEPT !.usable = @ /\ LoadBars(got).cache[Chart] = "canonical"]
    <3>2. l.cache = LoadBars(got).cache
      BY Zenon DEF LoadBars
    <3> HIDE DEF l
    <3>3. RunWith(l, works)
      BY <3>1, Zenon DEF l
    <3>4. l.cache \in BarsType
      BY <1>1, <3>1, <3>2, Zenon
    <3> QED BY <1>2, <3>3, <3>4, Zenon
  <2> QED BY <2>1, <2>2, Zenon
<1>4. proc' \in ProcType
  BY <1>0, <1>3, Zenon DEF ProcType, Steps, ChartSteps, Exports
<1>5. /\ proc'.batch = proc.batch /\ proc'.left = proc.left /\ proc'.charts = proc.charts
      /\ \/ proc'.at = "plots"
         \/ proc'.at = "meta" /\ proc'.outcome = "run_error"
  BY <1>0, <1>3, Zenon DEF ProcType
<1>6. ProcInv'
  BY <1>0, <1>4, <1>5, ChartProc, Zenon DEF ChartSteps, Exports
<1>7. FilesTyped'
  BY <1>0, Zenon DEF BatchInv, FilesTyped
<1>8. ASSUME NEW e \in Entries, NEW t \in Frames
      PROVE  ChartTold(e, t, csv'[e][t], summary'[e][t], good'[e][t], proc'.batch)
  BY <1>0, <1>5, Zenon DEF BatchInv, RecordsTold
<1>9. RecordsTold'
  <2>1. CASE proc'.at = "plots"
    <3>1. Exported(proc'.at, Entry') = {}
      BY <2>1, Zenon DEF Exported
    <3> QED BY <1>8, <3>1, Zenon DEF RecordsTold
  <2>2. CASE proc'.at = "meta" /\ proc'.outcome = "run_error"
    BY <1>8, <2>2, Zenon DEF RecordsTold
  <2> QED BY <1>5, <2>1, <2>2, Zenon
<1> QED BY <1>6, <1>7, <1>9, Zenon DEF BatchInv

(* One output file is written, or cut short.                               *)
LEMMA FileWritten ==
  ASSUME FilesTyped, NEW e \in Entries, NEW t \in Frames, NEW f \in Exports, NEW v \in CsvType,
         csv' = [csv EXCEPT ![e][t][f] = v]
  PROVE  /\ csv' \in [Entries -> [Frames -> [Exports -> CsvType]]]
         /\ \A e2 \in Entries, t2 \in Frames, f2 \in Exports :
               ~(e2 = e /\ t2 = t /\ f2 = f) => csv'[e2][t2][f2] = csv[e2][t2][f2]
BY DEF FilesTyped

(* A file of the running batch is no older than any recorded run.          *)
LEMMA FileKeepsTold ==
  ASSUME BatchInv, NEW e \in Entries, NEW t \in Frames, NEW f \in Exports, NEW v \in CsvType,
         csv' = [csv EXCEPT ![e][t][f] = v], v.by = proc.batch,
         NEW e2 \in Entries, NEW t2 \in Frames
  PROVE  ChartTold(e2, t2, csv'[e2][t2], summary[e2][t2], good[e2][t2], proc.batch)
<1>0. /\ FilesTyped /\ good[e2][t2] \in Nat /\ proc.batch \in Nat
      /\ ChartTold(e2, t2, csv[e2][t2], summary[e2][t2], good[e2][t2], proc.batch)
  BY SMTT(30) DEF BatchInv, FilesTyped, RecordsTold, ProcInv, ProcType, Batches
<1>1. ASSUME good[e2][t2] > 0, NEW f2 \in expected_output_files(e2) PROVE csv'[e2][t2][f2].by >= good[e2][t2]
  <2>1. f2 \in Exports
    BY <1>1, Zenon DEF expected_output_files, Exports
  <2>2. csv[e2][t2][f2].by >= good[e2][t2]
    BY <1>0, <1>1, Zenon DEF ChartTold
  <2>3. CASE e2 = e /\ t2 = t /\ f2 = f
    <3>1. csv'[e2][t2][f2].by = v.by
      BY <1>0, <2>1, <2>3 DEF FilesTyped
    <3> QED BY <1>0, <3>1, Zenon DEF ChartTold
  <2>4. CASE ~(e2 = e /\ t2 = t /\ f2 = f)
    <3>1. csv'[e2][t2][f2] = csv[e2][t2][f2]
      BY <1>0, <2>1, <2>4, FileWritten, SMTT(30)
    <3> QED BY <2>2, <3>1, Zenon
  <2> QED BY <2>3, <2>4, Zenon
<1> QED BY <1>0, <1>1, Zenon DEF ChartTold

LEMMA ExportKeeps ==
  ASSUME BatchInv, ExportFile
  PROVE  BatchInv'
<1>0. /\ ProcInv /\ FilesTyped /\ proc \in ProcType /\ proc.at \in Exports /\ proc.at \in ChartSteps
      /\ proc.charts # {} /\ proc.left # {}
      /\ UNCHANGED <<pine, strategies, runMeta, summary, good>>
  <2>1. ProcInv /\ FilesTyped /\ proc \in ProcType
    BY Zenon DEF BatchInv, ProcInv
  <2>2. proc.at \in Exports /\ UNCHANGED <<pine, strategies, runMeta, summary, good>>
    BY Zenon DEF ExportFile
  <2>3. proc.at \in ChartSteps
    BY <2>2, Zenon DEF ChartSteps
  <2> QED BY <2>1, <2>2, <2>3, Zenon DEF ProcInv
<1>1. PICK written \in BOOLEAN :
       /\ csv' = [csv EXCEPT ![Entry][Chart][proc.at] = [by |-> proc.batch, whole |-> written]]
       /\ proc' = [proc EXCEPT !.outcome = IF written THEN @ ELSE "run_error",
                               !.at = IF written THEN NextExport[proc.at] ELSE "meta"]
  BY Zenon DEF ExportFile
<1>2. Entry \in Entries /\ Chart \in Frames
  BY <1>0, EntryTyped, ChartTyped, Zenon
<1> DEFINE v == [by |-> proc.batch, whole |-> written]
<1>3. v \in CsvType /\ v.by = proc.batch
  BY <1>0, Zenon DEF CsvType, ProcType
<1>4. /\ NextExport[proc.at] \in {"trades", "equity", "meta"}
      /\ Exported(NextExport[proc.at], Entry) \subseteq Exported(proc.at, Entry) \cup {proc.at}
  <2>1. CASE proc.at = "plots" /\ Entry \in StrategyEntries
    <3>1. NextExport[proc.at] = "trades"
      BY <2>1, SMTT(30) DEF NextExport
    <3>2. Exported("trades", Entry) = {"plots"}
      BY Zenon DEF Exported
    <3> QED BY <2>1, <3>1, <3>2, Zenon
  <2>2. CASE proc.at = "plots" /\ Entry \notin StrategyEntries
    <3>1. NextExport[proc.at] = "meta"
      BY <2>2 DEF NextExport
    <3>2. Exported("meta", Entry) = expected_output_files(Entry)
      BY Zenon DEF Exported
    <3> QED BY <2>2, <3>1, <3>2, Zenon DEF expected_output_files
  <2>3. CASE proc.at = "trades"
    <3>1. NextExport[proc.at] = "equity"
      BY <2>3 DEF NextExport
    <3>2. Exported("trades", Entry) = {"plots"} /\ Exported("equity", Entry) = {"plots", "trades"}
      BY Zenon DEF Exported
    <3> QED BY <2>3, <3>1, <3>2, Zenon
  <2>4. CASE proc.at = "equity"
    <3>1. NextExport[proc.at] = "meta"
      BY <2>4 DEF NextExport
    <3>2. Exported("meta", Entry) = expected_output_files(Entry) /\ Exported("equity", Entry) = {"plots", "trades"}
      BY Zenon DEF Exported
    <3> QED BY <2>4, <3>1, <3>2, Zenon DEF expected_output_files, Exports
  <2> QED BY <1>0, <2>1, <2>2, <2>3, <2>4, Zenon DEF Exports
<1>5. proc' \in ProcType
  BY <1>0, <1>1, <1>4, Zenon DEF ProcType, Steps, ChartSteps, Exports
<1>6. /\ proc'.batch = proc.batch /\ proc'.left = proc.left /\ proc'.charts = proc.charts
      /\ \/ proc'.at = NextExport[proc.at]
         \/ proc'.at = "meta" /\ proc'.outcome = "run_error"
  BY <1>0, <1>1, Zenon DEF ProcType
<1>7. ProcInv' /\ Entry' = Entry /\ Chart' = Chart
  BY <1>0, <1>4, <1>5, <1>6, ChartProc, Zenon DEF ChartSteps, Exports
<1>8. FilesTyped'
  <2>1. csv' \in [Entries -> [Frames -> [Exports -> CsvType]]]
    BY <1>0, <1>1, <1>2, <1>3, FileWritten, Zenon
  <2> QED BY <1>0, <2>1, Zenon DEF FilesTyped
<1>9. ASSUME NEW e \in Entries, NEW t \in Frames
      PROVE  ChartTold(e, t, csv'[e][t], summary'[e][t], good'[e][t], proc'.batch)
  <2>1. ChartTold(e, t, csv'[e][t], summary[e][t], good[e][t], proc.batch)
    BY <1>0, <1>1, <1>2, <1>3, FileKeepsTold, Zenon
  <2> QED BY <1>0, <1>6, <2>1, Zenon
<1>10. RecordsTold'
  <2>1. CASE proc'.at = NextExport[proc.at]
    <3>1. \A f \in Exported(proc.at, Entry) : csv[Entry][Chart][f].by = proc.batch
      BY <1>0, Zenon DEF BatchInv, RecordsTold, Exports
    <3>2. ASSUME NEW f \in Exported(proc'.at, Entry') PROVE csv'[Entry'][Chart'][f].by = proc'.batch
      <4>1. f \in Exported(proc.at, Entry) \cup {proc.at}
        BY <1>4, <1>7, <2>1, <3>2, Zenon
      <4>2. csv'[Entry][Chart][proc.at].by = proc.batch
        <5>1. csv' = [csv EXCEPT ![Entry][Chart][proc.at] = v]
          BY <1>1, Zenon
        <5> HIDE DEF v
        <5> QED BY <1>0, <1>2, <1>3, <5>1, SMTT(30) DEF FilesTyped
      <4>3. ASSUME f # proc.at, f \in Exports PROVE csv'[Entry][Chart][f] = csv[Entry][Chart][f]
        BY <1>0, <1>1, <1>2, <1>3, <4>3, FileWritten
      <4>4. f \in Exports
        BY <1>0, <4>1, Zenon DEF Exported, Exports, expected_output_files
      <4> HIDE DEF v
      <4> QED BY <1>3, <1>6, <1>7, <3>1, <4>1, <4>2, <4>3, <4>4, Zenon
    <3> QED BY <1>9, <3>2, Zenon DEF RecordsTold
  <2>2. CASE proc'.at = "meta" /\ proc'.outcome = "run_error"
    BY <1>9, <2>2, Zenon DEF RecordsTold
  <2> QED BY <1>6, <2>1, <2>2, Zenon
<1> QED BY <1>7, <1>8, <1>10, Zenon DEF BatchInv

LEMMA MetaKeeps ==
  ASSUME BatchInv, WriteRunMeta
  PROVE  BatchInv'
<1>0. /\ ProcInv /\ FilesTyped /\ proc \in ProcType /\ proc.at = "meta" /\ proc.at \in ChartSteps
      /\ proc.charts # {} /\ proc.left # {} /\ proc' = [proc EXCEPT !.at = "summary"]
      /\ UNCHANGED <<pine, strategies, csv, summary, good>>
  <2>1. ProcInv /\ FilesTyped /\ proc \in ProcType
    BY Zenon DEF BatchInv, ProcInv
  <2>2. /\ proc.at = "meta" /\ proc' = [proc EXCEPT !.at = "summary"]
        /\ UNCHANGED <<pine, strategies, csv, summary, good>>
    BY Zenon DEF WriteRunMeta
  <2>3. proc.at \in ChartSteps
    BY <2>2, Zenon DEF ChartSteps
  <2> QED BY <2>1, <2>2, <2>3, Zenon DEF ProcInv
<1>1. Entry \in Entries /\ Chart \in Frames
  BY <1>0, EntryTyped, ChartTyped, Zenon
<1>2. /\ proc' \in ProcType /\ proc'.batch = proc.batch /\ proc'.left = proc.left /\ proc'.charts = proc.charts
      /\ proc'.at = "summary" /\ proc'.outcome = proc.outcome
  BY <1>0, Zenon DEF ProcType, Steps, ChartSteps
<1>3. ProcInv' /\ Entry' = Entry /\ Chart' = Chart
  BY <1>0, <1>2, ChartProc, Zenon DEF ChartSteps
<1>4. FilesTyped'
  <2>1. Args.revisions \in BOOLEAN /\ proc.batch \in Batches
    BY <1>0, Zenon DEF Args, ProcType, ArgsType
  <2> DEFINE m == [by |-> proc.batch, whole |-> TRUE, valid |-> Args.revisions]
  <2>2. m \in MetaType /\ runMeta' = [runMeta EXCEPT ![Entry][Chart] = m]
    BY <2>1, Zenon DEF WriteRunMeta, MetaType
  <2> HIDE DEF m
  <2>3. runMeta' \in [Entries -> [Frames -> MetaType]]
    BY <1>0, <1>1, <2>2, Zenon DEF FilesTyped
  <2> QED BY <1>0, <2>3, Zenon DEF FilesTyped
<1>5. Exported("summary", Entry) = Exported("meta", Entry)
  BY Zenon DEF Exported
<1>6. RecordsTold'
  <2>1. \A e \in Entries, t \in Frames : ChartTold(e, t, csv'[e][t], summary'[e][t], good'[e][t], proc'.batch)
    BY <1>0, <1>2, Zenon DEF BatchInv, RecordsTold
  <2>2. ASSUME proc'.outcome = "ok", NEW f \in Exported(proc'.at, Entry')
        PROVE  csv'[Entry'][Chart'][f].by = proc'.batch
    <3>1. f \in Exported(proc.at, Entry) /\ proc.outcome = "ok"
      BY <1>0, <1>2, <1>3, <1>5, <2>2, Zenon
    <3>2. csv[Entry][Chart][f].by = proc.batch
      BY <1>0, <3>1, Zenon DEF BatchInv, RecordsTold
    <3> QED BY <1>0, <1>2, <1>3, <3>2, Zenon
  <2>3. proc'.at \in {"meta", "summary"}
    BY <1>2, Zenon
  <2> QED BY <2>1, <2>2, <2>3, Zenon DEF RecordsTold
<1> QED BY <1>3, <1>4, <1>6, Zenon DEF BatchInv

LEMMA SummaryKeeps ==
  ASSUME BatchInv, WriteSummary
  PROVE  BatchInv'
<1>0. /\ ProcInv /\ FilesTyped /\ proc \in ProcType /\ proc.at = "summary" /\ proc.at \in ChartSteps
      /\ proc.charts # {} /\ proc.left # {} /\ proc.batch > 0
      /\ UNCHANGED <<pine, strategies, csv, runMeta>>
  <2>1. ProcInv /\ FilesTyped /\ proc \in ProcType
    BY Zenon DEF BatchInv, ProcInv
  <2>2. proc.at = "summary" /\ UNCHANGED <<pine, strategies, csv, runMeta>>
    BY Zenon DEF WriteSummary
  <2>3. proc.at \in ChartSteps
    BY <2>2, Zenon DEF ChartSteps
  <2> QED BY <2>1, <2>2, <2>3, Zenon DEF ProcInv
<1>1. Entry \in Entries /\ Chart \in Frames
  BY <1>0, EntryTyped, ChartTyped, Zenon
<1> DEFINE g == IF proc.outcome = "ok" THEN proc.batch ELSE 0
           s == [by |-> proc.batch, whole |-> TRUE, status |-> proc.outcome]
<1>2. /\ summary' = [summary EXCEPT ![Entry][Chart] = s]
      /\ good' = [good EXCEPT ![Entry][Chart] = g]
      /\ proc' = [proc EXCEPT !.at = "charts", !.charts = @ \ {Chart},
                              !.runs = Append(@, <<Chart, proc.outcome>>)]
  BY Zenon DEF WriteSummary
<1>3. /\ s \in SummaryType /\ g \in Batches /\ g \in Nat
      /\ s.whole /\ s.status = "ok" => g > 0
      /\ g <= proc.batch
  BY <1>0, BatchAssumption DEF ProcType, SummaryType, Batches
<1>4. proc' \in ProcType
  <2>1. Append(proc.runs, <<Chart, proc.outcome>>) \in Seq(Frames \X {"ok", "run_error"})
    BY <1>0, <1>1 DEF ProcType
  <2> QED BY <1>0, <1>2, <2>1, Zenon DEF ProcType, Steps, EarlySteps
<1>5. proc'.batch = proc.batch /\ proc'.left = proc.left /\ proc'.at = "charts"
  BY <1>0, <1>2, Zenon DEF ProcType
<1>6. ProcInv'
  BY <1>0, <1>4, <1>5, Zenon DEF ProcInv, ChartSteps, Exports
<1>7. g > 0 => \A f \in expected_output_files(Entry) : csv[Entry][Chart][f].by = g
  <2> SUFFICES ASSUME g > 0, NEW f \in expected_output_files(Entry) PROVE csv[Entry][Chart][f].by = g
    BY Zenon
  <2>1. proc.outcome = "ok" /\ g = proc.batch
    OBVIOUS
  <2>2. f \in Exported(proc.at, Entry)
    BY <1>0, Zenon DEF Exported
  <2> QED BY <1>0, <2>1, <2>2, Zenon DEF BatchInv, RecordsTold
<1> HIDE DEF g, s
<1>8. FilesTyped'
  <2>1. summary' \in [Entries -> [Frames -> SummaryType]]
    BY <1>0, <1>1, <1>2, <1>3, Zenon DEF FilesTyped
  <2>2. good' \in [Entries -> [Frames -> Batches]]
    BY <1>0, <1>1, <1>2, <1>3, Zenon DEF FilesTyped
  <2> QED BY <1>0, <2>1, <2>2, Zenon DEF FilesTyped
<1>9. ASSUME NEW e \in Entries, NEW t \in Frames
      PROVE  ChartTold(e, t, csv'[e][t], summary'[e][t], good'[e][t], proc'.batch)
  <2>0. ChartTold(e, t, csv[e][t], summary[e][t], good[e][t], proc.batch)
    BY Zenon DEF BatchInv, RecordsTold
  <2>1. CASE e = Entry /\ t = Chart
    <3>1. summary'[e][t] = s /\ good'[e][t] = g
      BY <1>0, <1>1, <1>2, <2>1, Zenon DEF FilesTyped
    <3>2. ASSUME g > 0, NEW f \in expected_output_files(e) PROVE csv[e][t][f].by >= g
      BY <1>3, <1>7, <2>1, <3>2, SMTT(30)
    <3> QED BY <1>0, <1>3, <1>5, <3>1, <3>2, Zenon DEF ChartTold
  <2>2. CASE ~(e = Entry /\ t = Chart)
    <3>1. summary'[e][t] = summary[e][t] /\ good'[e][t] = good[e][t]
      BY <1>0, <1>1, <1>2, <2>2, Zenon DEF FilesTyped
    <3> QED BY <1>0, <1>5, <2>0, <3>1, Zenon
  <2> QED BY <2>1, <2>2, Zenon
<1>10. RecordsTold'
  BY <1>5, <1>9, Zenon DEF RecordsTold, ChartSteps, Exports
<1> QED BY <1>6, <1>8, <1>10, Zenon DEF BatchInv

(* What a kill leaves of a file.                                           *)
LEMMA CutFile ==
  ASSUME NEW b \in Batches, NEW r \in CsvType
  PROVE  /\ [r EXCEPT !.by = b, !.whole = FALSE] \in CsvType
         /\ [r EXCEPT !.by = b, !.whole = FALSE].by = b
BY Zenon DEF CsvType

LEMMA CutMeta ==
  ASSUME NEW b \in Batches, NEW r \in MetaType
  PROVE  [r EXCEPT !.by = b, !.whole = FALSE] \in MetaType
BY Zenon DEF MetaType

LEMMA CutSummary ==
  ASSUME NEW b \in Batches, NEW r \in SummaryType
  PROVE  /\ [r EXCEPT !.by = b, !.whole = FALSE] \in SummaryType
         /\ [r EXCEPT !.by = b, !.whole = FALSE].whole = FALSE
BY Zenon DEF SummaryType

(* The process is killed, and the file it was writing may be cut short.    *)
LEMMA KillKeeps ==
  ASSUME BatchInv, Killed
  PROVE  BatchInv'
<1>0. /\ ProcInv /\ FilesTyped /\ proc \in ProcType /\ proc.batch \in Batches
      /\ UNCHANGED <<pine, strategies, good>> /\ proc' = BatchIdle(proc.batch)
  <2>1. ProcInv /\ FilesTyped /\ proc \in ProcType
    BY Zenon DEF BatchInv, ProcInv
  <2>2. UNCHANGED <<pine, strategies, good>> /\ proc' = BatchIdle(proc.batch)
    BY Zenon DEF Killed
  <2> QED BY <2>1, <2>2, Zenon DEF ProcType
<1>1. ProcInv' /\ proc'.batch = proc.batch /\ proc'.at = "idle"
  BY <1>0, IdleProc, Zenon
<1>2. ASSUME proc.at \in ChartSteps PROVE Entry \in Entries /\ Chart \in Frames
  BY <1>0, <1>2, EntryTyped, ChartTyped, Zenon DEF ProcInv
<1>3. \/ csv' = csv
      \/ /\ proc.at \in Exports
         /\ csv' = [csv EXCEPT ![Entry][Chart][proc.at] = [@ EXCEPT !.by = proc.batch, !.whole = FALSE]]
  BY Zenon DEF Killed
<1>4. \/ runMeta' = runMeta
      \/ /\ proc.at = "meta"
         /\ runMeta' = [runMeta EXCEPT ![Entry][Chart] = [@ EXCEPT !.by = proc.batch, !.whole = FALSE]]
  BY Zenon DEF Killed
<1>5. \/ summary' = summary
      \/ /\ proc.at = "summary"
         /\ summary' = [summary EXCEPT ![Entry][Chart] = [@ EXCEPT !.by = proc.batch, !.whole = FALSE]]
  BY Zenon DEF Killed
<1>6. /\ csv' \in [Entries -> [Frames -> [Exports -> CsvType]]]
      /\ \A e \in Entries, t \in Frames, f \in Exports :
           csv'[e][t][f].by \in {csv[e][t][f].by, proc.batch}
  <2>0. csv \in [Entries -> [Frames -> [Exports -> CsvType]]]
    BY <1>0, Zenon DEF FilesTyped
  <2>1. CASE csv' = csv
    BY <2>0, <2>1, Zenon
  <2>2. CASE /\ proc.at \in Exports
             /\ csv' = [csv EXCEPT ![Entry][Chart][proc.at] = [@ EXCEPT !.by = proc.batch, !.whole = FALSE]]
    <3>1. Entry \in Entries /\ Chart \in Frames /\ proc.at \in Exports
      BY <1>2, <2>2, Zenon DEF ChartSteps
    <3> DEFINE v == [csv[Entry][Chart][proc.at] EXCEPT !.by = proc.batch, !.whole = FALSE]
    <3>2. v \in CsvType /\ v.by = proc.batch
      <4>1. proc.batch \in Batches /\ csv[Entry][Chart][proc.at] \in CsvType
        BY <1>0, <2>0, <3>1
      <4> QED BY <4>1, CutFile, Zenon
    <3>3. csv' = [csv EXCEPT ![Entry][Chart][proc.at] = v]
      BY <2>2, Zenon
    <3> HIDE DEF v
    <3>4. csv' \in [Entries -> [Frames -> [Exports -> CsvType]]]
      BY <2>0, <3>1, <3>2, <3>3, Zenon
    <3>5. ASSUME NEW e \in Entries, NEW t \in Frames, NEW f \in Exports
          PROVE  csv'[e][t][f].by \in {csv[e][t][f].by, proc.batch}
      BY <2>0, <3>1, <3>2, <3>3, SMTT(30)
    <3> QED BY <3>4, <3>5, Zenon
  <2> QED BY <1>3, <2>1, <2>2, Zenon
<1>7. runMeta' \in [Entries -> [Frames -> MetaType]]
  <2>0. runMeta \in [Entries -> [Frames -> MetaType]]
    BY <1>0, Zenon DEF FilesTyped
  <2>1. CASE /\ proc.at = "meta"
             /\ runMeta' = [runMeta EXCEPT ![Entry][Chart] = [@ EXCEPT !.by = proc.batch, !.whole = FALSE]]
    <3>1. Entry \in Entries /\ Chart \in Frames
      BY <1>2, <2>1, Zenon DEF ChartSteps
    <3> DEFINE v == [runMeta[Entry][Chart] EXCEPT !.by = proc.batch, !.whole = FALSE]
    <3>2. v \in MetaType
      <4>1. proc.batch \in Batches /\ runMeta[Entry][Chart] \in MetaType
        BY <1>0, <2>0, <3>1, Zenon
      <4> QED BY <4>1, CutMeta, Zenon
    <3>3. runMeta' = [runMeta EXCEPT ![Entry][Chart] = v]
      BY <2>1, Zenon
    <3> HIDE DEF v
    <3> QED BY <2>0, <3>1, <3>2, <3>3, Zenon
  <2> QED BY <1>4, <2>0, <2>1, Zenon
<1>8. /\ summary' \in [Entries -> [Frames -> SummaryType]]
      /\ \A e \in Entries, t \in Frames :
           summary'[e][t].whole => summary'[e][t] = summary[e][t]
  <2>0. summary \in [Entries -> [Frames -> SummaryType]]
    BY <1>0, Zenon DEF FilesTyped
  <2>1. CASE /\ proc.at = "summary"
             /\ summary' = [summary EXCEPT ![Entry][Chart] = [@ EXCEPT !.by = proc.batch, !.whole = FALSE]]
    <3>1. Entry \in Entries /\ Chart \in Frames
      BY <1>2, <2>1, Zenon DEF ChartSteps
    <3> DEFINE v == [summary[Entry][Chart] EXCEPT !.by = proc.batch, !.whole = FALSE]
    <3>2. v \in SummaryType /\ ~v.whole
      <4>1. proc.batch \in Batches /\ summary[Entry][Chart] \in SummaryType
        BY <1>0, <2>0, <3>1, Zenon
      <4> QED BY <4>1, CutSummary, Zenon
    <3>3. summary' = [summary EXCEPT ![Entry][Chart] = v]
      BY <2>1, Zenon
    <3> HIDE DEF v
    <3> QED BY <2>0, <3>1, <3>2, <3>3, Zenon
  <2> QED BY <1>5, <2>0, <2>1, Zenon
<1>9. FilesTyped'
  BY <1>0, <1>6, <1>7, <1>8, Zenon DEF FilesTyped
<1>10. ASSUME NEW e \in Entries, NEW t \in Frames
       PROVE  ChartTold(e, t, csv'[e][t], summary'[e][t], good'[e][t], proc'.batch)
  <2>1. /\ ChartTold(e, t, csv[e][t], summary[e][t], good[e][t], proc.batch)
        /\ good'[e][t] = good[e][t] /\ good[e][t] \in Nat /\ proc.batch \in Nat
    BY <1>0, BatchAssumption DEF BatchInv, RecordsTold, FilesTyped, Batches
  <2>2. ASSUME good[e][t] > 0, NEW f \in expected_output_files(e) PROVE csv'[e][t][f].by >= good[e][t]
    <3>1. csv[e][t][f].by >= good[e][t] /\ proc.batch >= good[e][t]
      BY <2>1, <2>2, Zenon DEF ChartTold
    <3>2. f \in Exports
      BY <2>2, Zenon DEF expected_output_files, Exports
    <3>3. csv'[e][t][f].by \in {csv[e][t][f].by, proc.batch}
      BY <1>6, <3>2, Zenon
    <3> QED BY <3>1, <3>3, Zenon
  <2>3. summary'[e][t].whole /\ summary'[e][t].status = "ok" => good[e][t] > 0
    BY <1>8, <2>1, Zenon DEF ChartTold
  <2> QED BY <1>1, <2>1, <2>2, <2>3, Zenon DEF ChartTold
<1>11. RecordsTold'
  BY <1>1, <1>10, Zenon DEF RecordsTold, ChartSteps, Exports
<1> QED BY <1>1, <1>9, <1>11, Zenon DEF BatchInv

(* Whatever batches are run and killed, the records on disk tell what      *)
(* happened: a summary that reads "ok" is of a run recorded ok, and no     *)
(* expected output of a chart is older than its last recorded run          *)
(* (batch/runner.py).                                                      *)
THEOREM BatchInductive == BatchSpec => []BatchInv
<1>1. BatchInv /\ [BatchNext]_batchVars => BatchInv'
  <2> SUFFICES ASSUME BatchInv, [BatchNext]_batchVars PROVE BatchInv'
    BY Zenon
  <2>1. CASE UNCHANGED batchVars
    <3>1. ProcInv'
      BY <2>1, Zenon DEF BatchInv, ProcInv, batchVars
    <3>2. FilesTyped'
      BY <2>1, Zenon DEF BatchInv, FilesTyped, batchVars
    <3>3. RecordsTold'
      BY <2>1, Zenon DEF BatchInv, RecordsTold, batchVars, Entry, Chart
    <3> QED BY <3>1, <3>2, <3>3, Zenon DEF BatchInv
  <2> QED BY <2>1, QuietKeeps, RunKeeps, ExportKeeps, MetaKeeps, SummaryKeeps, KillKeeps, Zenon DEF BatchNext
<1> QED BY <1>1, BatchStarts, PTL DEF BatchSpec

(* For any manifest, timeframes, command lines, failures and kills, what   *)
(* completed_for_selection lets a later batch skip was completed: the last *)
(* recorded run of every wanted chart ended ok and no expected output is   *)
(* older than it.                                                          *)
THEOREM BatchSkipsCompleted == BatchSpec => []SkippedWasCompleted
<1>1. BatchInv => SkippedWasCompleted
  <2> SUFFICES ASSUME BatchInv PROVE SkippedWasCompleted
    BY Zenon
  <2>1. BatchTypeOK
    <3>1. \A e \in Entries, t \in Frames :
             /\ runMeta[e][t].by \in 0..MaxBatches /\ summary[e][t].by \in 0..MaxBatches
             /\ good[e][t] \in 0..MaxBatches
      BY DEF BatchInv, FilesTyped, MetaType, SummaryType, Batches
    <3>2. proc.batch \in 0..MaxBatches /\ proc.args \in ArgsType
      BY Zenon DEF BatchInv, ProcInv, ProcType, Batches
    <3> QED BY <3>1, <3>2, Zenon DEF BatchInv, FilesTyped, BatchTypeOK
  <2>2. ASSUME proc.left # {}, Args.phase = "run", completed_for_selection(Entry, Args),
               NEW t \in wanted_charts(Args)
        PROVE  /\ good[Entry][t] > 0
               /\ \A f \in expected_output_files(Entry) : csv[Entry][t][f].by >= good[Entry][t]
    <3>1. Entry \in Entries /\ t \in Frames
      BY <2>2, EntryTyped, Zenon DEF BatchInv, wanted_charts
    <3>2. run_summary_valid(Entry, t)
      BY <2>2, Zenon DEF completed_for_selection
    <3>3. ChartTold(Entry, t, csv[Entry][t], summary[Entry][t], good[Entry][t], proc.batch)
      BY <3>1, Zenon DEF BatchInv, RecordsTold
    <3> QED BY <3>2, <3>3, Zenon DEF run_summary_valid, ChartTold
  <2> QED BY <2>1, <2>2, Zenon DEF SkippedWasCompleted
<1> QED BY <1>1, BatchInductive, PTL
=============================================================================
