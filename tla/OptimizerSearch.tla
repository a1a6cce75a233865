---------------------------- MODULE OptimizerSearch ----------------------------
(***************************************************************************)
(* POST /optimizer/search (gateway/routes/optimizer.py) with its adapter   *)
(* and the runner of the trials (openpine/optimizer): once its run is      *)
(* admitted, a search gets a durable job with a lease of one hour that is  *)
(* never renewed, runs its trials, each under an identity of its own, and  *)
(* ends the job when the library returns or raises.  The library chooses   *)
(* the parameters of the trials and recommends one of them.                *)
(***************************************************************************)
EXTENDS RunAdmission

CONSTANTS TrialCounts   \* the trials a request may ask for

VARIABLES search,   \* gateway -> [at, trials, tried, completed, result]
          job,      \* run id -> state of the search's job
          trialIds, \* identities of trials: <<run id, trial, snapshot>>
          replied   \* run id -> what its search was answered with

searchVars == <<search, job, trialIds, replied>>
optimizerVars == <<admissionVars, searchVars>>

NoSearch == [at |-> "none", trials |-> 0, tried |-> 0, completed |-> 0, result |-> "none"]

OptimizerTypeOK ==
  /\ AdmissionTypeOK
  /\ \A e \in Gateways : search[e].at \in {"none", "queued", "trials", "done"} /\ search[e].completed <= search[e].tried
  /\ job \in [RunIds -> {"none", "queued", "running", "lapsed", "cancelled", "succeeded", "failed"}]

OptimizerInit ==
  /\ AdmissionInit
  /\ search = [e \in Gateways |-> NoSearch] /\ job = [r \in RunIds |-> "none"]
  /\ trialIds = {} /\ replied = [r \in RunIds |-> "none"]

\* The handler returns or raises: the gateway is ready for the next request.
Answer(e, what) ==
  /\ replied' = [replied EXCEPT ![ex[e].run] = what]
  /\ search' = [search EXCEPT ![e] = NoSearch]
  /\ Refuse(e)
  /\ UNCHANGED outside

\* persist_gateway_job: the id is new; the store may fail.
CreateJob(e, n) ==
  /\ ex[e].at = "running" /\ search[e].at = "none"
  /\ job[ex[e].run] = "none" /\ replied[ex[e].run] = "none"
  /\ \/ /\ job' = [job EXCEPT ![ex[e].run] = "queued"]
        /\ search' = [search EXCEPT ![e] = [NoSearch EXCEPT !.at = "queued", !.trials = n]]
        /\ UNCHANGED <<admissionVars, replied>>
     \/ Answer(e, "503") /\ UNCHANGED job
  /\ UNCHANGED trialIds

MarkSearchRunning(e) ==
  /\ search[e].at = "queued"
  /\ IF job[ex[e].run] = "queued"
     THEN /\ job' = [job EXCEPT ![ex[e].run] = "running"]
          /\ search' = [search EXCEPT ![e].at = "trials"]
          /\ UNCHANGED <<admissionVars, replied>>
     ELSE Answer(e, "503") /\ UNCHANGED job
  /\ UNCHANGED trialIds

\* IsolatedOptimizerRunner.__call__: the bars are hashed again, the trial's identity is
\* published, and the trial completes or is recorded as failed.
RunTrial(e) ==
  /\ search[e].at = "trials" /\ search[e].tried < search[e].trials
  /\ ex[e].data = ex[e].payload.data
  /\ trialIds' = trialIds \cup {<<ex[e].run, search[e].tried + 1, ex[e].data>>}
  /\ \E ok \in {0, 1} : search' = [search EXCEPT ![e].tried = @ + 1, ![e].completed = @ + ok]
  /\ UNCHANGED <<admissionVars, job, replied>>

\* _run_local_optimizer and _normalize_optimizer_result: a failed result for a request
\* without trials, a library that is missing or raises, and a search without a completed
\* trial that the library recommends.
OptimizerReturns(e) ==
  /\ search[e].at = "trials"
  /\ \/ search[e].tried = search[e].trials /\ search[e].completed > 0
        /\ search' = [search EXCEPT ![e].at = "done", ![e].result = "completed"]
     \/ search' = [search EXCEPT ![e].at = "done", ![e].result = "failed"]
  /\ UNCHANGED <<admissionVars, job, trialIds, replied>>

\* _terminalize_optimizer_job: a store that refuses is only logged.
Terminalize(e) ==
  /\ search[e].at = "done"
  /\ job' = IF job[ex[e].run] # "running" THEN job
            ELSE [job EXCEPT ![ex[e].run] = IF search[e].result = "completed" THEN "succeeded" ELSE "failed"]
  /\ Answer(e, search[e].result)
  /\ UNCHANGED trialIds

\* The adapter raises: the job is failed first, and a store that refuses is a 503.
SearchRaises(e) ==
  /\ search[e].at = "trials"
  /\ IF job[ex[e].run] = "running"
     THEN job' = [job EXCEPT ![ex[e].run] = "failed"] /\ Answer(e, "500")
     ELSE Answer(e, "503") /\ UNCHANGED job
  /\ UNCHANGED trialIds

\* The hour passes; a user cancels the job.
LeaseLapses(r) == job[r] = "running" /\ job' = [job EXCEPT ![r] = "lapsed"] /\ UNCHANGED <<admissionVars, search, trialIds, replied>>
CancelJob(r) == job[r] \in {"queued", "running"} /\ job' = [job EXCEPT ![r] = "cancelled"] /\ UNCHANGED <<admissionVars, search, trialIds, replied>>

SearchCrash(e) == ExecutorDies(e) /\ search' = [search EXCEPT ![e] = NoSearch] /\ UNCHANGED <<job, trialIds, replied>>

OptimizerNext ==
  \/ AdmissionNext /\ (\A e \in Gateways : search[e].at # "none" => ex'[e] = ex[e]) /\ UNCHANGED searchVars
  \/ \E e \in Gateways :
       \/ MarkSearchRunning(e) \/ RunTrial(e) \/ OptimizerReturns(e) \/ Terminalize(e) \/ SearchRaises(e) \/ SearchCrash(e)
       \/ \E n \in TrialCounts : CreateJob(e, n)
  \/ \E r \in RunIds : LeaseLapses(r) \/ CancelJob(r)

OptimizerSpec == OptimizerInit /\ [][OptimizerNext]_optimizerVars

-----------------------------------------------------------------------------
\* The answer of a search agrees with its durable job unless the lease lapsed or the job
\* was cancelled: "completed" with a succeeded job and a trial that ran under its own
\* identity, any other end with a failed one; none leaves the job running.
SearchMatchesJob ==
  \A r \in RunIds :
    LET lost == job[r] \in {"lapsed", "cancelled"}
    IN  /\ replied[r] = "completed" => (lost \/ job[r] = "succeeded") /\ \E t \in trialIds : t[1] = r /\ t[3] = ident[r].data
        /\ replied[r] \in {"failed", "500"} => lost \/ job[r] = "failed"
        /\ replied[r] = "503" => lost \/ job[r] = "none"

\* What is executed is what was published: runs and the trials of a search execute under
\* the identity on disk (persist_run_identity), and a search answers what its durable job
\* says (run_optimizer).
RunsAsPublished == OptimizerTypeOK /\ ExecutesAsPublished /\ SearchMatchesJob

=============================================================================
