----------------------------- MODULE RunAdmission -----------------------------
(***************************************************************************)
(* Admission of a run (openpine/admission.py, openpine/run_identity.py):   *)
(* a process loads the deployment manifest, checks it against the wheels   *)
(* and the installed packages, binds a run to its artifact and bars and    *)
(* publishes the run's identity before it executes anything.  A stack      *)
(* stands for a candidate manifest with its wheels, schemas and commits;   *)
(* an operator may exchange manifest, wheels and packages at any time.     *)
(***************************************************************************)
EXTENDS Integers, FiniteSets

CONSTANTS Stacks,       \* candidate manifests
          Gateways,     \* executors that load the manifest once, at their start
          Clis,         \* executors that load it for every run
          RunIds,
          Profiles,     \* semantic profiles of strategies; the admitted ones are:
          AdmittedProfiles,
          MaxChanges, MaxClock   \* bounds: changes by the operator, the clock

VARIABLES manifest,   \* the manifest file: [stack, sound]
          wheelhouse, installed,   \* the stacks of the wheels and of the installed packages
          runArtifact,   \* the strategy's artifact: [stack, sealed]
          data,       \* version of the stored bars
          changes,    \* operator steps so far
          clock,
          ident,      \* run id -> published identity, or NoIdentity
          ex          \* executor -> its state

outside == <<manifest, wheelhouse, installed, runArtifact, data, changes, clock, ident>>
admissionVars == <<manifest, wheelhouse, installed, runArtifact, data, changes, clock, ident, ex>>

Executors == Gateways \cup Clis
Absent == "none"
NoIdentity == [stack |-> Absent, art |-> Absent, data |-> 0, profile |-> Absent, at |-> 0]
Identities == [stack : Stacks \cup {Absent}, art : Stacks \cup {Absent}, data : Nat, profile : Profiles \cup {Absent}, at : Nat]

\* build is the stack of the code the process runs, deployment and admitted are what it
\* has read of the manifest, art and data what it has loaded for the run.
NoRunArtifact == [stack |-> Absent, sealed |-> FALSE]
Fresh(b) == [at |-> "off", build |-> b, deployment |-> Absent, admitted |-> Absent, run |-> Absent,
             art |-> NoRunArtifact, data |-> 0, profile |-> Absent, payload |-> NoIdentity]

\* What a process reads, in order: the gateway reads the deployment at its start
\* (GatewayState), a command after the inputs of its run (_bind_cli_isolated_config).
Readings == {"manifest", "deployment", "artifact", "bars"}
ReadingAfter(e, what) ==
  IF e \in Gateways
  THEN [manifest |-> "deployment", deployment |-> "ready", artifact |-> "bars", bars |-> "loaded"][what]
  ELSE [bars |-> "artifact", artifact |-> "deployment", deployment |-> "manifest", manifest |-> "loaded"][what]

AdmissionTypeOK ==
  /\ manifest \in [stack : Stacks, sound : BOOLEAN] /\ wheelhouse \in Stacks /\ installed \in Stacks
  /\ runArtifact \in [stack : Stacks, sealed : BOOLEAN]
  /\ ident \in [RunIds -> Identities]
  /\ \A e \in Executors : ex[e].at \in Readings \cup {"off", "ready", "loaded", "read", "writing", "link", "compare", "published", "running"}

\* Stack and artifact may be of different versions: an upgrade may be under way.
AdmissionInit ==
    /\ manifest \in [stack : Stacks, sound : {TRUE}] /\ wheelhouse \in Stacks /\ installed \in Stacks
    /\ runArtifact \in [stack : Stacks, sealed : {TRUE}]
    /\ data = 1 /\ changes = 0 /\ clock = 0
    /\ ident = [r \in RunIds |-> NoIdentity]
    /\ ex = [e \in Executors |-> Fresh(installed)]

-----------------------------------------------------------------------------
(* The operator and the clock.                                             *)

OperatorChanges ==
  /\ changes < MaxChanges /\ changes' = changes + 1
  /\ \/ \E s \in Stacks, b \in BOOLEAN : manifest' = [stack |-> s, sound |-> b] /\ UNCHANGED <<wheelhouse, installed, runArtifact, data>>
     \/ \E s \in Stacks : wheelhouse' = s /\ UNCHANGED <<manifest, installed, runArtifact, data>>
     \/ \E s \in Stacks : installed' = s /\ UNCHANGED <<manifest, wheelhouse, runArtifact, data>>
     \/ runArtifact' = [stack |-> installed, sealed |-> TRUE] /\ UNCHANGED <<manifest, wheelhouse, installed, data>>
     \/ runArtifact' = [runArtifact EXCEPT !.sealed = FALSE] /\ UNCHANGED <<manifest, wheelhouse, installed, data>>
     \/ data' = data + 1 /\ UNCHANGED <<manifest, wheelhouse, installed, runArtifact>>
  /\ UNCHANGED <<clock, ident, ex>>

ClockTicks == clock < MaxClock /\ clock' = clock + 1
              /\ UNCHANGED <<manifest, wheelhouse, installed, runArtifact, data, changes, ident, ex>>

\* A process ends; a temporary file of its own name may stay, which nothing reads.
ExecutorDies(e) ==
  /\ ex[e].at # "off"
  /\ ex' = [ex EXCEPT ![e] = Fresh(installed)]
  /\ UNCHANGED outside

-----------------------------------------------------------------------------
(* Reading the deployment and the inputs of a run.                         *)

\* The run fails with an AdmitError: a gateway goes on, a command ends.
Refuse(e) ==
  ex' = [ex EXCEPT ![e] = IF e \in Gateways
                          THEN [Fresh(ex[e].build) EXCEPT !.at = "ready", !.deployment = ex[e].deployment, !.admitted = ex[e].admitted]
                          ELSE Fresh(installed)]

StartGateway(e) ==
  /\ ex[e].at = "off"
  /\ ex' = [ex EXCEPT ![e] = [Fresh(installed) EXCEPT !.at = "manifest"]]
  /\ UNCHANGED outside

\* A request for a run, or a command.
BeginRun(e, r, profile) ==
  /\ ex[e].at = IF e \in Gateways THEN "ready" ELSE "off"
  /\ ex' = [ex EXCEPT ![e] = [(IF e \in Gateways THEN @ ELSE Fresh(installed)) EXCEPT
                !.at = IF e \in Gateways THEN "artifact" ELSE "bars", !.run = r, !.profile = profile]]
  /\ UNCHANGED outside

\* load_admitted_manifest: the hash field is taken as it stands.
LoadAdmitted(e) ==
  /\ ex[e].at = "manifest"
  /\ ex' = [ex EXCEPT ![e].at = ReadingAfter(e, "manifest"), ![e].admitted = manifest.stack]
  /\ UNCHANGED outside

\* The stack a candidate manifest names; Absent where the code raises.
deployment_identity_from_candidate(m) == IF m.sound THEN m.stack ELSE Absent
installed_contract_schema_hashes == installed

\* load_active_deployment_identity: the manifest is read and must be sound, its wheels
\* present and the installed packages and schemas the ones it names.
LoadDeployment(e) ==
  LET d == deployment_identity_from_candidate(manifest)
  IN  /\ ex[e].at = "deployment"
      /\ ex' = IF d # Absent /\ wheelhouse = d /\ installed_contract_schema_hashes = d
               THEN [ex EXCEPT ![e].at = ReadingAfter(e, "deployment"), ![e].deployment = d]
               ELSE [ex EXCEPT ![e] = Fresh(installed)]
      /\ UNCHANGED outside

\* verified_generated_source and generated_artifact_hash.
LoadArtifact(e) ==
  /\ ex[e].at = "artifact"
  /\ IF runArtifact.sealed THEN ex' = [ex EXCEPT ![e].at = ReadingAfter(e, "artifact"), ![e].art = runArtifact] ELSE Refuse(e)
  /\ UNCHANGED outside

\* The bars, which execution_data_snapshot_hash identifies, or none.
LoadRunBars(e) ==
  /\ ex[e].at = "bars"
  /\ ex' = [ex EXCEPT ![e].at = ReadingAfter(e, "bars"), ![e].data = data] \/ Refuse(e)
  /\ UNCHANGED outside

-----------------------------------------------------------------------------
(* The identity of the run.                                                *)

\* admit_run's policies.
PolicyAdmits(x) == x.profile \in AdmittedProfiles

\* Mutant: the code that runs is not compared with the manifest.
RunAdmissible_AnyBuild(x) == x.admitted = x.deployment /\ PolicyAdmits(x)

RunAdmissible(x) == x.admitted = x.deployment /\ PolicyAdmits(x) /\ x.build = x.admitted

run_payload(x) == [stack |-> x.deployment, art |-> x.art.stack, data |-> x.data, profile |-> x.profile, at |-> clock]

\* admit_and_persist_run_identity up to the persistence.
AdmitRun(e) ==
  /\ ex[e].at = "loaded"
  /\ IF RunAdmissible(ex[e])
     THEN ex' = [ex EXCEPT ![e].at = "read", ![e].payload = run_payload(ex[e])]
     ELSE Refuse(e)
  /\ UNCHANGED outside

\* The directory cannot be created or opened, or a file of it cannot be read or written.
IdentityFails(e) ==
  /\ ex[e].at \in {"read", "writing", "compare"}
  /\ Refuse(e)
  /\ UNCHANGED outside

\* persist_run_identity: an existing file must hold the same bytes.
ReadExisting(e) ==
  /\ ex[e].at = "read"
  /\ IF ident[ex[e].run] = NoIdentity THEN ex' = [ex EXCEPT ![e].at = "writing"] ELSE ex' = [ex EXCEPT ![e].at = "compare"]
  /\ UNCHANGED outside

WriteTemp(e) ==
  /\ ex[e].at = "writing"
  /\ ex' = [ex EXCEPT ![e].at = "link"]
  /\ UNCHANGED outside

\* os.link fails when the name exists; the temporary file is unlinked in any case.
Link(e) ==
  /\ ex[e].at = "link"
  /\ IF ident[ex[e].run] = NoIdentity
     THEN ident' = [ident EXCEPT ![ex[e].run] = ex[e].payload] /\ ex' = [ex EXCEPT ![e].at = "published"]
     ELSE ex' = [ex EXCEPT ![e].at = "compare"] /\ UNCHANGED ident
  /\ UNCHANGED <<manifest, wheelhouse, installed, runArtifact, data, changes, clock>>

\* require_existing_match.
Compare(e) ==
  /\ ex[e].at = "compare"
  /\ IF ident[ex[e].run] = ex[e].payload THEN ex' = [ex EXCEPT ![e].at = "published"] ELSE Refuse(e)
  /\ UNCHANGED outside

\* Mutant: a run that is refused after its publication takes its identity back.
BuildContext_Withdraws(e) ==
  /\ ex[e].at = "published"
  /\ IF ex[e].admitted = ex[e].deployment /\ ex[e].art.stack = ex[e].admitted
     THEN ex' = [ex EXCEPT ![e].at = "running"] /\ UNCHANGED ident
     ELSE Refuse(e) /\ ident' = [ident EXCEPT ![ex[e].run] = NoIdentity]
  /\ UNCHANGED <<manifest, wheelhouse, installed, runArtifact, data, changes, clock>>

\* execution_context_from_admission: the artifact's producers are the stack's commits.
BuildContext(e) ==
  /\ ex[e].at = "published"
  /\ IF ex[e].admitted = ex[e].deployment /\ ex[e].art.stack = ex[e].admitted
     THEN ex' = [ex EXCEPT ![e].at = "running"]
     ELSE Refuse(e)
  /\ UNCHANGED outside

FinishRun(e) ==
  /\ ex[e].at = "running"
  /\ Refuse(e)
  /\ UNCHANGED outside

AdmissionNext ==
  \/ OperatorChanges \/ ClockTicks
  \/ \E e \in Executors :
       \/ ExecutorDies(e) \/ LoadAdmitted(e) \/ LoadDeployment(e) \/ LoadArtifact(e) \/ LoadRunBars(e)
       \/ AdmitRun(e) \/ IdentityFails(e) \/ ReadExisting(e) \/ WriteTemp(e) \/ Link(e) \/ Compare(e)
       \/ BuildContext(e) \/ FinishRun(e)
       \/ \E r \in RunIds, p \in Profiles : BeginRun(e, r, p)
  \/ \E e \in Gateways : StartGateway(e)

AdmissionSpec == AdmissionInit /\ [][AdmissionNext]_admissionVars

-----------------------------------------------------------------------------
\* persist_run_identity "Durably publish immutable identity bytes": a published identity
\* never changes, although processes publish the same run id concurrently and crash.
IdentityIsImmutable == [][\A r \in RunIds : ident[r] # NoIdentity => ident'[r] = ident[r]]_admissionVars

\* Whatever executes does so under a published identity that names the stack whose code
\* runs, the stack its artifact was produced by, and the bars and profile it uses, however
\* manifest, wheels, packages, artifact and bars are exchanged meanwhile.
ExecutesAsPublished ==
  \A e \in Executors :
    ex[e].at = "running" =>
      /\ ident[ex[e].run] = ex[e].payload
      /\ ident[ex[e].run].stack = ex[e].build /\ ident[ex[e].run].art = ex[e].build
      /\ ident[ex[e].run].data = ex[e].data /\ ident[ex[e].run].profile \in AdmittedProfiles

=============================================================================
