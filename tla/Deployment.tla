----------------------------- MODULE Deployment -----------------------------
(***************************************************************************)
(* PipelineController.deploy (orchestration/controller.py) with            *)
(* orchestration.cleanup_on_failure on: one execution from its training    *)
(* container to its deployment manifest.  The serving and gateway phases   *)
(* take part as the promises ServingPromise and GatewayPromise, which      *)
(* ServingLaunch and GatewayRegistration are shown to keep.                *)
(*                                                                         *)
(* The trainer runs beside the controller, LiteLLM may act on requests     *)
(* after their call, every docker command may fail with or without having  *)
(* had its effect, and the controller process may be killed between any    *)
(* two steps.                                                              *)
(***************************************************************************)

CONSTANTS
  GatewayEnabled  \* gateway.enabled

ASSUME ConstantsAssumption == GatewayEnabled \in BOOLEAN

VARIABLES
  (* the Docker host *)
  trainer,          \* the training container
  exit,             \* its exit status
  container,        \* the serving container (ServingPromise)
  (* LiteLLM *)
  routes,           \* registrations of this run (GatewayPromise)
  (* files of the execution and of the run *)
  descriptor,       \* training_result.json, written by the worker
  ownership,        \* ownership.json
  phases,           \* metadata.json, "phases"
  manifest,         \* deployment_manifest.json
  (* the controller's memory *)
  pc,
  alive,            \* FALSE once the controller process was killed
  waited,           \* exit_code
  servingOutcome,   \* how start_and_verify ended (ServingPromise)
  gatewayOutcome,   \* how register_and_verify ended (GatewayPromise)
  rolledBack,       \* serving_rolled_back
  writeFault        \* a write to the run directory has failed (history)

trainerVars == <<trainer, exit, descriptor>>
servingVars == <<servingOutcome, container>>
gatewayVars == <<gatewayOutcome, routes>>
files == <<ownership, phases, manifest>>
control == <<pc, alive, waited, rolledBack, writeFault>>
vars == <<trainerVars, servingVars, gatewayVars, files, control>>

Serving == INSTANCE ServingPromise WITH outcome <- servingOutcome
Gateway == INSTANCE GatewayPromise WITH outcome <- gatewayOutcome

Phase == {"training", "serving", "gateway"}

NoManifest == [status |-> "missing", serving |-> "missing", gateway |-> "missing"]

-----------------------------------------------------------------------------
Init ==
  /\ trainer = "absent" /\ exit = "none"
  /\ descriptor = "missing"
  /\ Serving!PromiseInit
  /\ Gateway!PromiseInit
  /\ ownership = "missing"
  /\ phases = [p \in Phase |-> "none"]
  /\ manifest = NoManifest
  /\ pc = "plan" /\ alive = TRUE
  /\ waited = "none" /\ rolledBack = FALSE /\ writeFault = FALSE

-----------------------------------------------------------------------------
(* The training container (orchestration/training_worker.py) *)

\* run_worker writes its descriptor once execute_training has returned or
\* raised.
WorkerReports ==
  /\ trainer = "running" /\ descriptor = "missing"
  /\ descriptor' \in {"success", "failed"}
  /\ UNCHANGED <<trainer, exit, servingVars, gatewayVars, files, control>>

\* Exit status 0 follows a successful report only; the worker may be killed
\* before or after it reports.
TrainerExits ==
  /\ trainer = "running"
  /\ trainer' = "exited"
  /\ \/ exit' = "nonzero"
     \/ descriptor = "success" /\ exit' = "zero"
  /\ UNCHANGED <<descriptor, servingVars, gatewayVars, files, control>>

-----------------------------------------------------------------------------
(* Steps of the controller *)

At(label) == alive /\ pc = label
Goto(label) == pc' = label /\ UNCHANGED <<alive, waited, rolledBack, writeFault>>

\* deploy raises.
Fail == Goto("failed")

\* A write to the run directory fails and control goes elsewhere.
WriteFails(file, label) ==
  /\ UNCHANGED file
  /\ writeFault' = TRUE
  /\ pc' = label
  /\ UNCHANGED <<alive, waited, rolledBack>>

RecordPhase(p, s) == phases' = [phases EXCEPT ![p] = s]

\* Execution directory, worker config and the planned ownership record.
Plan ==
  /\ At("plan")
  /\ \/ ownership' = "planned" /\ Goto("create")
     \/ UNCHANGED ownership /\ Fail
  /\ UNCHANGED <<trainerVars, servingVars, gatewayVars, phases, manifest>>

\* docker container create: it answers with an id, fails with or without
\* having created the container, or cannot be executed at all.
Create ==
  /\ At("create")
  /\ \/ trainer' = "created" /\ Goto("own")
     \/ trainer' \in {"absent", "created"} /\ Goto("remove_planned")
     \/ UNCHANGED trainer /\ Fail
  /\ UNCHANGED <<exit, descriptor, servingVars, gatewayVars, files>>

\* _remove_planned_training_if_owned (rm --force), then the error.
RemovePlanned ==
  /\ At("remove_planned")
  /\ trainer' \in {trainer, "absent"}
  /\ Fail
  /\ UNCHANGED <<exit, descriptor, servingVars, gatewayVars, files>>

\* Mutant: the container is started before its id is persisted.
RecordOwnershipLate ==
  /\ At("own")
  /\ Goto("start")
  /\ ownership' \in {"planned", "created"}
  /\ UNCHANGED <<trainerVars, servingVars, gatewayVars, phases, manifest>>

RecordOwnership ==
  /\ At("own")
  /\ \/ ownership' = "created" /\ Goto("start")
     \/ WriteFails(ownership, "remove")
  /\ UNCHANGED <<trainerVars, servingVars, gatewayVars, phases, manifest>>

Start ==
  /\ At("start")
  /\ \/ trainer' = "running" /\ Goto("wait")
     \/ trainer' \in {"created", "running"} /\ Goto("remove")
  /\ UNCHANGED <<exit, descriptor, servingVars, gatewayVars, files>>

\* Mutant: a trainer that failed is waited for again.
WaitForSuccess ==
  /\ At("wait")
  /\ trainer = "exited" /\ exit = "zero" /\ waited' = "zero"
  /\ pc' = "remove"
  /\ UNCHANGED <<alive, rolledBack, writeFault, trainerVars, servingVars, gatewayVars, files>>

\* docker logs --follow and docker wait; either may fail while the trainer
\* still runs.
Wait ==
  /\ At("wait")
  /\ \/ trainer = "exited" /\ waited' = exit
     \/ waited' = "nonzero"
  /\ pc' = "remove"
  /\ UNCHANGED <<alive, rolledBack, writeFault, trainerVars, servingVars, gatewayVars, files>>

AfterTraining == IF waited = "zero" THEN Goto("result") ELSE Fail

\* Mutant: an ownership check that fails does not stop the deployment.
RemoveTrainerLenient ==
  /\ At("remove")
  /\ trainer' \in IF trainer = "running" THEN {trainer} ELSE {trainer, "absent"}
  /\ AfterTraining
  /\ UNCHANGED <<exit, descriptor, servingVars, gatewayVars, files>>

\* The finally clause, _remove_training_if_owned: inspect, then rm without
\* --force, which refuses a running container; every failure raises.
RemoveTrainer ==
  /\ At("remove")
  /\ \/ trainer \in {"created", "exited"} /\ trainer' = "absent" /\ AfterTraining
     \/ trainer' \in (IF trainer = "running" THEN {trainer} ELSE {trainer, "absent"}) /\ Fail
  /\ UNCHANGED <<exit, descriptor, servingVars, gatewayVars, files>>

\* The result descriptor and the metadata it points to.
CheckResult ==
  /\ At("result")
  /\ \/ descriptor = "success" /\ Goto("training")
     \/ Fail
  /\ UNCHANGED <<trainerVars, servingVars, gatewayVars, files>>

\* The training phase is recorded, then the artifacts are validated again
\* and the serving and gateway configurations resolved.
RecordTraining ==
  /\ At("training")
  /\ \/ RecordPhase("training", "success") /\ (Goto("serving_starting") \/ Fail)
     \/ WriteFails(phases, "failed")
  /\ UNCHANGED <<trainerVars, servingVars, gatewayVars, ownership, manifest>>

\* The last write outside the try block.
RecordServingStarting ==
  /\ At("serving_starting")
  /\ \/ RecordPhase("serving", "starting") /\ Goto("serving")
     \/ WriteFails(phases, "failed")
  /\ UNCHANGED <<trainerVars, servingVars, gatewayVars, ownership, manifest>>

ServingWorks ==
  /\ At("serving")
  /\ Serving!Work
  /\ UNCHANGED <<trainerVars, gatewayVars, files, control>>

ServingEnds ==
  /\ At("serving")
  /\ \/ Serving!ReturnReady /\ Goto("serving_ready")
     \/ (Serving!RaiseCleared \/ Serving!RaiseFailed) /\ Goto("cleanup")
  /\ UNCHANGED <<trainerVars, gatewayVars, files>>

RecordServingReady ==
  /\ At("serving_ready")
  /\ \/ /\ RecordPhase("serving", "ready")
        /\ Goto(IF GatewayEnabled THEN "gateway_starting" ELSE "manifest")
     \/ WriteFails(phases, "cleanup")
  /\ UNCHANGED <<trainerVars, servingVars, gatewayVars, ownership, manifest>>

RecordGatewayStarting ==
  /\ At("gateway_starting")
  /\ \/ RecordPhase("gateway", "starting") /\ Goto("gateway")
     \/ WriteFails(phases, "cleanup_gateway")
  /\ UNCHANGED <<trainerVars, servingVars, gatewayVars, ownership, manifest>>

\* LiteLLM goes on with what it was sent when the controller dies.
GatewayWorks ==
  /\ pc = "gateway"
  /\ Gateway!Work
  /\ UNCHANGED <<trainerVars, servingVars, files, control>>

GatewayFades ==
  /\ Gateway!Fade
  /\ UNCHANGED <<trainerVars, servingVars, files, control>>

\* The call is "faulted" when a write of its own journal failed.
GatewayEnds ==
  /\ At("gateway")
  /\ \/ Gateway!ReturnReady /\ Goto("gateway_ready")
     \/ (Gateway!RaiseReleased \/ Gateway!RaiseHeld) /\ Goto("cleanup_gateway")
     \/ Gateway!RaiseFaulted /\ WriteFails(<<>>, "cleanup_gateway")
  /\ UNCHANGED <<trainerVars, servingVars, files>>

\* Mutant: a phase record that cannot be written is only a warning.
RecordGatewayReadyLenient ==
  /\ At("gateway_ready")
  /\ \/ RecordPhase("gateway", "ready") /\ Goto("manifest")
     \/ WriteFails(phases, "manifest")
  /\ UNCHANGED <<trainerVars, servingVars, gatewayVars, ownership, manifest>>

\* The last write that may still send control to the except clause.
RecordGatewayReady ==
  /\ At("gateway_ready")
  /\ \/ RecordPhase("gateway", "ready") /\ Goto("manifest")
     \/ WriteFails(phases, "cleanup_gateway")
  /\ UNCHANGED <<trainerVars, servingVars, gatewayVars, ownership, manifest>>

-----------------------------------------------------------------------------
(* The except clause; the label tells current_phase. *)

FailedPhase == IF pc \in {"cleanup", "record_failed"} THEN "serving" ELSE "gateway"

AfterFailed(serving, gateway) == IF FailedPhase = "serving" THEN serving ELSE gateway

RollBackWanted == servingOutcome = "ready" /\ gatewayOutcome # "held"

\* Mutant: GatewayCleanupError is handled like any other error.
CleanUpAlways ==
  /\ alive /\ pc \in {"cleanup", "cleanup_gateway"}
  /\ pc' = AfterFailed("record_failed", "record_failed_gateway")
  /\ IF servingOutcome = "ready"
       THEN container' = "absent" /\ rolledBack' = TRUE
       ELSE UNCHANGED <<container, rolledBack>>
  /\ UNCHANGED <<alive, waited, writeFault, trainerVars, servingOutcome, gatewayVars, files>>

\* cleanup_owned: removed; refused because inspection did not match; or an
\* error, swallowed, with or without the removal.
CleanUp ==
  /\ alive /\ pc \in {"cleanup", "cleanup_gateway"}
  /\ pc' = AfterFailed("record_failed", "record_failed_gateway")
  /\ \/ /\ RollBackWanted
        /\ container' = "absent"
        /\ rolledBack' \in BOOLEAN
     \/ UNCHANGED <<container, rolledBack>>
  /\ UNCHANGED <<alive, waited, writeFault, trainerVars, servingOutcome, gatewayVars, files>>

RecordFailed ==
  /\ alive /\ pc \in {"record_failed", "record_failed_gateway"}
  /\ \/ RecordPhase(FailedPhase, "failed") /\ Goto("manifest_failed")
     \/ WriteFails(phases, "failed")
  /\ UNCHANGED <<trainerVars, servingVars, gatewayVars, ownership, manifest>>

\* Mutant: the internal outcome is copied.
ManifestServingRaw == IF rolledBack THEN "rolled_back" ELSE servingOutcome

\* Mutant: cleanup was asked for, so it is reported.
ManifestServingAssumed ==
  IF servingOutcome # "ready" THEN "failed"
  ELSE IF pc = "manifest" THEN "ready" ELSE "rolled_back"

ManifestServing ==
  CASE servingOutcome # "ready" -> "failed"
    [] servingOutcome = "ready" /\ rolledBack -> "rolled_back"
    [] servingOutcome = "ready" /\ ~rolledBack -> "ready"

WriteFailureManifest ==
  /\ At("manifest_failed")
  /\ \/ /\ manifest' = [status |-> "failed", serving |-> ManifestServing,
                        gateway |-> IF GatewayEnabled THEN "failed" ELSE "disabled"]
        /\ Fail
     \/ WriteFails(manifest, "failed")
  /\ UNCHANGED <<trainerVars, servingVars, gatewayVars, ownership, phases>>

\* The last step of a deployment that succeeds.
WriteSuccessManifest ==
  /\ At("manifest")
  /\ \/ /\ manifest' = [status |-> "success", serving |-> ManifestServing,
                        gateway |-> IF GatewayEnabled THEN "ready" ELSE "disabled"]
        /\ Goto("succeeded")
     \/ WriteFails(manifest, "failed")
  /\ UNCHANGED <<trainerVars, servingVars, gatewayVars, ownership, phases>>

Crash ==
  /\ alive /\ pc \notin {"succeeded", "failed"}
  /\ alive' = FALSE
  /\ UNCHANGED <<pc, waited, rolledBack, writeFault, trainerVars, servingVars, gatewayVars, files>>

-----------------------------------------------------------------------------
Controller ==
  \/ Plan \/ Create \/ RemovePlanned \/ RecordOwnership \/ Start \/ Wait
  \/ RemoveTrainer \/ CheckResult \/ RecordTraining
  \/ RecordServingStarting \/ ServingEnds \/ RecordServingReady
  \/ RecordGatewayStarting \/ GatewayEnds \/ RecordGatewayReady
  \/ CleanUp \/ RecordFailed \/ WriteFailureManifest \/ WriteSuccessManifest

Next ==
  \/ Controller \/ ServingWorks \/ GatewayWorks \/ GatewayFades
  \/ WorkerReports \/ TrainerExits \/ Crash

Spec == Init /\ [][Next]_vars

\* Training ends, and each call the controller makes returns or raises
\* (EveryCallEnds and Terminates of the modules behind the promises).
FairSpec == Spec /\ WF_vars(Controller) /\ WF_vars(TrainerExits)

-----------------------------------------------------------------------------
(* Properties. *)

Labels == {
  "plan", "create", "remove_planned", "own", "start", "wait", "remove",
  "result", "training", "serving_starting", "serving", "serving_ready",
  "gateway_starting", "gateway", "gateway_ready", "manifest",
  "cleanup", "cleanup_gateway", "record_failed", "record_failed_gateway",
  "manifest_failed", "succeeded", "failed"}

TypeOK ==
  /\ trainer \in {"absent", "created", "running", "exited"}
  /\ exit \in {"none", "zero", "nonzero"}
  /\ descriptor \in {"missing", "success", "failed"}
  /\ servingOutcome \in Serving!Outcome
  /\ container \in Serving!Container
  /\ gatewayOutcome \in Gateway!Outcome
  /\ routes \in SUBSET Gateway!Role
  /\ ownership \in {"missing", "planned", "created"}
  /\ phases \in [Phase -> {"none", "starting", "ready", "success", "failed"}]
  /\ manifest \in [status : {"missing", "failed", "success"},
                   serving : {"missing", "failed", "rolled_back", "ready"},
                   gateway : {"missing", "failed", "ready", "disabled"}]
  /\ pc \in Labels
  /\ alive \in BOOLEAN
  /\ waited \in {"none", "zero", "nonzero"}
  /\ rolledBack \in BOOLEAN
  /\ writeFault \in BOOLEAN

\* The serving container and the training container never exist together,
\* also not after a failed removal or a crash: the training CUDA context is
\* released before vLLM starts.
TrainerGoneBeforeServing == container # "absent" => trainer = "absent"

\* A training container that ever ran is named with its id in
\* ownership.json, so a crash of the controller leaves it attributable.
StartedIsOwned == trainer \in {"running", "exited"} => ownership = "created"

\* As long as no write has failed: while LiteLLM has or may still get a
\* route of this run, the controller has not removed the container behind it.
RoutesHaveBackend == ~writeFault /\ routes # {} => container = "present"

\* Once the gateway phase has returned its verified registrations, they and
\* the container behind them stay, whatever fails afterwards: "Successful
\* registrations remain active".
VerifiedRoutesStayServed == gatewayOutcome = "ready" => container = "present"

\* A success manifest means a whole deployment, and it stays whole: nothing
\* the controller does afterwards removes a part of it.
SuccessIsComplete ==
  manifest.status = "success" =>
    /\ container = "present" /\ trainer = "absent"
    /\ phases["training"] = "success" /\ phases["serving"] = "ready"
    /\ GatewayEnabled => routes = Gateway!Role /\ phases["gateway"] = "ready"

\* A failure manifest that reports the serving container as rolled back has
\* no container behind it, and no route to it unless a write failed; one that
\* reports failed serving was written before LiteLLM was ever asked.  One that
\* reports it as ready may be stale, since a removal whose command failed may
\* have removed it all the same; but then no route leads to it, unless a write
\* failed.
FailureManifestIsTrue ==
  manifest.status = "failed" =>
    /\ manifest.serving = "rolled_back" =>
         container = "absent" /\ (routes = {} \/ writeFault)
    /\ manifest.serving = "failed" => routes = {} /\ gatewayOutcome = "working"
    /\ manifest.serving = "ready" => container = "present" \/ routes = {} \/ writeFault

\* The deployment ends unless its process is killed.
Ends == <>(pc \in {"succeeded", "failed"} \/ ~alive)

=============================================================================
