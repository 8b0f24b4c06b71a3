-------------------------- MODULE DeploymentProofs --------------------------
(***************************************************************************)
(* Proofs about Deployment: with and without the gateway, for every        *)
(* behaviour its promises allow.                                           *)
(***************************************************************************)
EXTENDS Deployment, Naturals, TLAPS

-----------------------------------------------------------------------------
(* The inductive invariant, in named parts. *)

TrainingLabels == {"plan", "create", "remove_planned", "own", "start", "wait", "remove"}

\* Labels reached only after start_and_verify has returned; up to the
\* deployment's end nothing has been undone.
ServedLabels == {"serving_ready", "gateway_starting", "gateway", "gateway_ready", "manifest",
                 "cleanup_gateway", "succeeded"}

\* The trainer is there only while the training part runs, or after that
\* part has failed.
TrainerPosition ==
  /\ pc \notin TrainingLabels \cup {"failed"} => trainer = "absent"
  /\ pc \in {"plan", "create"} => trainer = "absent"
  /\ pc = "own" => trainer = "created"
  /\ pc = "start" => ownership = "created"
  /\ TrainerGoneBeforeServing
  /\ StartedIsOwned

ServingPosition ==
  /\ pc \in TrainingLabels \cup {"result", "training", "serving_starting"} =>
       container = "absent" /\ servingOutcome = "working"
  /\ pc = "serving" => servingOutcome = "working"
  /\ pc \in ServedLabels => servingOutcome = "ready" /\ container = "present"
  /\ container # "vanished"
  /\ rolledBack = TRUE => /\ container = "absent"
                   /\ pc \in {"record_failed", "record_failed_gateway", "manifest_failed", "failed"}

\* LiteLLM is asked only once serving is ready, and an ordinary failure of
\* the gateway phase has left no route.
GatewayPosition ==
  /\ pc \in TrainingLabels \cup {"result", "training", "serving_starting", "serving",
                                 "serving_ready", "gateway_starting", "cleanup",
                                 "record_failed"} =>
       gatewayOutcome = "working" /\ routes = {}
  /\ servingOutcome # "ready" => gatewayOutcome = "working" /\ routes = {}
  /\ gatewayOutcome = "ready" => routes = Gateway!Role
  /\ gatewayOutcome = "released" => routes = {}
  /\ pc = "cleanup_gateway" => writeFault = TRUE \/ gatewayOutcome \in {"released", "held"}
  /\ pc = "gateway_ready" => gatewayOutcome = "ready"
  /\ pc \in {"manifest", "succeeded"} /\ GatewayEnabled => gatewayOutcome = "ready"
  /\ routes # {} => container = "present" \/ writeFault = TRUE

PhasePosition ==
  /\ pc \in ServedLabels \cup {"serving_starting", "serving"} => phases["training"] = "success"
  /\ pc \in ServedLabels \ {"serving_ready", "cleanup_gateway"} => phases["serving"] = "ready"
  /\ pc \in {"manifest", "succeeded"} /\ GatewayEnabled => phases["gateway"] = "ready"

ManifestPosition ==
  /\ manifest.status = "success" => pc = "succeeded"
  /\ manifest.status = "failed" => pc = "failed"
  /\ manifest.status = "failed" /\ manifest.serving = "rolled_back" => rolledBack = TRUE
  /\ manifest.status = "failed" /\ manifest.serving = "failed" => servingOutcome # "ready"

DeployInv ==
  /\ TypeOK
  /\ TrainerPosition
  /\ ServingPosition
  /\ GatewayPosition
  /\ PhasePosition
  /\ ManifestPosition

-----------------------------------------------------------------------------
(* Each part is kept by every step. *)

(* Type correctness, in three parts. *)

TypeFiles ==
  /\ ownership \in {"missing", "planned", "created"}
  /\ phases \in [Phase -> {"none", "starting", "ready", "success", "failed"}]
  /\ manifest \in [status : {"missing", "failed", "success"},
                   serving : {"missing", "failed", "rolled_back", "ready"},
                   gateway : {"missing", "failed", "ready", "disabled"}]

TypeHost ==
  /\ trainer \in {"absent", "created", "running", "exited"}
  /\ exit \in {"none", "zero", "nonzero"}
  /\ descriptor \in {"missing", "success", "failed"}
  /\ servingOutcome \in Serving!Outcome
  /\ container \in Serving!Container
  /\ gatewayOutcome \in Gateway!Outcome
  /\ routes \in SUBSET Gateway!Role

TypeControl ==
  /\ alive \in BOOLEAN
  /\ waited \in {"none", "zero", "nonzero"}
  /\ rolledBack \in BOOLEAN
  /\ writeFault \in BOOLEAN

\* What the manifests report of the serving container.
LEMMA ManifestServingCases ==
  /\ ManifestServing \in {"failed", "rolled_back", "ready"}
  /\ ManifestServing = "rolled_back" => rolledBack = TRUE
  /\ ManifestServing = "failed" => servingOutcome # "ready"
<1>1. CASE servingOutcome # "ready"
  BY <1>1 DEF ManifestServing
<1>2. CASE servingOutcome = "ready" /\ rolledBack
  BY <1>2 DEF ManifestServing
<1>3. CASE servingOutcome = "ready" /\ ~rolledBack
  BY <1>3 DEF ManifestServing
<1> QED
  BY <1>1, <1>2, <1>3

\* The program stays within its labels.
LEMMA LabelStep ==
  ASSUME pc \in Labels, [Next]_vars
  PROVE  (pc \in Labels)'
<1> USE DEF At, Goto, Fail, WriteFails, control, trainerVars, servingVars,
            gatewayVars, files, Labels
<1>1. CASE Plan
  BY <1>1 DEF Plan
<1>2. CASE Create
  BY <1>2 DEF Create
<1>3. CASE RemovePlanned
  BY <1>3 DEF RemovePlanned
<1>4. CASE RecordOwnership
  BY <1>4 DEF RecordOwnership
<1>5. CASE Start
  BY <1>5 DEF Start
<1>6. CASE Wait
  BY <1>6 DEF Wait
<1>7. CASE RemoveTrainer
  BY <1>7 DEF RemoveTrainer, AfterTraining
<1>8. CASE CheckResult
  BY <1>8 DEF CheckResult
<1>9. CASE RecordTraining
  BY <1>9 DEF RecordTraining
<1>10. CASE RecordServingStarting
  BY <1>10 DEF RecordServingStarting
<1>11. CASE ServingWorks
  BY <1>11 DEF ServingWorks, Serving!Work
<1>12. CASE ServingEnds
  BY <1>12 DEF ServingEnds, Serving!ReturnReady, Serving!RaiseCleared, Serving!RaiseFailed
<1>13. CASE RecordServingReady
  BY <1>13 DEF RecordServingReady
<1>14. CASE RecordGatewayStarting
  BY <1>14 DEF RecordGatewayStarting
<1>15. CASE GatewayWorks
  BY <1>15 DEF GatewayWorks, Gateway!Work
<1>16. CASE GatewayFades
  BY <1>16 DEF GatewayFades, Gateway!Fade
<1>17. CASE GatewayEnds
  BY <1>17 DEF GatewayEnds, Gateway!ReturnReady, Gateway!RaiseReleased, Gateway!RaiseHeld, Gateway!RaiseFaulted
<1>18. CASE RecordGatewayReady
  BY <1>18 DEF RecordGatewayReady
<1>19. CASE CleanUp
  BY <1>19 DEF CleanUp, AfterFailed, FailedPhase, RollBackWanted
<1>20. CASE RecordFailed
  BY <1>20 DEF RecordFailed, FailedPhase
<1>21. CASE WriteFailureManifest
  BY <1>21 DEF WriteFailureManifest
<1>22. CASE WriteSuccessManifest
  BY <1>22 DEF WriteSuccessManifest
<1>23. CASE WorkerReports
  BY <1>23 DEF WorkerReports
<1>24. CASE TrainerExits
  BY <1>24 DEF TrainerExits
<1>25. CASE Crash
  BY <1>25 DEF Crash
<1>26. CASE UNCHANGED vars
  BY <1>26 DEF vars
<1> QED
    BY <1>1, <1>2, <1>3, <1>4, <1>5, <1>6, <1>7, <1>8, <1>9, <1>10, <1>11, <1>12, <1>13,
     <1>14, <1>15, <1>16, <1>17, <1>18, <1>19, <1>20, <1>21, <1>22, <1>23, <1>24, <1>25,
     <1>26 DEF Next, Controller

\* The files.
LEMMA FilesStep ==
  ASSUME TypeFiles, [Next]_vars
  PROVE  TypeFiles'
<1> USE DEF At, Goto, Fail, WriteFails, control, trainerVars, servingVars,
            gatewayVars, files, TypeFiles, RecordPhase, Phase
<1>1. CASE Plan
  BY <1>1 DEF Plan
<1>2. CASE Create
  BY <1>2 DEF Create
<1>3. CASE RemovePlanned
  BY <1>3 DEF RemovePlanned
<1>4. CASE RecordOwnership
  BY <1>4 DEF RecordOwnership
<1>5. CASE Start
  BY <1>5 DEF Start
<1>6. CASE Wait
  BY <1>6 DEF Wait
<1>7. CASE RemoveTrainer
  BY <1>7 DEF RemoveTrainer, AfterTraining
<1>8. CASE CheckResult
  BY <1>8 DEF CheckResult
<1>9. CASE RecordTraining
  BY <1>9 DEF RecordTraining
<1>10. CASE RecordServingStarting
  BY <1>10 DEF RecordServingStarting
<1>11. CASE ServingWorks
  BY <1>11 DEF ServingWorks, Serving!Work
<1>12. CASE ServingEnds
  BY <1>12 DEF ServingEnds, Serving!ReturnReady, Serving!RaiseCleared, Serving!RaiseFailed
<1>13. CASE RecordServingReady
  BY <1>13 DEF RecordServingReady
<1>14. CASE RecordGatewayStarting
  BY <1>14 DEF RecordGatewayStarting
<1>15. CASE GatewayWorks
  BY <1>15 DEF GatewayWorks, Gateway!Work
<1>16. CASE GatewayFades
  BY <1>16 DEF GatewayFades, Gateway!Fade
<1>17. CASE GatewayEnds
  BY <1>17 DEF GatewayEnds, Gateway!ReturnReady, Gateway!RaiseReleased, Gateway!RaiseHeld, Gateway!RaiseFaulted
<1>18. CASE RecordGatewayReady
  BY <1>18 DEF RecordGatewayReady
<1>19. CASE CleanUp
  BY <1>19 DEF CleanUp, AfterFailed, FailedPhase, RollBackWanted
<1>20. CASE RecordFailed
  BY <1>20 DEF RecordFailed, FailedPhase
<1>21. CASE WriteFailureManifest
  <2>1. CASE UNCHANGED manifest
    BY <1>21, <2>1 DEF WriteFailureManifest
  <2>2. ASSUME NEW gateway \in {"failed", "ready", "disabled"},
             manifest' = [status |-> "failed", serving |-> ManifestServing,
                          gateway |-> gateway]
      PROVE  TypeFiles'
    BY <1>21, <2>2, ManifestServingCases DEF WriteFailureManifest
  <2> QED
    BY <1>21, <2>1, <2>2 DEF WriteFailureManifest
<1>22. CASE WriteSuccessManifest
  <2>1. CASE UNCHANGED manifest
    BY <1>22, <2>1 DEF WriteSuccessManifest
  <2>2. ASSUME NEW gateway \in {"failed", "ready", "disabled"},
             manifest' = [status |-> "success", serving |-> ManifestServing,
                          gateway |-> gateway]
      PROVE  TypeFiles'
    BY <1>22, <2>2, ManifestServingCases DEF WriteSuccessManifest
  <2> QED
    BY <1>22, <2>1, <2>2 DEF WriteSuccessManifest
<1>23. CASE WorkerReports
  BY <1>23 DEF WorkerReports
<1>24. CASE TrainerExits
  BY <1>24 DEF TrainerExits
<1>25. CASE Crash
  BY <1>25 DEF Crash
<1>26. CASE UNCHANGED vars
  BY <1>26 DEF vars
<1> QED
    BY <1>1, <1>2, <1>3, <1>4, <1>5, <1>6, <1>7, <1>8, <1>9, <1>10, <1>11, <1>12, <1>13,
     <1>14, <1>15, <1>16, <1>17, <1>18, <1>19, <1>20, <1>21, <1>22, <1>23, <1>24, <1>25,
     <1>26 DEF Next, Controller

\* Docker and LiteLLM.
LEMMA HostStep ==
  ASSUME TypeHost, TypeControl, [Next]_vars
  PROVE  TypeHost'
<1> USE DEF At, Goto, Fail, WriteFails, control, trainerVars, servingVars,
            gatewayVars, files, TypeHost, TypeControl, Serving!Outcome,
            Serving!Container, Gateway!Outcome, Gateway!Role
<1>1. CASE Plan
  BY <1>1 DEF Plan
<1>2. CASE Create
  BY <1>2 DEF Create
<1>3. CASE RemovePlanned
  BY <1>3 DEF RemovePlanned
<1>4. CASE RecordOwnership
  BY <1>4 DEF RecordOwnership
<1>5. CASE Start
  BY <1>5 DEF Start
<1>6. CASE Wait
  BY <1>6 DEF Wait
<1>7. CASE RemoveTrainer
  BY <1>7 DEF RemoveTrainer, AfterTraining
<1>8. CASE CheckResult
  BY <1>8 DEF CheckResult
<1>9. CASE RecordTraining
  BY <1>9 DEF RecordTraining
<1>10. CASE RecordServingStarting
  BY <1>10 DEF RecordServingStarting
<1>11. CASE ServingWorks
  BY <1>11 DEF ServingWorks, Serving!Work
<1>12. CASE ServingEnds
  BY <1>12 DEF ServingEnds, Serving!ReturnReady, Serving!RaiseCleared, Serving!RaiseFailed
<1>13. CASE RecordServingReady
  BY <1>13 DEF RecordServingReady
<1>14. CASE RecordGatewayStarting
  BY <1>14 DEF RecordGatewayStarting
<1>15. CASE GatewayWorks
  BY <1>15 DEF GatewayWorks, Gateway!Work
<1>16. CASE GatewayFades
  BY <1>16 DEF GatewayFades, Gateway!Fade
<1>17. CASE GatewayEnds
  BY <1>17 DEF GatewayEnds, Gateway!ReturnReady, Gateway!RaiseReleased, Gateway!RaiseHeld, Gateway!RaiseFaulted
<1>18. CASE RecordGatewayReady
  BY <1>18 DEF RecordGatewayReady
<1>19. CASE CleanUp
  BY <1>19 DEF CleanUp, AfterFailed, FailedPhase, RollBackWanted
<1>20. CASE RecordFailed
  BY <1>20 DEF RecordFailed, FailedPhase
<1>21. CASE WriteFailureManifest
  BY <1>21 DEF WriteFailureManifest
<1>22. CASE WriteSuccessManifest
  BY <1>22 DEF WriteSuccessManifest
<1>23. CASE WorkerReports
  BY <1>23 DEF WorkerReports
<1>24. CASE TrainerExits
  BY <1>24 DEF TrainerExits
<1>25. CASE Crash
  BY <1>25 DEF Crash
<1>26. CASE UNCHANGED vars
  BY <1>26 DEF vars
<1> QED
    BY <1>1, <1>2, <1>3, <1>4, <1>5, <1>6, <1>7, <1>8, <1>9, <1>10, <1>11, <1>12, <1>13,
     <1>14, <1>15, <1>16, <1>17, <1>18, <1>19, <1>20, <1>21, <1>22, <1>23, <1>24, <1>25,
     <1>26 DEF Next, Controller

\* The controller's memory.
LEMMA ControlStep ==
  ASSUME TypeControl, TypeHost, [Next]_vars
  PROVE  TypeControl'
<1> USE DEF At, Goto, Fail, WriteFails, control, trainerVars, servingVars,
            gatewayVars, files, TypeControl, TypeHost
<1>1. CASE Plan
  BY <1>1 DEF Plan
<1>2. CASE Create
  BY <1>2 DEF Create
<1>3. CASE RemovePlanned
  BY <1>3 DEF RemovePlanned
<1>4. CASE RecordOwnership
  BY <1>4 DEF RecordOwnership
<1>5. CASE Start
  BY <1>5 DEF Start
<1>6. CASE Wait
  BY <1>6 DEF Wait
<1>7. CASE RemoveTrainer
  BY <1>7 DEF RemoveTrainer, AfterTraining
<1>8. CASE CheckResult
  BY <1>8 DEF CheckResult
<1>9. CASE RecordTraining
  BY <1>9 DEF RecordTraining
<1>10. CASE RecordServingStarting
  BY <1>10 DEF RecordServingStarting
<1>11. CASE ServingWorks
  BY <1>11 DEF ServingWorks, Serving!Work
<1>12. CASE ServingEnds
  BY <1>12 DEF ServingEnds, Serving!ReturnReady, Serving!RaiseCleared, Serving!RaiseFailed
<1>13. CASE RecordServingReady
  BY <1>13 DEF RecordServingReady
<1>14. CASE RecordGatewayStarting
  BY <1>14 DEF RecordGatewayStarting
<1>15. CASE GatewayWorks
  BY <1>15 DEF GatewayWorks, Gateway!Work
<1>16. CASE GatewayFades
  BY <1>16 DEF GatewayFades, Gateway!Fade
<1>17. CASE GatewayEnds
  BY <1>17 DEF GatewayEnds, Gateway!ReturnReady, Gateway!RaiseReleased, Gateway!RaiseHeld, Gateway!RaiseFaulted
<1>18. CASE RecordGatewayReady
  BY <1>18 DEF RecordGatewayReady
<1>19. CASE CleanUp
  BY <1>19 DEF CleanUp, AfterFailed, FailedPhase, RollBackWanted
<1>20. CASE RecordFailed
  BY <1>20 DEF RecordFailed, FailedPhase
<1>21. CASE WriteFailureManifest
  BY <1>21 DEF WriteFailureManifest
<1>22. CASE WriteSuccessManifest
  BY <1>22 DEF WriteSuccessManifest
<1>23. CASE WorkerReports
  BY <1>23 DEF WorkerReports
<1>24. CASE TrainerExits
  BY <1>24 DEF TrainerExits
<1>25. CASE Crash
  BY <1>25 DEF Crash
<1>26. CASE UNCHANGED vars
  BY <1>26 DEF vars
<1> QED
    BY <1>1, <1>2, <1>3, <1>4, <1>5, <1>6, <1>7, <1>8, <1>9, <1>10, <1>11, <1>12, <1>13,
     <1>14, <1>15, <1>16, <1>17, <1>18, <1>19, <1>20, <1>21, <1>22, <1>23, <1>24, <1>25,
     <1>26 DEF Next, Controller

LEMMA TypeStep == TypeOK /\ [Next]_vars => TypeOK'
<1>1. TypeOK <=> pc \in Labels /\ TypeFiles /\ TypeHost /\ TypeControl
  BY DEF TypeOK, TypeFiles, TypeHost, TypeControl
<1>2. TypeOK' <=> (pc \in Labels)' /\ TypeFiles' /\ TypeHost' /\ TypeControl'
  BY DEF TypeOK, TypeFiles, TypeHost, TypeControl
<1> QED
  BY <1>1, <1>2, LabelStep, FilesStep, HostStep, ControlStep

LEMMA TypeInit == Init => TypeOK
<1> SUFFICES ASSUME Init PROVE TypeOK
  OBVIOUS
<1>1. pc \in Labels
  BY DEF Init, Labels
<1>2. TypeFiles
  BY DEF Init, TypeFiles, Phase, NoManifest
<1>3. TypeHost
  BY DEF Init, TypeHost, Serving!PromiseInit, Gateway!PromiseInit,
     Serving!Outcome, Serving!Container, Gateway!Outcome, Gateway!Role
<1>4. TypeControl
  BY DEF Init, TypeControl
<1> QED
  BY <1>1, <1>2, <1>3, <1>4 DEF TypeOK, TypeFiles, TypeHost, TypeControl

(* Type correctness of the deployment: files, outcomes and labels stay       *)
(* within what the controller can produce.                                   *)
THEOREM TypeCorrect == Spec => []TypeOK
BY TypeInit, TypeStep, PTL DEF Spec

-----------------------------------------------------------------------------
(* Each part of the invariant is kept by every step. *)

\* The trainer's place in the order.
LEMMA TrainerStep ==
  ASSUME DeployInv, [Next]_vars
  PROVE  TrainerPosition'
<1> USE DEF At, Goto, Fail, WriteFails, control, trainerVars, servingVars,
            gatewayVars, files, DeployInv, TrainerPosition, ServingPosition,
            TrainingLabels, TrainerGoneBeforeServing, StartedIsOwned
<1>1. CASE Plan
  BY <1>1 DEF Plan
<1>2. CASE Create
  BY <1>2 DEF Create
<1>3. CASE RemovePlanned
  BY <1>3 DEF RemovePlanned
<1>4. CASE RecordOwnership
  BY <1>4 DEF RecordOwnership
<1>5. CASE Start
  BY <1>5 DEF Start
<1>6. CASE Wait
  BY <1>6 DEF Wait
<1>7. CASE RemoveTrainer
  BY <1>7 DEF RemoveTrainer, AfterTraining
<1>8. CASE CheckResult
  BY <1>8 DEF CheckResult
<1>9. CASE RecordTraining
  BY <1>9 DEF RecordTraining
<1>10. CASE RecordServingStarting
  BY <1>10 DEF RecordServingStarting
<1>11. CASE ServingWorks
  BY <1>11 DEF ServingWorks, Serving!Work
<1>12. CASE ServingEnds
  BY <1>12 DEF ServingEnds, Serving!ReturnReady, Serving!RaiseCleared, Serving!RaiseFailed
<1>13. CASE RecordServingReady
  BY <1>13 DEF RecordServingReady
<1>14. CASE RecordGatewayStarting
  BY <1>14 DEF RecordGatewayStarting
<1>15. CASE GatewayWorks
  BY <1>15 DEF GatewayWorks, Gateway!Work
<1>16. CASE GatewayFades
  BY <1>16 DEF GatewayFades, Gateway!Fade
<1>17. CASE GatewayEnds
  BY <1>17 DEF GatewayEnds, Gateway!ReturnReady, Gateway!RaiseReleased, Gateway!RaiseHeld, Gateway!RaiseFaulted
<1>18. CASE RecordGatewayReady
  BY <1>18 DEF RecordGatewayReady
<1>19. CASE CleanUp
  BY <1>19 DEF CleanUp, AfterFailed, FailedPhase, RollBackWanted
<1>20. CASE RecordFailed
  BY <1>20 DEF RecordFailed, FailedPhase
<1>21. CASE WriteFailureManifest
  BY <1>21 DEF WriteFailureManifest
<1>22. CASE WriteSuccessManifest
  BY <1>22 DEF WriteSuccessManifest
<1>23. CASE WorkerReports
  BY <1>23 DEF WorkerReports
<1>24. CASE TrainerExits
  BY <1>24 DEF TrainerExits
<1>25. CASE Crash
  BY <1>25 DEF Crash
<1>26. CASE UNCHANGED vars
  BY <1>26 DEF vars
<1> QED
    BY <1>1, <1>2, <1>3, <1>4, <1>5, <1>6, <1>7, <1>8, <1>9, <1>10, <1>11, <1>12, <1>13,
     <1>14, <1>15, <1>16, <1>17, <1>18, <1>19, <1>20, <1>21, <1>22, <1>23, <1>24, <1>25,
     <1>26 DEF Next, Controller

\* The serving container follows the serving outcome.
LEMMA ServingStep ==
  ASSUME TypeHost, ServingPosition, [Next]_vars
  PROVE  ServingPosition'
<1> USE DEF At, Goto, Fail, WriteFails, control, trainerVars, servingVars,
            gatewayVars, files, TypeHost, Serving!Container,
            ServingPosition, TrainingLabels, ServedLabels, RecordPhase
<1>1. CASE Plan
  BY <1>1 DEF Plan
<1>2. CASE Create
  BY <1>2 DEF Create
<1>3. CASE RemovePlanned
  BY <1>3 DEF RemovePlanned
<1>4. CASE RecordOwnership
  BY <1>4 DEF RecordOwnership
<1>5. CASE Start
  BY <1>5 DEF Start
<1>6. CASE Wait
  BY <1>6 DEF Wait
<1>7. CASE RemoveTrainer
  BY <1>7 DEF RemoveTrainer, AfterTraining
<1>8. CASE CheckResult
  BY <1>8 DEF CheckResult
<1>9. CASE RecordTraining
  BY <1>9 DEF RecordTraining
<1>10. CASE RecordServingStarting
  BY <1>10 DEF RecordServingStarting
<1>11. CASE ServingWorks
  BY <1>11 DEF ServingWorks, Serving!Work
<1>12. CASE ServingEnds
  BY <1>12 DEF ServingEnds, Serving!ReturnReady, Serving!RaiseCleared, Serving!RaiseFailed
<1>13. CASE RecordServingReady
  BY <1>13 DEF RecordServingReady
<1>14. CASE RecordGatewayStarting
  BY <1>14 DEF RecordGatewayStarting
<1>15. CASE GatewayWorks
  BY <1>15 DEF GatewayWorks, Gateway!Work
<1>16. CASE GatewayFades
  BY <1>16 DEF GatewayFades, Gateway!Fade
<1>17. CASE GatewayEnds
  BY <1>17 DEF GatewayEnds, Gateway!ReturnReady, Gateway!RaiseReleased, Gateway!RaiseHeld, Gateway!RaiseFaulted
<1>18. CASE RecordGatewayReady
  BY <1>18 DEF RecordGatewayReady
<1>19. CASE CleanUp
  BY <1>19 DEF CleanUp, AfterFailed, FailedPhase, RollBackWanted
<1>20. CASE RecordFailed
  BY <1>20 DEF RecordFailed
<1>21. CASE WriteFailureManifest
  BY <1>21 DEF WriteFailureManifest
<1>22. CASE WriteSuccessManifest
  BY <1>22 DEF WriteSuccessManifest
<1>23. CASE WorkerReports
  BY <1>23 DEF WorkerReports
<1>24. CASE TrainerExits
  BY <1>24 DEF TrainerExits
<1>25. CASE Crash
  BY <1>25 DEF Crash
<1>26. CASE UNCHANGED vars
  BY <1>26 DEF vars
<1> QED
    BY <1>1, <1>2, <1>3, <1>4, <1>5, <1>6, <1>7, <1>8, <1>9, <1>10, <1>11, <1>12, <1>13,
     <1>14, <1>15, <1>16, <1>17, <1>18, <1>19, <1>20, <1>21, <1>22, <1>23, <1>24, <1>25,
     <1>26 DEF Next, Controller

\* Routes follow the gateway outcome.
LEMMA GatewayStep ==
  ASSUME ServingPosition, GatewayPosition, [Next]_vars
  PROVE  GatewayPosition'
<1> USE DEF At, Goto, Fail, WriteFails, control, trainerVars, servingVars,
            gatewayVars, files, ServingPosition, GatewayPosition,
            TrainingLabels, ServedLabels, RecordPhase
<1>1. CASE Plan
  BY <1>1 DEF Plan
<1>2. CASE Create
  BY <1>2 DEF Create
<1>3. CASE RemovePlanned
  BY <1>3 DEF RemovePlanned
<1>4. CASE RecordOwnership
  BY <1>4 DEF RecordOwnership
<1>5. CASE Start
  BY <1>5 DEF Start
<1>6. CASE Wait
  BY <1>6 DEF Wait
<1>7. CASE RemoveTrainer
  BY <1>7 DEF RemoveTrainer, AfterTraining
<1>8. CASE CheckResult
  BY <1>8 DEF CheckResult
<1>9. CASE RecordTraining
  BY <1>9 DEF RecordTraining
<1>10. CASE RecordServingStarting
  BY <1>10 DEF RecordServingStarting
<1>11. CASE ServingWorks
  BY <1>11 DEF ServingWorks, Serving!Work
<1>12. CASE ServingEnds
  BY <1>12 DEF ServingEnds, Serving!ReturnReady, Serving!RaiseCleared, Serving!RaiseFailed
<1>13. CASE RecordServingReady
  BY <1>13 DEF RecordServingReady
<1>14. CASE RecordGatewayStarting
  BY <1>14 DEF RecordGatewayStarting
<1>15. CASE GatewayWorks
  BY <1>15 DEF GatewayWorks, Gateway!Work
<1>16. CASE GatewayFades
  BY <1>16 DEF GatewayFades, Gateway!Fade
<1>17. CASE GatewayEnds
  BY <1>17 DEF GatewayEnds, Gateway!ReturnReady, Gateway!RaiseReleased, Gateway!RaiseHeld, Gateway!RaiseFaulted
<1>18. CASE RecordGatewayReady
  BY <1>18 DEF RecordGatewayReady
<1>19. CASE CleanUp
  BY <1>19 DEF CleanUp, AfterFailed, FailedPhase, RollBackWanted
<1>20. CASE RecordFailed
  BY <1>20 DEF RecordFailed
<1>21. CASE WriteFailureManifest
  BY <1>21 DEF WriteFailureManifest
<1>22. CASE WriteSuccessManifest
  BY <1>22 DEF WriteSuccessManifest
<1>23. CASE WorkerReports
  BY <1>23 DEF WorkerReports
<1>24. CASE TrainerExits
  BY <1>24 DEF TrainerExits
<1>25. CASE Crash
  BY <1>25 DEF Crash
<1>26. CASE UNCHANGED vars
  BY <1>26 DEF vars
<1> QED
    BY <1>1, <1>2, <1>3, <1>4, <1>5, <1>6, <1>7, <1>8, <1>9, <1>10, <1>11, <1>12, <1>13,
     <1>14, <1>15, <1>16, <1>17, <1>18, <1>19, <1>20, <1>21, <1>22, <1>23, <1>24, <1>25,
     <1>26 DEF Next, Controller

\* The phases of metadata.json follow the program.
LEMMA PhaseStep ==
  ASSUME TypeFiles, PhasePosition, [Next]_vars
  PROVE  PhasePosition'
<1> USE DEF At, Goto, Fail, WriteFails, control, trainerVars, servingVars,
            gatewayVars, files, RecordPhase, Phase, TypeFiles,
            PhasePosition, ServedLabels
<1>1. CASE Plan
  BY <1>1 DEF Plan
<1>2. CASE Create
  BY <1>2 DEF Create
<1>3. CASE RemovePlanned
  BY <1>3 DEF RemovePlanned
<1>4. CASE RecordOwnership
  BY <1>4 DEF RecordOwnership
<1>5. CASE Start
  BY <1>5 DEF Start
<1>6. CASE Wait
  BY <1>6 DEF Wait
<1>7. CASE RemoveTrainer
  BY <1>7 DEF RemoveTrainer, AfterTraining
<1>8. CASE CheckResult
  BY <1>8 DEF CheckResult
<1>9. CASE RecordTraining
  BY <1>9 DEF RecordTraining
<1>10. CASE RecordServingStarting
  BY <1>10 DEF RecordServingStarting
<1>11. CASE ServingWorks
  BY <1>11 DEF ServingWorks, Serving!Work
<1>12. CASE ServingEnds
  BY <1>12 DEF ServingEnds, Serving!ReturnReady, Serving!RaiseCleared, Serving!RaiseFailed
<1>13. CASE RecordServingReady
  BY <1>13 DEF RecordServingReady
<1>14. CASE RecordGatewayStarting
  BY <1>14 DEF RecordGatewayStarting
<1>15. CASE GatewayWorks
  BY <1>15 DEF GatewayWorks, Gateway!Work
<1>16. CASE GatewayFades
  BY <1>16 DEF GatewayFades, Gateway!Fade
<1>17. CASE GatewayEnds
  BY <1>17 DEF GatewayEnds, Gateway!ReturnReady, Gateway!RaiseReleased, Gateway!RaiseHeld, Gateway!RaiseFaulted
<1>18. CASE RecordGatewayReady
  BY <1>18 DEF RecordGatewayReady
<1>19. CASE CleanUp
  BY <1>19 DEF CleanUp, AfterFailed, FailedPhase, RollBackWanted
<1>20. CASE RecordFailed
  BY <1>20 DEF RecordFailed, FailedPhase
<1>21. CASE WriteFailureManifest
  BY <1>21 DEF WriteFailureManifest
<1>22. CASE WriteSuccessManifest
  BY <1>22 DEF WriteSuccessManifest
<1>23. CASE WorkerReports
  BY <1>23 DEF WorkerReports
<1>24. CASE TrainerExits
  BY <1>24 DEF TrainerExits
<1>25. CASE Crash
  BY <1>25 DEF Crash
<1>26. CASE UNCHANGED vars
  BY <1>26 DEF vars
<1> QED
    BY <1>1, <1>2, <1>3, <1>4, <1>5, <1>6, <1>7, <1>8, <1>9, <1>10, <1>11, <1>12, <1>13,
     <1>14, <1>15, <1>16, <1>17, <1>18, <1>19, <1>20, <1>21, <1>22, <1>23, <1>24, <1>25,
     <1>26 DEF Next, Controller

\* The manifest is the last thing written.
LEMMA ManifestStep ==
  ASSUME ManifestPosition, [Next]_vars
  PROVE  ManifestPosition'
<1> USE DEF At, Goto, Fail, WriteFails, control, trainerVars, servingVars,
            gatewayVars, files, ManifestPosition
<1>1. CASE Plan
  BY <1>1 DEF Plan
<1>2. CASE Create
  BY <1>2 DEF Create
<1>3. CASE RemovePlanned
  BY <1>3 DEF RemovePlanned
<1>4. CASE RecordOwnership
  BY <1>4 DEF RecordOwnership
<1>5. CASE Start
  BY <1>5 DEF Start
<1>6. CASE Wait
  BY <1>6 DEF Wait
<1>7. CASE RemoveTrainer
  BY <1>7 DEF RemoveTrainer, AfterTraining
<1>8. CASE CheckResult
  BY <1>8 DEF CheckResult
<1>9. CASE RecordTraining
  BY <1>9 DEF RecordTraining
<1>10. CASE RecordServingStarting
  BY <1>10 DEF RecordServingStarting
<1>11. CASE ServingWorks
  BY <1>11 DEF ServingWorks, Serving!Work
<1>12. CASE ServingEnds
  BY <1>12 DEF ServingEnds, Serving!ReturnReady, Serving!RaiseCleared, Serving!RaiseFailed
<1>13. CASE RecordServingReady
  BY <1>13 DEF RecordServingReady
<1>14. CASE RecordGatewayStarting
  BY <1>14 DEF RecordGatewayStarting
<1>15. CASE GatewayWorks
  BY <1>15 DEF GatewayWorks, Gateway!Work
<1>16. CASE GatewayFades
  BY <1>16 DEF GatewayFades, Gateway!Fade
<1>17. CASE GatewayEnds
  BY <1>17 DEF GatewayEnds, Gateway!ReturnReady, Gateway!RaiseReleased, Gateway!RaiseHeld, Gateway!RaiseFaulted
<1>18. CASE RecordGatewayReady
  BY <1>18 DEF RecordGatewayReady
<1>19. CASE CleanUp
  BY <1>19 DEF CleanUp, AfterFailed, FailedPhase, RollBackWanted
<1>20. CASE RecordFailed
  BY <1>20 DEF RecordFailed, FailedPhase
<1>21. CASE WriteFailureManifest
  <2>1. CASE UNCHANGED manifest
    BY <1>21, <2>1 DEF WriteFailureManifest
  <2>2. ASSUME NEW gateway,
               manifest' = [status |-> "failed", serving |-> ManifestServing,
                            gateway |-> gateway],
               pc' = "failed"
        PROVE  ManifestPosition'
    BY <1>21, <2>2, ManifestServingCases DEF WriteFailureManifest
  <2> QED
    BY <1>21, <2>1, <2>2 DEF WriteFailureManifest
<1>22. CASE WriteSuccessManifest
  <2>1. CASE UNCHANGED manifest
    BY <1>22, <2>1 DEF WriteSuccessManifest
  <2>2. ASSUME NEW gateway,
               manifest' = [status |-> "success", serving |-> ManifestServing,
                            gateway |-> gateway],
               pc' = "succeeded"
        PROVE  ManifestPosition'
    BY <1>22, <2>2, ManifestServingCases DEF WriteSuccessManifest
  <2> QED
    BY <1>22, <2>1, <2>2 DEF WriteSuccessManifest
<1>23. CASE WorkerReports
  BY <1>23 DEF WorkerReports
<1>24. CASE TrainerExits
  BY <1>24 DEF TrainerExits
<1>25. CASE Crash
  BY <1>25 DEF Crash
<1>26. CASE UNCHANGED vars
  BY <1>26 DEF vars
<1> QED
    BY <1>1, <1>2, <1>3, <1>4, <1>5, <1>6, <1>7, <1>8, <1>9, <1>10, <1>11, <1>12, <1>13,
     <1>14, <1>15, <1>16, <1>17, <1>18, <1>19, <1>20, <1>21, <1>22, <1>23, <1>24, <1>25,
     <1>26 DEF Next, Controller

LEMMA DeployInvariant == Spec => []DeployInv
<1>1. Init => DeployInv
  <2> SUFFICES ASSUME Init PROVE DeployInv
    OBVIOUS
  <2>1. TypeOK
    BY TypeInit
  <2>2. TrainerPosition /\ ServingPosition /\ GatewayPosition
    BY DEF Init, TrainerPosition, ServingPosition, GatewayPosition, TrainingLabels,
       ServedLabels, TrainerGoneBeforeServing, StartedIsOwned, RoutesHaveBackend,
       Serving!PromiseInit, Gateway!PromiseInit
  <2>3. PhasePosition /\ ManifestPosition
    BY DEF Init, PhasePosition, ManifestPosition, ServedLabels, NoManifest
  <2> QED
    BY <2>1, <2>2, <2>3 DEF DeployInv
<1>2. DeployInv /\ [Next]_vars => DeployInv'
  <2>1. TypeOK => TypeFiles /\ TypeHost
    BY DEF TypeOK, TypeFiles, TypeHost
  <2> QED
    BY <2>1, TypeStep, TrainerStep, ServingStep, GatewayStep, PhaseStep, ManifestStep
       DEF DeployInv
<1> QED
  BY <1>1, <1>2, PTL DEF Spec

-----------------------------------------------------------------------------
(* What follows. *)

(* vLLM never shares the host with the training container, whichever docker  *)
(* command of the training part fails and wherever the controller dies.      *)
THEOREM TrainerIsGone == Spec => []TrainerGoneBeforeServing
BY DeployInvariant, PTL DEF DeployInv, TrainerPosition

(* A training container that ever ran is named in ownership.json.            *)
THEOREM StartedIsOwnedAlways == Spec => []StartedIsOwned
BY DeployInvariant, PTL DEF DeployInv, TrainerPosition

(* The controller removes the serving container only when no route leads to  *)
(* it and none can appear, unless a write to the run directory failed.       *)
THEOREM RoutesAreBacked == Spec => []RoutesHaveBackend
<1>1. DeployInv => RoutesHaveBackend
  BY DEF DeployInv, GatewayPosition, RoutesHaveBackend
<1> QED
  BY <1>1, DeployInvariant, PTL

(* A success manifest stands for a whole deployment that stays whole.        *)
THEOREM SuccessIsWhole == Spec => []SuccessIsComplete
<1>1. DeployInv => SuccessIsComplete
  BY DEF DeployInv, SuccessIsComplete, ManifestPosition, PhasePosition, GatewayPosition,
     ServingPosition, TrainerPosition, ServedLabels, TrainingLabels
<1> QED
  BY <1>1, DeployInvariant, PTL

(* A failure manifest that says rolled back has no container behind it; with *)
(* one that says failed LiteLLM was never asked; and without a failed write  *)
(* no route is left without its container, also if a manifest that says      *)
(* ready is stale.                                                           *)
THEOREM FailureIsTold == Spec => []FailureManifestIsTrue
<1>1. DeployInv => FailureManifestIsTrue
  BY DEF DeployInv, FailureManifestIsTrue, ManifestPosition, GatewayPosition,
     ServingPosition, RoutesHaveBackend
<1> QED
  BY <1>1, DeployInvariant, PTL

-----------------------------------------------------------------------------
(* How long a deployment can take: the lines of deploy still ahead.        *)

LinesAhead ==
  CASE pc = "plan" -> 18
    [] pc = "create" -> 17
    [] pc \in {"own", "remove_planned"} -> 16
    [] pc = "start" -> 15
    [] pc = "wait" -> 14
    [] pc = "remove" -> 13
    [] pc = "result" -> 12
    [] pc = "training" -> 11
    [] pc = "serving_starting" -> 10
    [] pc = "serving" -> 9
    [] pc = "serving_ready" -> 8
    [] pc = "gateway_starting" -> 7
    [] pc = "gateway" -> 6
    [] pc = "gateway_ready" -> 5
    [] pc = "manifest" -> 4
    [] pc \in {"cleanup", "cleanup_gateway"} -> 3
    [] pc \in {"record_failed", "record_failed_gateway"} -> 2
    [] pc = "manifest_failed" -> 1
    [] pc \in {"succeeded", "failed"} -> 0

LEMMA ControllerAdvances == TypeOK /\ Controller => LinesAhead' < LinesAhead
<1> SUFFICES ASSUME TypeOK, Controller PROVE LinesAhead' < LinesAhead
  OBVIOUS
<1> USE DEF At, Goto, Fail, WriteFails
<1>1. CASE Plan
  <2>1. pc = "plan" /\ (pc' = "create" \/ pc' = "failed")
    BY <1>1 DEF Plan
  <2> QED
    BY <2>1 DEF LinesAhead
<1>2. CASE Create
  <2>1. pc = "create" /\ (pc' = "own" \/ pc' = "remove_planned" \/ pc' = "failed")
    BY <1>2 DEF Create
  <2> QED
    BY <2>1 DEF LinesAhead
<1>3. CASE RemovePlanned
  <2>1. pc = "remove_planned" /\ pc' = "failed"
    BY <1>3 DEF RemovePlanned
  <2> QED
    BY <2>1 DEF LinesAhead
<1>4. CASE RecordOwnership
  <2>1. pc = "own" /\ (pc' = "start" \/ pc' = "remove")
    BY <1>4 DEF RecordOwnership
  <2> QED
    BY <2>1 DEF LinesAhead
<1>5. CASE Start
  <2>1. pc = "start" /\ (pc' = "wait" \/ pc' = "remove")
    BY <1>5 DEF Start
  <2> QED
    BY <2>1 DEF LinesAhead
<1>6. CASE Wait
  <2>1. pc = "wait" /\ pc' = "remove"
    BY <1>6 DEF Wait
  <2> QED
    BY <2>1 DEF LinesAhead
<1>7. CASE RemoveTrainer
  <2>1. pc = "remove" /\ (pc' = "result" \/ pc' = "failed")
    BY <1>7 DEF RemoveTrainer, AfterTraining
  <2> QED
    BY <2>1 DEF LinesAhead
<1>8. CASE CheckResult
  <2>1. pc = "result" /\ (pc' = "training" \/ pc' = "failed")
    BY <1>8 DEF CheckResult
  <2> QED
    BY <2>1 DEF LinesAhead
<1>9. CASE RecordTraining
  <2>1. pc = "training" /\ (pc' = "serving_starting" \/ pc' = "failed")
    BY <1>9 DEF RecordTraining
  <2> QED
    BY <2>1 DEF LinesAhead
<1>10. CASE RecordServingStarting
  <2>1. pc = "serving_starting" /\ (pc' = "serving" \/ pc' = "failed")
    BY <1>10 DEF RecordServingStarting
  <2> QED
    BY <2>1 DEF LinesAhead
<1>11. CASE ServingEnds
  <2>1. pc = "serving" /\ (pc' = "serving_ready" \/ pc' = "cleanup")
    BY <1>11 DEF ServingEnds
  <2> QED
    BY <2>1 DEF LinesAhead
<1>12. CASE RecordServingReady
  <2>1. pc = "serving_ready" /\ (pc' = "gateway_starting" \/ pc' = "manifest" \/ pc' = "cleanup")
    BY <1>12 DEF RecordServingReady
  <2> QED
    BY <2>1 DEF LinesAhead
<1>13. CASE RecordGatewayStarting
  <2>1. pc = "gateway_starting" /\ (pc' = "gateway" \/ pc' = "cleanup_gateway")
    BY <1>13 DEF RecordGatewayStarting
  <2> QED
    BY <2>1 DEF LinesAhead
<1>14. CASE GatewayEnds
  <2>1. pc = "gateway" /\ (pc' = "gateway_ready" \/ pc' = "cleanup_gateway")
    BY <1>14 DEF GatewayEnds
  <2> QED
    BY <2>1 DEF LinesAhead
<1>15. CASE RecordGatewayReady
  <2>1. pc = "gateway_ready" /\ (pc' = "manifest" \/ pc' = "cleanup_gateway")
    BY <1>15 DEF RecordGatewayReady
  <2> QED
    BY <2>1 DEF LinesAhead
<1>16. CASE CleanUp
  <2>1. pc \in {"cleanup", "cleanup_gateway"} /\ pc' \in {"record_failed", "record_failed_gateway"}
    BY <1>16 DEF CleanUp, AfterFailed, FailedPhase
  <2> QED
    BY <2>1 DEF LinesAhead
<1>17. CASE RecordFailed
  <2>1. pc \in {"record_failed", "record_failed_gateway"} /\ pc' \in {"manifest_failed", "failed"}
    BY <1>17 DEF RecordFailed
  <2> QED
    BY <2>1 DEF LinesAhead
<1>18. CASE WriteFailureManifest
  <2>1. pc = "manifest_failed" /\ pc' = "failed"
    BY <1>18 DEF WriteFailureManifest
  <2> QED
    BY <2>1 DEF LinesAhead
<1>19. CASE WriteSuccessManifest
  <2>1. pc = "manifest" /\ (pc' = "succeeded" \/ pc' = "failed")
    BY <1>19 DEF WriteSuccessManifest
  <2> QED
    BY <2>1 DEF LinesAhead
<1> QED
  BY <1>1, <1>2, <1>3, <1>4, <1>5, <1>6, <1>7, <1>8, <1>9, <1>10, <1>11, <1>12, <1>13, <1>14,
     <1>15, <1>16, <1>17, <1>18, <1>19 DEF Controller

(* Every failure of a docker command, a phase or a write sends deploy         *)
(* forward, never back: a deployment is over after eighteen steps of the      *)
(* controller, and neither the trainer, LiteLLM nor a call that is under way  *)
(* moves it.                                                                  *)
THEOREM DeploymentIsBounded ==
  Spec => /\ [](LinesAhead \in 0..18)
          /\ [][IF Controller THEN LinesAhead' < LinesAhead ELSE UNCHANGED pc]_vars
<1>1. TypeOK => LinesAhead \in 0..18
  BY DEF TypeOK, Labels, LinesAhead
<1>2. TypeOK /\ [Next]_vars => IF Controller THEN LinesAhead' < LinesAhead ELSE UNCHANGED pc
  <2>1. ASSUME [Next]_vars, ~Controller PROVE UNCHANGED pc
    BY <2>1 DEF Next, vars, control, ServingWorks, GatewayWorks, GatewayFades,
       WorkerReports, TrainerExits, Crash
  <2> QED
    BY <2>1, ControllerAdvances
<1> QED
  BY <1>1, <1>2, TypeCorrect, PTL DEF Spec

=============================================================================
