------------------------- MODULE RunLifecycleProofs -------------------------
(***************************************************************************)
(* Proofs about RunLifecycle, for any number of executions, whatever run   *)
(* ids they try and whatever directories are there before them.            *)
(***************************************************************************)
EXTENDS RunLifecycle, TLAPS

-----------------------------------------------------------------------------
(* The inductive invariant, in named parts. *)

\* An execution past the allocation owns the directory of its run id.
Placed(e) ==
  /\ pc[e] \notin {"allocate", "raised", "killed"} => runId[e] # "none"
  /\ pc[e] = "allocate" => runId[e] = "none"
  /\ runId[e] # "none" => dirs[runId[e]] = e

Placement == \A e \in Executions : Placed(e)

\* A file was written by the execution that made its directory.
Attributed(n) ==
  /\ dirs[n] = "free" => disk[n] = Missing
  /\ dirs[n] = "older" => disk[n] = Metadata("older", "success")
  /\ dirs[n] \in Executions => runId[dirs[n]] = n /\ disk[n].run \in {"none", dirs[n]}

ServingLabels == {"serving_status", "serving_starting", "serve", "serving_ready", "serving_handoff"}
GatewayLabels == {"gateway_status", "gateway_starting", "register", "gateway_ready",
                  "gateway_handoff"}
EndLabels == {"succeed", "log", "returned"}

\* current_phase and the job tell how far the try block has come.
PhasePosition(e) ==
  /\ pc[e] \in ServingLabels => phase[e] = "serving" /\ LastPhase[e] # "training"
  /\ pc[e] \in GatewayLabels => phase[e] = "gateway" /\ LastPhase[e] = "gateway"
  /\ pc[e] = "trained_phase" => LastPhase[e] # "training"
  /\ pc[e] \in {"allocate", "create", "copy_config", "own", "prepare", "begin", "train",
                "verifying", "validate", "trained", "trained_phase"} => phase[e] = "training"

\* What RunManager remembers by then.
MemoryPosition(e) ==
  /\ pc[e] \notin {"allocate", "create", "killed"} /\ runId[e] # "none" => memory[e].run = e
  /\ phase[e] # "training" \/ pc[e] \in {"trained", "trained_phase"} \cup EndLabels =>
       memory[e].verified = TRUE
  /\ phase[e] # "training" => memory[e].phases["training"] = "success"
  /\ phase[e] = "gateway" \/ pc[e] = "serving_handoff" => memory[e].phases["serving"] = "ready"
  /\ pc[e] = "gateway_handoff" => memory[e].phases["gateway"] = "ready"
  /\ pc[e] = "mark_failed" /\ phase[e] # "training" => memory[e].phases[phase[e]] = "failed"
  /\ pc[e] \in EndLabels /\ LastPhase[e] # "training" =>
       /\ memory[e].handoff = LastPhase[e]
       /\ memory[e].phases["serving"] = "ready"
       /\ LastPhase[e] = "gateway" => memory[e].phases["gateway"] = "ready"

\* A document may claim success only late, or after a failed write, and
\* then of a whole run; it says failed only at the very end.
Sound(e, d) ==
  /\ d.status = "success" =>
       \/ pc[e] \in {"log", "returned", "killed"}
       \/ fault[e] = TRUE /\ pc[e] \in {"except", "mark_failed", "raised"}
  /\ d.status = "failed" => pc[e] = "raised"
  /\ d.status = "success" =>
       /\ d.verified = TRUE
       /\ LastPhase[e] # "training" => d.handoff = LastPhase[e]
       /\ LastPhase[e] = "training" \/ fault[e] = TRUE \/ d.phases["serving"] = "ready"
       /\ LastPhase[e] # "gateway" \/ fault[e] = TRUE \/ d.phases["gateway"] = "ready"

\* How the file stands when the call is over.
DiskPosition(e) ==
  runId[e] # "none" =>
    /\ Sound(e, disk[runId[e]])
    /\ pc[e] \in {"log", "returned"} => disk[runId[e]].status = "success"
    /\ pc[e] = "raised" /\ fault[e] # TRUE =>
         /\ disk[runId[e]].status = "failed"
         /\ phase[e] # "training" =>
              /\ disk[runId[e]].verified = TRUE
              /\ disk[runId[e]].phases["training"] = "success"
              /\ disk[runId[e]].phases[phase[e]] = "failed"
         /\ phase[e] = "gateway" => disk[runId[e]].phases["serving"] = "ready"

Local(e) == PhasePosition(e) /\ MemoryPosition(e) /\ Sound(e, memory[e]) /\ DiskPosition(e)

RunInv ==
  /\ TypeOK
  /\ Placement
  /\ \A n \in Names : Attributed(n)
  /\ \A e \in Executions : Local(e)

-----------------------------------------------------------------------------
(* Type correctness. *)

TypeButPhase ==
  /\ dirs \in [Names -> Executions \cup {"free", "older"}]
  /\ disk \in [Names -> Document]
  /\ memory \in [Executions -> Document]
  /\ runId \in [Executions -> Names \cup {"none"}]
  /\ attempt \in [Executions -> 1..MaxAttempts]
  /\ pc \in [Executions -> Labels]
  /\ fault \in [Executions -> BOOLEAN]

LEMMA SavedType ==
  ASSUME TypeOK, NEW e \in Executions, NEW new \in Document, NEW next \in Labels,
         NEW handler \in Labels, runId[e] \in Names, Save(e, new, next, handler)
  PROVE  TypeButPhase'
<1> USE DEF Save, Faults, Goto, TypeButPhase
<1>1. UNCHANGED <<dirs, runId, attempt>>
  OBVIOUS
<1>2. memory' \in [Executions -> Document]
  BY DEF TypeOK
<1>3. CASE /\ disk' = [disk EXCEPT ![runId[e]] = new]
           /\ Goto(e, next)
           /\ UNCHANGED fault
  BY <1>1, <1>2, <1>3 DEF TypeOK
<1>4. CASE Faults(e, handler)
  BY <1>1, <1>2, <1>4 DEF TypeOK
<1> QED
  BY <1>3, <1>4

LEMMA StatusType ==
  ASSUME NEW d \in Document, NEW status \in Statuses
  PROVE  [d EXCEPT !.status = status] \in Document
BY DEF Document

LEMMA PhaseType ==
  ASSUME NEW d \in Document, NEW p \in Phases,
         NEW status \in {"none", "starting", "ready", "success", "failed"}
  PROVE  [d EXCEPT !.phases[p] = status] \in Document
BY DEF Document

LEMMA OtherTypes ==
  ASSUME NEW d \in Document
  PROVE  /\ [d EXCEPT !.verified = TRUE] \in Document
         /\ \A h \in {"serving", "gateway"} : [d EXCEPT !.handoff = h] \in Document
BY DEF Document

LEMMA MetadataType ==
  ASSUME NEW e \in Executions
  PROVE  Metadata(e, "created") \in Document
BY DEF Metadata, Document, Statuses

LEMMA MissingType ==
  /\ Missing \in Document
  /\ Metadata("older", "success") \in Document
BY DEF Missing, Metadata, Document, Statuses

LEMMA SetStatusType ==
  ASSUME TypeOK, NEW e \in Executions, NEW status \in Statuses, NEW next \in Labels,
         NEW handler \in Labels, runId[e] \in Names, SetStatus(e, status, next, handler)
  PROVE  TypeButPhase'
<1>1. memory[e] \in Document
  BY DEF TypeOK
<1>2. [memory[e] EXCEPT !.status = status] \in Document
  BY <1>1, StatusType
<1> QED
  BY <1>2, SavedType DEF SetStatus

LEMMA RecordPhaseType ==
  ASSUME TypeOK, NEW e \in Executions, NEW p \in Phases,
         NEW status \in {"none", "starting", "ready", "success", "failed"},
         NEW next \in Labels, NEW handler \in Labels, runId[e] \in Names,
         RecordPhase(e, p, status, next, handler)
  PROVE  TypeButPhase'
<1>1. memory[e] \in Document
  BY DEF TypeOK
<1>2. [memory[e] EXCEPT !.phases[p] = status] \in Document
  BY <1>1, PhaseType
<1> QED
  BY <1>2, SavedType DEF RecordPhase

LEMMA RaisedType ==
  ASSUME TypeOK, NEW e \in Executions, NEW handler \in Labels, Raise(e, handler)
  PROVE  TypeOK'
BY DEF TypeOK, Raise, Goto

LEMMA FaultedType ==
  ASSUME TypeOK, NEW e \in Executions, NEW handler \in Labels, Faults(e, handler),
         UNCHANGED <<dirs, memory, runId, attempt, phase>>
  PROVE  TypeOK'
BY DEF TypeOK, Faults, Goto

LEMMA TypeStep ==
  ASSUME TypeOK, Placement, NEW e \in Executions, Step(e) \/ Kill(e)
  PROVE  TypeOK'
<1>0. /\ memory[e] \in Document
      /\ pc[e] \notin {"allocate", "raised", "killed"} => runId[e] \in Names
  BY DEF TypeOK, Placement, Placed
<1>1. CASE Allocate(e)
  <2> DEFINE name == NameOf[e][attempt[e]]
  <2>1. name \in Names
    BY ConstantsAssumption DEF TypeOK
  <2>2. CASE /\ dirs' = [dirs EXCEPT ![name] = e]
             /\ runId' = [runId EXCEPT ![e] = name]
             /\ Goto(e, "create")
             /\ UNCHANGED attempt
    <3>1. "create" \in Labels
      BY DEF Labels
    <3> QED
      BY <1>1, <2>1, <2>2, <3>1 DEF Allocate, Goto, TypeOK
  <2>3. CASE /\ attempt[e] < MaxAttempts
             /\ attempt' = [attempt EXCEPT ![e] = @ + 1]
             /\ UNCHANGED <<dirs, runId, pc>>
    <3>1. attempt[e] + 1 \in 1..MaxAttempts
      BY <2>3, ConstantsAssumption DEF TypeOK
    <3> QED
      BY <1>1, <2>3, <3>1 DEF Allocate, TypeOK
  <2> QED
    BY <1>1, <2>2, <2>3 DEF Allocate
<1>2. CASE AllocateFails(e)
  BY <1>2, RaisedType DEF AllocateFails, Labels
<1>3. CASE Create(e)
  <2>1. TypeButPhase'
    BY <1>3, <1>0, SavedType, MetadataType DEF Create, Labels
  <2> QED
    BY <1>3, <2>1 DEF Create, TypeOK, TypeButPhase
<1>4. CASE CopyConfig(e)
  BY <1>4, RaisedType DEF CopyConfig, Labels
<1>5. CASE Own(e)
  BY <1>5, RaisedType, FaultedType DEF Own, Labels
<1>6. CASE Prepare(e)
  <2>1. CASE Raise(e, "mark_failed")
    BY <2>1, RaisedType DEF Labels
  <2>2. CASE SetStatus(e, "prepared", "begin", "mark_failed") /\ UNCHANGED phase
    <3>1. TypeButPhase'
      BY <1>6, <1>0, <2>2, SetStatusType DEF Prepare, Statuses, Labels
    <3> QED
      BY <2>2, <3>1 DEF TypeOK, TypeButPhase
  <2> QED
    BY <1>6, <2>1, <2>2 DEF Prepare
<1>7. CASE Begin(e)
  <2>1. TypeButPhase'
    BY <1>7, <1>0, SetStatusType DEF Begin, Statuses, Labels
  <2> QED
    BY <1>7, <2>1 DEF Begin, TypeOK, TypeButPhase
<1>8. CASE Train(e)
  BY <1>8, RaisedType DEF Train, Labels
<1>9. CASE Verifying(e)
  <2>1. TypeButPhase'
    BY <1>9, <1>0, SetStatusType DEF Verifying, Statuses, Labels
  <2> QED
    BY <1>9, <2>1 DEF Verifying, TypeOK, TypeButPhase
<1>10. CASE Validate(e)
  <2> DEFINE new == [memory[e] EXCEPT !.verified = TRUE]
  <2>1. CASE Raise(e, "except")
    BY <2>1, RaisedType DEF Labels
  <2>2. CASE Save(e, new, "trained", "except") /\ UNCHANGED phase
    <3>1. new \in Document
      BY <1>0, OtherTypes
    <3> HIDE DEF new
    <3>2. TypeButPhase'
      BY <1>10, <1>0, <2>2, <3>1, SavedType DEF Validate, Labels
    <3> QED
      BY <2>2, <3>2 DEF TypeOK, TypeButPhase
  <2> QED
    BY <1>10, <2>1, <2>2 DEF Validate
<1>11. CASE Trained(e)
  BY <1>11, RaisedType DEF Trained, Labels
<1>12. CASE TrainedPhase(e)
  <2>1. RecordPhase(e, "training", "success", "serving_status", "except") /\ runId[e] \in Names
    BY <1>12, <1>0 DEF TrainedPhase
  <2>2. \A label \in {"serving_status", "serve", "except"} : label \in Labels
    BY DEF Labels
  <2>3. TypeButPhase'
    BY <2>1, <2>2, RecordPhaseType DEF Phases
  <2> QED
    BY <1>12, <2>3 DEF TrainedPhase, TypeOK, TypeButPhase, SetPhase, Phases
<1>13. CASE ServingStatus(e)
  <2>1. TypeButPhase'
    BY <1>13, <1>0, SetStatusType DEF ServingStatus, Statuses, Labels
  <2> QED
    BY <1>13, <2>1 DEF ServingStatus, TypeOK, TypeButPhase
<1>14. CASE ServingStarting(e)
  <2>1. RecordPhase(e, "serving", "starting", "serve", "except") /\ runId[e] \in Names
    BY <1>14, <1>0 DEF ServingStarting
  <2>2. \A label \in {"serving_status", "serve", "except"} : label \in Labels
    BY DEF Labels
  <2>3. TypeButPhase'
    BY <2>1, <2>2, RecordPhaseType DEF Phases
  <2> QED
    BY <1>14, <2>3 DEF ServingStarting, TypeOK, TypeButPhase
<1>15. CASE Serve(e)
  BY <1>15, RaisedType DEF Serve, Labels
<1>16. CASE ServingReady(e)
  <2>1. TypeButPhase'
    BY <1>16, <1>0, RecordPhaseType DEF ServingReady, Phases, Labels
  <2> QED
    BY <1>16, <2>1 DEF ServingReady, TypeOK, TypeButPhase
<1>17. CASE ServingHandoff(e)
  <2> DEFINE new == [memory[e] EXCEPT !.handoff = "serving"]
  <2> DEFINE next == IF LastPhase[e] = "gateway" THEN "gateway_status" ELSE "succeed"
  <2>1. new \in Document
    BY <1>0, OtherTypes
  <2>2. next \in Labels
    BY DEF Labels
  <2>3. Save(e, new, next, "except")
    BY <1>17 DEF ServingHandoff
  <2> HIDE DEF new, next
  <2>4. TypeButPhase'
    BY <1>17, <1>0, <2>1, <2>2, <2>3, SavedType DEF ServingHandoff, Labels
  <2> QED
    BY <1>17, <2>4 DEF ServingHandoff, TypeOK, TypeButPhase, SetPhase, Phases
<1>18. CASE GatewayStatus(e)
  <2>1. TypeButPhase'
    BY <1>18, <1>0, SetStatusType DEF GatewayStatus, Statuses, Labels
  <2> QED
    BY <1>18, <2>1 DEF GatewayStatus, TypeOK, TypeButPhase
<1>19. CASE GatewayStarting(e)
  <2>1. TypeButPhase'
    BY <1>19, <1>0, RecordPhaseType DEF GatewayStarting, Phases, Labels
  <2> QED
    BY <1>19, <2>1 DEF GatewayStarting, TypeOK, TypeButPhase
<1>20. CASE Register(e)
  BY <1>20, RaisedType DEF Register, Labels
<1>21. CASE GatewayReady(e)
  <2>1. TypeButPhase'
    BY <1>21, <1>0, RecordPhaseType DEF GatewayReady, Phases, Labels
  <2> QED
    BY <1>21, <2>1 DEF GatewayReady, TypeOK, TypeButPhase
<1>22. CASE GatewayHandoff(e)
  <2> DEFINE new == [memory[e] EXCEPT !.handoff = "gateway"]
  <2> DEFINE next == "succeed"
  <2>1. new \in Document
    BY <1>0, OtherTypes
  <2>2. next \in Labels
    BY DEF Labels
  <2>3. Save(e, new, next, "except")
    BY <1>22 DEF GatewayHandoff
  <2> HIDE DEF new, next
  <2>4. TypeButPhase'
    BY <1>22, <1>0, <2>1, <2>2, <2>3, SavedType DEF GatewayHandoff, Labels
  <2> QED
    BY <1>22, <2>4 DEF GatewayHandoff, TypeOK, TypeButPhase
<1>23. CASE Succeed(e)
  <2>1. TypeButPhase'
    BY <1>23, <1>0, SetStatusType DEF Succeed, Statuses, Labels
  <2> QED
    BY <1>23, <2>1 DEF Succeed, TypeOK, TypeButPhase
<1>24. CASE Log(e)
  BY <1>24, RaisedType, FaultedType DEF Log, Labels
<1>25. CASE RecordFailure(e)
  <2>1. CASE Raise(e, "mark_failed")
    BY <2>1, RaisedType DEF Labels
  <2>2. CASE RecordPhase(e, phase[e], "failed", "mark_failed", "raised") /\ UNCHANGED phase
    <3>1. phase[e] \in Phases
      BY DEF TypeOK
    <3>2. TypeButPhase'
      BY <1>25, <1>0, <2>2, <3>1, RecordPhaseType DEF RecordFailure, Labels
    <3> QED
      BY <2>2, <3>2 DEF TypeOK, TypeButPhase
  <2> QED
    BY <1>25, <2>1, <2>2 DEF RecordFailure
<1>26. CASE MarkFailed(e)
  <2>1. TypeButPhase'
    BY <1>26, <1>0, SetStatusType DEF MarkFailed, Statuses, Labels
  <2> QED
    BY <1>26, <2>1 DEF MarkFailed, TypeOK, TypeButPhase
<1>27. CASE Kill(e)
  BY <1>27, RaisedType DEF Kill, Labels
<1> QED
  BY <1>1, <1>2, <1>3, <1>4, <1>5, <1>6, <1>7, <1>8, <1>9, <1>10, <1>11, <1>12, <1>13,
     <1>14, <1>15, <1>16, <1>17, <1>18, <1>19, <1>20, <1>21, <1>22, <1>23, <1>24,
     <1>25, <1>26, <1>27 DEF Step

-----------------------------------------------------------------------------
(* Where a step of one execution may change anything. *)

Frame(e) ==
  /\ pc[e] \notin {"returned", "raised", "killed"}
  /\ \A f \in Executions \ {e} :
       /\ memory'[f] = memory[f] /\ runId'[f] = runId[f] /\ pc'[f] = pc[f]
       /\ phase'[f] = phase[f] /\ fault'[f] = fault[f]
  /\ \A n \in Names :
       \/ dirs'[n] = dirs[n]
       \/ dirs[n] = "free" /\ dirs'[n] = e /\ runId[e] = "none" /\ runId'[e] = n
  /\ \A n \in Names :
       \/ disk'[n] = disk[n]
       \/ /\ n = runId[e] /\ disk'[n] = memory'[e] /\ pc'[e] # pc[e]
          /\ pc[e] # "log" /\ pc'[e] \notin {"allocate", "create", "killed"}
  /\ pc[e] # "allocate" => pc'[e] # "allocate" /\ runId'[e] = runId[e]
  /\ \/ runId'[e] = runId[e]
     \/ /\ runId[e] = "none" /\ pc'[e] = "create"
        /\ runId'[e] \in Names /\ dirs[runId'[e]] = "free" /\ dirs'[runId'[e]] = e
  /\ pc[e] = "allocate" => pc'[e] \in {"allocate", "raised", "killed"} \/ runId'[e] # runId[e]

LEMMA SavedFrame ==
  ASSUME TypeOK, NEW e \in Executions, NEW new, NEW next, NEW handler,
         pc[e] \notin {"allocate", "log", "returned", "raised", "killed"},
         next \notin {pc[e], "allocate", "create", "killed"},
         handler \notin {pc[e], "allocate", "create", "killed"},
         runId[e] \in Names, Save(e, new, next, handler),
         \A f \in Executions \ {e} : phase'[f] = phase[f]
  PROVE  Frame(e)
<1> USE DEF Save, Goto
<1>1. CASE /\ disk' = [disk EXCEPT ![runId[e]] = new]
           /\ Goto(e, next)
           /\ UNCHANGED fault
  BY <1>1 DEF TypeOK, Frame
<1>2. CASE Faults(e, handler)
  BY <1>2 DEF TypeOK, Faults, Frame
<1> QED
  BY <1>1, <1>2

LEMMA RaisedFrame ==
  ASSUME TypeOK, NEW e \in Executions, NEW handler, Raise(e, handler),
         pc[e] \notin {"returned", "raised", "killed"}, handler # "allocate",
         pc[e] = "allocate" => handler \in {"raised", "killed"}
  PROVE  Frame(e)
BY DEF TypeOK, Raise, Goto, Frame

LEMMA FaultedFrame ==
  ASSUME TypeOK, NEW e \in Executions, NEW handler, Faults(e, handler),
         pc[e] \notin {"allocate", "returned", "raised", "killed"}, handler # "allocate",
         UNCHANGED <<dirs, memory, runId, attempt, phase>>
  PROVE  Frame(e)
BY DEF TypeOK, Faults, Goto, Frame

LEMMA StepFrame ==
  ASSUME TypeOK, Placement, NEW e \in Executions, Step(e) \/ Kill(e)
  PROVE  Frame(e)
<1>0. pc[e] \notin {"allocate", "raised", "killed"} => runId[e] \in Names
  BY DEF TypeOK, Placement, Placed
<1>1. CASE Allocate(e)
  <2> DEFINE name == NameOf[e][attempt[e]]
  <2>1. name \in Names /\ runId[e] = "none"
    BY <1>1, ConstantsAssumption DEF Allocate, TypeOK, Placement, Placed
  <2>2. CASE dirs[name] = "free" /\ dirs' = [dirs EXCEPT ![name] = e]
             /\ runId' = [runId EXCEPT ![e] = name] /\ Goto(e, "create")
    <3>1. /\ pc[e] = "allocate" /\ pc'[e] = "create" /\ runId'[e] = name
          /\ dirs'[name] = e /\ name # "none" /\ disk' = disk
          /\ \A n \in Names \ {name} : dirs'[n] = dirs[n]
          /\ \A f \in Executions \ {e} : pc'[f] = pc[f] /\ runId'[f] = runId[f]
          /\ memory' = memory /\ phase' = phase /\ fault' = fault
      BY <1>1, <2>1, <2>2, ConstantsAssumption DEF Allocate, TypeOK, Goto
    <3> HIDE DEF name
    <3> QED
      BY <2>1, <2>2, <3>1 DEF Frame
  <2>3. CASE UNCHANGED <<dirs, runId, pc>>
    BY <1>1, <2>3 DEF Allocate, Frame
  <2> QED
    BY <1>1, <2>2, <2>3 DEF Allocate
<1>2. CASE AllocateFails(e)
  BY <1>2, RaisedFrame DEF AllocateFails
<1>3. CASE Create(e)
  BY <1>3, <1>0, RaisedFrame, SavedFrame DEF Create
<1>4. CASE CopyConfig(e)
  BY <1>4, RaisedFrame DEF CopyConfig
<1>5. CASE Own(e)
  BY <1>5, RaisedFrame, FaultedFrame DEF Own
<1>6. CASE Prepare(e)
  BY <1>6, <1>0, RaisedFrame, SavedFrame DEF Prepare, SetStatus
<1>7. CASE Begin(e)
  BY <1>7, <1>0, RaisedFrame, SavedFrame DEF Begin, SetStatus
<1>8. CASE Train(e)
  BY <1>8, RaisedFrame DEF Train
<1>9. CASE Verifying(e)
  BY <1>9, <1>0, RaisedFrame, SavedFrame DEF Verifying, SetStatus
<1>10. CASE Validate(e)
  BY <1>10, <1>0, RaisedFrame, SavedFrame DEF Validate
<1>11. CASE Trained(e)
  BY <1>11, RaisedFrame DEF Trained
<1>12. CASE TrainedPhase(e)
  BY <1>12, <1>0, RaisedFrame, SavedFrame DEF TrainedPhase, RecordPhase, SetPhase, TypeOK
<1>13. CASE ServingStatus(e)
  BY <1>13, <1>0, RaisedFrame, SavedFrame DEF ServingStatus, SetStatus
<1>14. CASE ServingStarting(e)
  BY <1>14, <1>0, RaisedFrame, SavedFrame DEF ServingStarting, RecordPhase
<1>15. CASE Serve(e)
  BY <1>15, RaisedFrame DEF Serve
<1>16. CASE ServingReady(e)
  BY <1>16, <1>0, RaisedFrame, SavedFrame DEF ServingReady, RecordPhase
<1>17. CASE ServingHandoff(e)
  BY <1>17, <1>0, RaisedFrame, SavedFrame DEF ServingHandoff, SetPhase, TypeOK
<1>18. CASE GatewayStatus(e)
  BY <1>18, <1>0, RaisedFrame, SavedFrame DEF GatewayStatus, SetStatus
<1>19. CASE GatewayStarting(e)
  BY <1>19, <1>0, RaisedFrame, SavedFrame DEF GatewayStarting, RecordPhase
<1>20. CASE Register(e)
  BY <1>20, RaisedFrame DEF Register
<1>21. CASE GatewayReady(e)
  BY <1>21, <1>0, RaisedFrame, SavedFrame DEF GatewayReady, RecordPhase
<1>22. CASE GatewayHandoff(e)
  BY <1>22, <1>0, RaisedFrame, SavedFrame DEF GatewayHandoff
<1>23. CASE Succeed(e)
  BY <1>23, <1>0, RaisedFrame, SavedFrame DEF Succeed, SetStatus
<1>24. CASE Log(e)
  BY <1>24, RaisedFrame, FaultedFrame DEF Log
<1>25. CASE RecordFailure(e)
  BY <1>25, <1>0, RaisedFrame, SavedFrame DEF RecordFailure, RecordPhase
<1>26. CASE MarkFailed(e)
  BY <1>26, <1>0, RaisedFrame, SavedFrame DEF MarkFailed, SetStatus
<1>27. CASE Kill(e)
  BY <1>27, RaisedFrame DEF Kill, Over
<1> QED
  BY <1>1, <1>2, <1>3, <1>4, <1>5, <1>6, <1>7, <1>8, <1>9, <1>10, <1>11, <1>12, <1>13,
     <1>14, <1>15, <1>16, <1>17, <1>18, <1>19, <1>20, <1>21, <1>22, <1>23, <1>24,
     <1>25, <1>26, <1>27 DEF Step

-----------------------------------------------------------------------------
(* What a step does to its own execution. *)

\* The file holds the new document, or still the old one after a failure.
Saved(e, new, next, handler) ==
  /\ memory'[e] = new
  /\ runId'[e] = runId[e] /\ runId[e] # "none"
  /\ \/ disk'[runId[e]] = new /\ pc'[e] = next /\ fault'[e] = fault[e]
     \/ disk'[runId[e]] = disk[runId[e]] /\ pc'[e] = handler /\ fault'[e] = TRUE

Raised(e, next) ==
  /\ memory'[e] = memory[e] /\ runId'[e] = runId[e] /\ phase'[e] = phase[e]
  /\ disk' = disk /\ pc'[e] = next /\ fault'[e] = fault[e]

Faulted(e, next) ==
  /\ memory'[e] = memory[e] /\ runId'[e] = runId[e] /\ phase'[e] = phase[e]
  /\ disk' = disk /\ pc'[e] = next /\ fault'[e] = TRUE

LEMMA SaveEffect ==
  ASSUME TypeOK, NEW e \in Executions, NEW new, NEW next, NEW handler,
         runId[e] \in Names, Save(e, new, next, handler)
  PROVE  Saved(e, new, next, handler)
<1>1. runId[e] # "none"
  BY ConstantsAssumption
<1> QED
  BY <1>1 DEF TypeOK, Save, Faults, Goto, Saved

LEMMA RaiseEffect ==
  ASSUME TypeOK, NEW e \in Executions, NEW next, Raise(e, next)
  PROVE  Raised(e, next)
BY DEF TypeOK, Raise, Goto, Raised

LEMMA FaultEffect ==
  ASSUME TypeOK, NEW e \in Executions, NEW next, Faults(e, next),
         UNCHANGED <<dirs, memory, runId, attempt, phase>>
  PROVE  Faulted(e, next)
BY DEF TypeOK, Faults, Goto, Faulted

\* After a write the file is sound if the document is.
LEMMA SavedDisk ==
  ASSUME NEW e \in Executions, NEW new, NEW next, NEW handler, Saved(e, new, next, handler),
         DiskPosition(e), Sound(e, memory[e])',
         pc[e] \notin {"log", "returned", "raised", "killed"},
         handler \in {"except", "mark_failed", "raised"}, next # "raised",
         next \in {"log", "returned"} => new.status = "success"
  PROVE  DiskPosition(e)'
<1> USE DEF Saved
<1> DEFINE r == runId[e]
<1>1. runId'[e] = r /\ r # "none"
  OBVIOUS
<1>2. Sound(e, disk[r])
  BY <1>1 DEF DiskPosition
<1>3. CASE disk'[r] = new /\ pc'[e] = next /\ fault'[e] = fault[e]
  <2>1. Sound(e, disk[r])'
    BY <1>1, <1>3 DEF Sound
  <2> HIDE DEF r
  <2> QED
    BY <1>1, <1>3, <2>1 DEF DiskPosition, r
<1>4. CASE disk'[r] = disk[r] /\ pc'[e] = handler /\ fault'[e] = TRUE
  <2>1. Sound(e, disk[r])'
    BY <1>1, <1>2, <1>4 DEF Sound
  <2> QED
    BY <1>1, <1>4, <2>1 DEF DiskPosition
<1> QED
  BY <1>3, <1>4

LEMMA StatusFields ==
  ASSUME NEW d \in Document, NEW status
  PROVE  LET new == [d EXCEPT !.status = status] IN
         /\ new.status = status
         /\ new.run = d.run /\ new.verified = d.verified
         /\ new.phases = d.phases /\ new.handoff = d.handoff
BY DEF Document

LEMMA PhaseFields ==
  ASSUME NEW d \in Document, NEW p \in Phases, NEW status
  PROVE  LET new == [d EXCEPT !.phases[p] = status] IN
         /\ new.phases[p] = status
         /\ \A q \in Phases \ {p} : new.phases[q] = d.phases[q]
         /\ new.run = d.run /\ new.verified = d.verified
         /\ new.status = d.status /\ new.handoff = d.handoff
BY DEF Document

LEMMA OtherFields ==
  ASSUME NEW d \in Document
  PROVE  /\ LET new == [d EXCEPT !.verified = TRUE] IN
            /\ new.verified = TRUE
            /\ new.run = d.run /\ new.status = d.status
            /\ new.phases = d.phases /\ new.handoff = d.handoff
         /\ \A h \in {"serving", "gateway"} :
              LET new == [d EXCEPT !.handoff = h] IN
              /\ new.handoff = h
              /\ new.run = d.run /\ new.verified = d.verified
              /\ new.phases = d.phases /\ new.status = d.status
BY DEF Document

LEMMA LocalStep ==
  ASSUME RunInv, NEW e \in Executions, Step(e) \/ Kill(e)
  PROVE  Local(e)'
<1>0. /\ TypeOK /\ Placement /\ \A n \in Names : Attributed(n)
      /\ PhasePosition(e) /\ MemoryPosition(e) /\ Sound(e, memory[e]) /\ DiskPosition(e)
      /\ memory[e] \in Document /\ phase[e] \in Phases
      /\ LastPhase[e] \in {"training", "serving", "gateway"}
      /\ pc[e] \notin {"allocate", "raised", "killed"} => runId[e] \in Names
  BY ConstantsAssumption DEF RunInv, Local, TypeOK, Placement, Placed
<1>1. CASE Allocate(e)
  <2> DEFINE name == NameOf[e][attempt[e]]
  <2>1. name \in Names /\ runId[e] = "none"
    BY <1>1, <1>0, ConstantsAssumption DEF Allocate, TypeOK, Placement, Placed
  <2>2. CASE /\ dirs[name] = "free" /\ runId' = [runId EXCEPT ![e] = name]
             /\ Goto(e, "create")
    <3>1. disk[name] = Missing
      BY <1>0, <2>1, <2>2 DEF Attributed
    <3>2. /\ runId'[e] = name /\ pc'[e] = "create" /\ disk' = disk
          /\ memory' = memory /\ phase' = phase /\ fault' = fault
      BY <1>1, <1>0, <2>2 DEF Allocate, Goto, TypeOK
    <3>3. pc[e] = "allocate" /\ Missing.status = "missing"
      BY <1>1 DEF Allocate, Missing, Metadata
    <3> HIDE DEF name
    <3>4. PhasePosition(e)'
      BY <1>0, <2>1, <3>1, <3>2, <3>3 DEF PhasePosition, ServingLabels, GatewayLabels,
         EndLabels
    <3>5. MemoryPosition(e)'
      BY <1>0, <2>1, <3>1, <3>2, <3>3 DEF PhasePosition, MemoryPosition, Phases,
         ServingLabels, GatewayLabels, EndLabels
    <3>6. Sound(e, memory[e])'
      BY <1>0, <2>1, <3>1, <3>2, <3>3 DEF PhasePosition, MemoryPosition, Sound, Phases,
         ServingLabels, GatewayLabels, EndLabels
    <3>7. DiskPosition(e)'
      BY <1>0, <2>1, <3>1, <3>2, <3>3 DEF PhasePosition, MemoryPosition, Sound,
         DiskPosition, Phases, ServingLabels, GatewayLabels, EndLabels
    <3> QED
      BY <3>4, <3>5, <3>6, <3>7 DEF Local
  <2>3. CASE UNCHANGED <<dirs, runId, pc>>
    BY <1>0, <1>1, <2>3 DEF Allocate, Local, PhasePosition, MemoryPosition, Sound,
       DiskPosition, ServingLabels, GatewayLabels, EndLabels
  <2> QED
    BY <1>1, <2>2, <2>3 DEF Allocate
<1>2. CASE AllocateFails(e)
  <2>1. pc[e] = "allocate"
    BY <1>2 DEF AllocateFails
  <2>2. Raised(e, "raised")
    BY <1>2, <1>0, RaiseEffect DEF AllocateFails
  <2>4. PhasePosition(e)'
    BY <1>0, <2>1, <2>2 DEF PhasePosition, ServingLabels, GatewayLabels, EndLabels,
       Raised, Placement, Placed
  <2>5. MemoryPosition(e)'
    BY <1>0, <2>1, <2>2 DEF PhasePosition, MemoryPosition, Phases, ServingLabels,
       GatewayLabels, EndLabels, Raised, Placement, Placed
  <2>6. Sound(e, memory[e])'
    BY <1>0, <2>1, <2>2 DEF PhasePosition, MemoryPosition, Sound, Phases, ServingLabels,
       GatewayLabels, EndLabels, Raised, Placement, Placed
  <2>7. DiskPosition(e)'
    BY <1>0, <2>1, <2>2 DEF PhasePosition, MemoryPosition, Sound, DiskPosition, Phases,
       ServingLabels, GatewayLabels, EndLabels, Raised, Placement, Placed
  <2> QED
    BY <2>4, <2>5, <2>6, <2>7 DEF Local
<1>3. CASE Create(e)
  <2> DEFINE new == Metadata(e, "created")
  <2>1. new.run = e /\ new.status = "created"
    BY DEF Metadata
  <2>2. /\ Saved(e, new, "copy_config", "raised")
       /\ pc[e] = "create" /\ phase'[e] = phase[e]
    BY <1>3, <1>0, SaveEffect DEF Create
  <2> HIDE DEF new
  <2>4. PhasePosition(e)'
    BY <1>0, <2>1, <2>2 DEF PhasePosition, ServingLabels, GatewayLabels, EndLabels,
       Saved
  <2>5. MemoryPosition(e)'
    BY <1>0, <2>1, <2>2 DEF PhasePosition, MemoryPosition, Phases, ServingLabels,
       GatewayLabels, EndLabels, Saved
  <2>6. Sound(e, memory[e])'
    BY <1>0, <2>1, <2>2 DEF PhasePosition, MemoryPosition, Sound, Phases,
       ServingLabels, GatewayLabels, EndLabels, Saved
  <2>7. DiskPosition(e)'
    BY <1>0, <2>1, <2>2, <2>6, SavedDisk
  <2> QED
    BY <2>4, <2>5, <2>6, <2>7 DEF Local
<1>4. CASE CopyConfig(e)
  <2>1. pc[e] = "copy_config"
    BY <1>4 DEF CopyConfig
  <2>2. Raised(e, "own") \/ Raised(e, "mark_failed")
    BY <1>4, <1>0, RaiseEffect DEF CopyConfig
  <2>4. PhasePosition(e)'
    BY <1>0, <2>1, <2>2 DEF PhasePosition, ServingLabels, GatewayLabels, EndLabels,
       Raised
  <2>5. MemoryPosition(e)'
    BY <1>0, <2>1, <2>2 DEF PhasePosition, MemoryPosition, Phases, ServingLabels,
       GatewayLabels, EndLabels, Raised
  <2>6. Sound(e, memory[e])'
    BY <1>0, <2>1, <2>2 DEF PhasePosition, MemoryPosition, Sound, Phases, ServingLabels,
       GatewayLabels, EndLabels, Raised
  <2>7. DiskPosition(e)'
    BY <1>0, <2>1, <2>2 DEF PhasePosition, MemoryPosition, Sound, DiskPosition, Phases,
       ServingLabels, GatewayLabels, EndLabels, Raised
  <2> QED
    BY <2>4, <2>5, <2>6, <2>7 DEF Local
<1>5. CASE Own(e)
  <2>1. pc[e] = "own"
    BY <1>5 DEF Own
  <2>2. Raised(e, "prepare") \/ Faulted(e, "raised")
    BY <1>5, <1>0, RaiseEffect, FaultEffect DEF Own
  <2>4. PhasePosition(e)'
    BY <1>0, <2>1, <2>2 DEF PhasePosition, ServingLabels, GatewayLabels, EndLabels,
       Raised, Faulted
  <2>5. MemoryPosition(e)'
    BY <1>0, <2>1, <2>2 DEF PhasePosition, MemoryPosition, Phases, ServingLabels,
       GatewayLabels, EndLabels, Raised, Faulted
  <2>6. Sound(e, memory[e])'
    BY <1>0, <2>1, <2>2 DEF PhasePosition, MemoryPosition, Sound, Phases, ServingLabels,
       GatewayLabels, EndLabels, Raised, Faulted
  <2>7. DiskPosition(e)'
    BY <1>0, <2>1, <2>2 DEF PhasePosition, MemoryPosition, Sound, DiskPosition, Phases,
       ServingLabels, GatewayLabels, EndLabels, Raised, Faulted
  <2> QED
    BY <2>4, <2>5, <2>6, <2>7 DEF Local
<1>6. CASE Prepare(e)
  <2>1. CASE Raise(e, "mark_failed")
    <3>1. Raised(e, "mark_failed") /\ pc[e] = "prepare"
      BY <1>6, <1>0, <2>1, RaiseEffect DEF Prepare
    <3>4. PhasePosition(e)'
      BY <1>0, <2>1, <3>1 DEF PhasePosition, ServingLabels, GatewayLabels, EndLabels,
         Raised
    <3>5. MemoryPosition(e)'
      BY <1>0, <2>1, <3>1 DEF PhasePosition, MemoryPosition, Phases, ServingLabels,
         GatewayLabels, EndLabels, Raised
    <3>6. Sound(e, memory[e])'
      BY <1>0, <2>1, <3>1 DEF PhasePosition, MemoryPosition, Sound, Phases,
         ServingLabels, GatewayLabels, EndLabels, Raised
    <3>7. DiskPosition(e)'
      BY <1>0, <2>1, <3>1 DEF PhasePosition, MemoryPosition, Sound, DiskPosition,
         Phases, ServingLabels, GatewayLabels, EndLabels, Raised
    <3> QED
      BY <3>4, <3>5, <3>6, <3>7 DEF Local
  <2>2. CASE SetStatus(e, "prepared", "begin", "mark_failed") /\ UNCHANGED phase
    <3> DEFINE new == [memory[e] EXCEPT !.status = "prepared"]
    <3>1. /\ new.status = "prepared"
          /\ new.run = memory[e].run
          /\ new.verified = memory[e].verified
          /\ new.phases = memory[e].phases
          /\ new.handoff = memory[e].handoff
      BY <1>0, StatusFields
    <3>2. /\ Saved(e, new, "begin", "mark_failed")
          /\ pc[e] = "prepare" /\ phase'[e] = phase[e]
      BY <1>6, <2>2, <1>0, SaveEffect DEF Prepare, SetStatus
    <3> HIDE DEF new
    <3>4. PhasePosition(e)'
      BY <1>0, <3>1, <3>2 DEF PhasePosition, ServingLabels, GatewayLabels, EndLabels,
         Saved
    <3>5. MemoryPosition(e)'
      BY <1>0, <3>1, <3>2 DEF PhasePosition, MemoryPosition, Phases, ServingLabels,
         GatewayLabels, EndLabels, Saved
    <3>6. Sound(e, memory[e])'
      BY <1>0, <3>1, <3>2 DEF PhasePosition, MemoryPosition, Sound, Phases,
         ServingLabels, GatewayLabels, EndLabels, Saved
    <3>7. DiskPosition(e)'
      BY <1>0, <3>1, <3>2, <3>6, SavedDisk
    <3> QED
      BY <3>4, <3>5, <3>6, <3>7 DEF Local
  <2> QED
    BY <1>6, <2>1, <2>2 DEF Prepare
<1>7. CASE Begin(e)
  <2> DEFINE new == [memory[e] EXCEPT !.status = "training"]
  <2>1. /\ new.status = "training"
        /\ new.run = memory[e].run
        /\ new.verified = memory[e].verified
        /\ new.phases = memory[e].phases
        /\ new.handoff = memory[e].handoff
    BY <1>0, StatusFields
  <2>2. /\ Saved(e, new, "train", "raised")
        /\ pc[e] = "begin" /\ phase'[e] = phase[e]
    BY <1>7, <1>0, SaveEffect DEF Begin, SetStatus
  <2> HIDE DEF new
  <2>4. PhasePosition(e)'
    BY <1>0, <2>1, <2>2 DEF PhasePosition, ServingLabels, GatewayLabels, EndLabels,
       Saved
  <2>5. MemoryPosition(e)'
    BY <1>0, <2>1, <2>2 DEF PhasePosition, MemoryPosition, Phases, ServingLabels,
       GatewayLabels, EndLabels, Saved
  <2>6. Sound(e, memory[e])'
    BY <1>0, <2>1, <2>2 DEF PhasePosition, MemoryPosition, Sound, Phases,
       ServingLabels, GatewayLabels, EndLabels, Saved
  <2>7. DiskPosition(e)'
    BY <1>0, <2>1, <2>2, <2>6, SavedDisk
  <2> QED
    BY <2>4, <2>5, <2>6, <2>7 DEF Local
<1>8. CASE Train(e)
  <2>1. pc[e] = "train"
    BY <1>8 DEF Train
  <2>2. Raised(e, "verifying") \/ Raised(e, "except")
    BY <1>8, <1>0, RaiseEffect DEF Train
  <2>4. PhasePosition(e)'
    BY <1>0, <2>1, <2>2 DEF PhasePosition, ServingLabels, GatewayLabels, EndLabels,
       Raised
  <2>5. MemoryPosition(e)'
    BY <1>0, <2>1, <2>2 DEF PhasePosition, MemoryPosition, Phases, ServingLabels,
       GatewayLabels, EndLabels, Raised
  <2>6. Sound(e, memory[e])'
    BY <1>0, <2>1, <2>2 DEF PhasePosition, MemoryPosition, Sound, Phases, ServingLabels,
       GatewayLabels, EndLabels, Raised
  <2>7. DiskPosition(e)'
    BY <1>0, <2>1, <2>2 DEF PhasePosition, MemoryPosition, Sound, DiskPosition, Phases,
       ServingLabels, GatewayLabels, EndLabels, Raised
  <2> QED
    BY <2>4, <2>5, <2>6, <2>7 DEF Local
<1>9. CASE Verifying(e)
  <2> DEFINE new == [memory[e] EXCEPT !.status = "verifying"]
  <2>1. /\ new.status = "verifying"
        /\ new.run = memory[e].run
        /\ new.verified = memory[e].verified
        /\ new.phases = memory[e].phases
        /\ new.handoff = memory[e].handoff
    BY <1>0, StatusFields
  <2>2. /\ Saved(e, new, "validate", "except")
        /\ pc[e] = "verifying" /\ phase'[e] = phase[e]
    BY <1>9, <1>0, SaveEffect DEF Verifying, SetStatus
  <2> HIDE DEF new
  <2>4. PhasePosition(e)'
    BY <1>0, <2>1, <2>2 DEF PhasePosition, ServingLabels, GatewayLabels, EndLabels,
       Saved
  <2>5. MemoryPosition(e)'
    BY <1>0, <2>1, <2>2 DEF PhasePosition, MemoryPosition, Phases, ServingLabels,
       GatewayLabels, EndLabels, Saved
  <2>6. Sound(e, memory[e])'
    BY <1>0, <2>1, <2>2 DEF PhasePosition, MemoryPosition, Sound, Phases,
       ServingLabels, GatewayLabels, EndLabels, Saved
  <2>7. DiskPosition(e)'
    BY <1>0, <2>1, <2>2, <2>6, SavedDisk
  <2> QED
    BY <2>4, <2>5, <2>6, <2>7 DEF Local
<1>10. CASE Validate(e)
  <2>1. CASE Raise(e, "except")
    <3>1. Raised(e, "except") /\ pc[e] = "validate"
      BY <1>10, <1>0, <2>1, RaiseEffect DEF Validate
    <3>4. PhasePosition(e)'
      BY <1>0, <2>1, <3>1 DEF PhasePosition, ServingLabels, GatewayLabels, EndLabels,
         Raised
    <3>5. MemoryPosition(e)'
      BY <1>0, <2>1, <3>1 DEF PhasePosition, MemoryPosition, Phases, ServingLabels,
         GatewayLabels, EndLabels, Raised
    <3>6. Sound(e, memory[e])'
      BY <1>0, <2>1, <3>1 DEF PhasePosition, MemoryPosition, Sound, Phases,
         ServingLabels, GatewayLabels, EndLabels, Raised
    <3>7. DiskPosition(e)'
      BY <1>0, <2>1, <3>1 DEF PhasePosition, MemoryPosition, Sound, DiskPosition,
         Phases, ServingLabels, GatewayLabels, EndLabels, Raised
    <3> QED
      BY <3>4, <3>5, <3>6, <3>7 DEF Local
  <2>2. CASE Save(e, [memory[e] EXCEPT !.verified = TRUE], "trained", "except") /\ UNCHANGED phase
    <3> DEFINE new == [memory[e] EXCEPT !.verified = TRUE]
    <3>1. /\ new.verified = TRUE
          /\ new.status = memory[e].status
          /\ new.run = memory[e].run
          /\ new.phases = memory[e].phases
          /\ new.handoff = memory[e].handoff
      BY <1>0, OtherFields
    <3>2. /\ Saved(e, new, "trained", "except")
          /\ pc[e] = "validate" /\ phase'[e] = phase[e]
      BY <1>10, <2>2, <1>0, SaveEffect DEF Validate
    <3> HIDE DEF new
    <3>4. PhasePosition(e)'
      BY <1>0, <3>1, <3>2 DEF PhasePosition, ServingLabels, GatewayLabels, EndLabels,
         Saved
    <3>5. MemoryPosition(e)'
      BY <1>0, <3>1, <3>2 DEF PhasePosition, MemoryPosition, Phases, ServingLabels,
         GatewayLabels, EndLabels, Saved
    <3>6. Sound(e, memory[e])'
      BY <1>0, <3>1, <3>2 DEF PhasePosition, MemoryPosition, Sound, Phases,
         ServingLabels, GatewayLabels, EndLabels, Saved
    <3>7. DiskPosition(e)'
      BY <1>0, <3>1, <3>2, <3>6, SavedDisk
    <3> QED
      BY <3>4, <3>5, <3>6, <3>7 DEF Local
  <2> QED
    BY <1>10, <2>1, <2>2 DEF Validate
<1>11. CASE Trained(e)
  <2>1. pc[e] = "trained"
    BY <1>11 DEF Trained
  <2>2. Raised(e, IF LastPhase[e] = "training" THEN "succeed" ELSE "trained_phase")
        \/ Raised(e, "except")
    BY <1>11, <1>0, RaiseEffect DEF Trained
  <2>4. PhasePosition(e)'
    BY <1>0, <2>1, <2>2 DEF PhasePosition, ServingLabels, GatewayLabels, EndLabels,
       Raised
  <2>5. MemoryPosition(e)'
    BY <1>0, <2>1, <2>2 DEF PhasePosition, MemoryPosition, Phases, ServingLabels,
       GatewayLabels, EndLabels, Raised
  <2>6. Sound(e, memory[e])'
    BY <1>0, <2>1, <2>2 DEF PhasePosition, MemoryPosition, Sound, Phases, ServingLabels,
       GatewayLabels, EndLabels, Raised
  <2>7. DiskPosition(e)'
    BY <1>0, <2>1, <2>2 DEF PhasePosition, MemoryPosition, Sound, DiskPosition, Phases,
       ServingLabels, GatewayLabels, EndLabels, Raised
  <2> QED
    BY <2>4, <2>5, <2>6, <2>7 DEF Local
<1>12. CASE TrainedPhase(e)
  <2> DEFINE new == [memory[e] EXCEPT !.phases["training"] = "success"]
  <2>1. /\ new.phases["training"] = "success"
        /\ \A q \in Phases \ {"training"} : new.phases[q] = memory[e].phases[q]
        /\ new.status = memory[e].status
        /\ new.run = memory[e].run
        /\ new.verified = memory[e].verified
        /\ new.handoff = memory[e].handoff
    BY <1>0, PhaseFields DEF Phases
  <2>2. /\ Saved(e, new, "serving_status", "except")
        /\ pc[e] = "trained_phase"
        /\ phase'[e] = IF pc'[e] = "serving_status" THEN "serving" ELSE phase[e]
    BY <1>12, <1>0, SaveEffect DEF TrainedPhase, RecordPhase, SetPhase, TypeOK
  <2> HIDE DEF new
  <2>4. PhasePosition(e)'
    BY <1>0, <2>1, <2>2 DEF PhasePosition, ServingLabels, GatewayLabels, EndLabels,
       Saved
  <2>5. MemoryPosition(e)'
    BY <1>0, <2>1, <2>2 DEF PhasePosition, MemoryPosition, Phases, ServingLabels,
       GatewayLabels, EndLabels, Saved
  <2>6. Sound(e, memory[e])'
    BY <1>0, <2>1, <2>2 DEF PhasePosition, MemoryPosition, Sound, Phases,
       ServingLabels, GatewayLabels, EndLabels, Saved
  <2>7. DiskPosition(e)'
    BY <1>0, <2>1, <2>2, <2>6, SavedDisk
  <2> QED
    BY <2>4, <2>5, <2>6, <2>7 DEF Local
<1>13. CASE ServingStatus(e)
  <2> DEFINE new == [memory[e] EXCEPT !.status = "serving"]
  <2>1. /\ new.status = "serving"
        /\ new.run = memory[e].run
        /\ new.verified = memory[e].verified
        /\ new.phases = memory[e].phases
        /\ new.handoff = memory[e].handoff
    BY <1>0, StatusFields
  <2>2. /\ Saved(e, new, "serving_starting", "except")
        /\ pc[e] = "serving_status" /\ phase'[e] = phase[e]
    BY <1>13, <1>0, SaveEffect DEF ServingStatus, SetStatus
  <2> HIDE DEF new
  <2>4. PhasePosition(e)'
    BY <1>0, <2>1, <2>2 DEF PhasePosition, ServingLabels, GatewayLabels, EndLabels,
       Saved
  <2>5. MemoryPosition(e)'
    BY <1>0, <2>1, <2>2 DEF PhasePosition, MemoryPosition, Phases, ServingLabels,
       GatewayLabels, EndLabels, Saved
  <2>6. Sound(e, memory[e])'
    BY <1>0, <2>1, <2>2 DEF PhasePosition, MemoryPosition, Sound, Phases,
       ServingLabels, GatewayLabels, EndLabels, Saved
  <2>7. DiskPosition(e)'
    BY <1>0, <2>1, <2>2, <2>6, SavedDisk
  <2> QED
    BY <2>4, <2>5, <2>6, <2>7 DEF Local
<1>14. CASE ServingStarting(e)
  <2> DEFINE new == [memory[e] EXCEPT !.phases["serving"] = "starting"]
  <2>1. /\ new.phases["serving"] = "starting"
        /\ \A q \in Phases \ {"serving"} : new.phases[q] = memory[e].phases[q]
        /\ new.status = memory[e].status
        /\ new.run = memory[e].run
        /\ new.verified = memory[e].verified
        /\ new.handoff = memory[e].handoff
    BY <1>0, PhaseFields DEF Phases
  <2>2. /\ Saved(e, new, "serve", "except")
        /\ pc[e] = "serving_starting" /\ phase'[e] = phase[e]
    BY <1>14, <1>0, SaveEffect DEF ServingStarting, RecordPhase
  <2> HIDE DEF new
  <2>4. PhasePosition(e)'
    BY <1>0, <2>1, <2>2 DEF PhasePosition, ServingLabels, GatewayLabels, EndLabels,
       Saved
  <2>5. MemoryPosition(e)'
    BY <1>0, <2>1, <2>2 DEF PhasePosition, MemoryPosition, Phases, ServingLabels,
       GatewayLabels, EndLabels, Saved
  <2>6. Sound(e, memory[e])'
    BY <1>0, <2>1, <2>2 DEF PhasePosition, MemoryPosition, Sound, Phases,
       ServingLabels, GatewayLabels, EndLabels, Saved
  <2>7. DiskPosition(e)'
    BY <1>0, <2>1, <2>2, <2>6, SavedDisk
  <2> QED
    BY <2>4, <2>5, <2>6, <2>7 DEF Local
<1>15. CASE Serve(e)
  <2>1. pc[e] = "serve"
    BY <1>15 DEF Serve
  <2>2. Raised(e, "serving_ready") \/ Raised(e, "except")
    BY <1>15, <1>0, RaiseEffect DEF Serve
  <2>4. PhasePosition(e)'
    BY <1>0, <2>1, <2>2 DEF PhasePosition, ServingLabels, GatewayLabels, EndLabels,
       Raised
  <2>5. MemoryPosition(e)'
    BY <1>0, <2>1, <2>2 DEF PhasePosition, MemoryPosition, Phases, ServingLabels,
       GatewayLabels, EndLabels, Raised
  <2>6. Sound(e, memory[e])'
    BY <1>0, <2>1, <2>2 DEF PhasePosition, MemoryPosition, Sound, Phases, ServingLabels,
       GatewayLabels, EndLabels, Raised
  <2>7. DiskPosition(e)'
    BY <1>0, <2>1, <2>2 DEF PhasePosition, MemoryPosition, Sound, DiskPosition, Phases,
       ServingLabels, GatewayLabels, EndLabels, Raised
  <2> QED
    BY <2>4, <2>5, <2>6, <2>7 DEF Local
<1>16. CASE ServingReady(e)
  <2> DEFINE new == [memory[e] EXCEPT !.phases["serving"] = "ready"]
  <2>1. /\ new.phases["serving"] = "ready"
        /\ \A q \in Phases \ {"serving"} : new.phases[q] = memory[e].phases[q]
        /\ new.status = memory[e].status
        /\ new.run = memory[e].run
        /\ new.verified = memory[e].verified
        /\ new.handoff = memory[e].handoff
    BY <1>0, PhaseFields DEF Phases
  <2>2. /\ Saved(e, new, "serving_handoff", "except")
        /\ pc[e] = "serving_ready" /\ phase'[e] = phase[e]
    BY <1>16, <1>0, SaveEffect DEF ServingReady, RecordPhase
  <2> HIDE DEF new
  <2>4. PhasePosition(e)'
    BY <1>0, <2>1, <2>2 DEF PhasePosition, ServingLabels, GatewayLabels, EndLabels,
       Saved
  <2>5. MemoryPosition(e)'
    BY <1>0, <2>1, <2>2 DEF PhasePosition, MemoryPosition, Phases, ServingLabels,
       GatewayLabels, EndLabels, Saved
  <2>6. Sound(e, memory[e])'
    BY <1>0, <2>1, <2>2 DEF PhasePosition, MemoryPosition, Sound, Phases,
       ServingLabels, GatewayLabels, EndLabels, Saved
  <2>7. DiskPosition(e)'
    BY <1>0, <2>1, <2>2, <2>6, SavedDisk
  <2> QED
    BY <2>4, <2>5, <2>6, <2>7 DEF Local
<1>17. CASE ServingHandoff(e)
  <2> DEFINE new == [memory[e] EXCEPT !.handoff = "serving"]
  <2>1. /\ new.handoff = "serving"
        /\ new.status = memory[e].status
        /\ new.run = memory[e].run
        /\ new.verified = memory[e].verified
        /\ new.phases = memory[e].phases
    BY <1>0, OtherFields
  <2>2. /\ Saved(e, new, IF LastPhase[e] = "gateway" THEN "gateway_status" ELSE "succeed",
                        "except")
        /\ pc[e] = "serving_handoff"
        /\ phase'[e] = IF pc'[e] = "gateway_status" THEN "gateway" ELSE phase[e]
    BY <1>17, <1>0, SaveEffect DEF ServingHandoff, SetPhase, TypeOK
  <2> HIDE DEF new
  <2>4. PhasePosition(e)'
    BY <1>0, <2>1, <2>2 DEF PhasePosition, ServingLabels, GatewayLabels, EndLabels,
       Saved
  <2>5. MemoryPosition(e)'
    BY <1>0, <2>1, <2>2 DEF PhasePosition, MemoryPosition, Phases, ServingLabels,
       GatewayLabels, EndLabels, Saved
  <2>6. Sound(e, memory[e])'
    BY <1>0, <2>1, <2>2 DEF PhasePosition, MemoryPosition, Sound, Phases,
       ServingLabels, GatewayLabels, EndLabels, Saved
  <2>7. DiskPosition(e)'
    BY <1>0, <2>1, <2>2, <2>6, SavedDisk
  <2> QED
    BY <2>4, <2>5, <2>6, <2>7 DEF Local
<1>18. CASE GatewayStatus(e)
  <2> DEFINE new == [memory[e] EXCEPT !.status = "gateway"]
  <2>1. /\ new.status = "gateway"
        /\ new.run = memory[e].run
        /\ new.verified = memory[e].verified
        /\ new.phases = memory[e].phases
        /\ new.handoff = memory[e].handoff
    BY <1>0, StatusFields
  <2>2. /\ Saved(e, new, "gateway_starting", "except")
        /\ pc[e] = "gateway_status" /\ phase'[e] = phase[e]
    BY <1>18, <1>0, SaveEffect DEF GatewayStatus, SetStatus
  <2> HIDE DEF new
  <2>4. PhasePosition(e)'
    BY <1>0, <2>1, <2>2 DEF PhasePosition, ServingLabels, GatewayLabels, EndLabels,
       Saved
  <2>5. MemoryPosition(e)'
    BY <1>0, <2>1, <2>2 DEF PhasePosition, MemoryPosition, Phases, ServingLabels,
       GatewayLabels, EndLabels, Saved
  <2>6. Sound(e, memory[e])'
    BY <1>0, <2>1, <2>2 DEF PhasePosition, MemoryPosition, Sound, Phases,
       ServingLabels, GatewayLabels, EndLabels, Saved
  <2>7. DiskPosition(e)'
    BY <1>0, <2>1, <2>2, <2>6, SavedDisk
  <2> QED
    BY <2>4, <2>5, <2>6, <2>7 DEF Local
<1>19. CASE GatewayStarting(e)
  <2> DEFINE new == [memory[e] EXCEPT !.phases["gateway"] = "starting"]
  <2>1. /\ new.phases["gateway"] = "starting"
        /\ \A q \in Phases \ {"gateway"} : new.phases[q] = memory[e].phases[q]
        /\ new.status = memory[e].status
        /\ new.run = memory[e].run
        /\ new.verified = memory[e].verified
        /\ new.handoff = memory[e].handoff
    BY <1>0, PhaseFields DEF Phases
  <2>2. /\ Saved(e, new, "register", "except")
        /\ pc[e] = "gateway_starting" /\ phase'[e] = phase[e]
    BY <1>19, <1>0, SaveEffect DEF GatewayStarting, RecordPhase
  <2> HIDE DEF new
  <2>4. PhasePosition(e)'
    BY <1>0, <2>1, <2>2 DEF PhasePosition, ServingLabels, GatewayLabels, EndLabels,
       Saved
  <2>5. MemoryPosition(e)'
    BY <1>0, <2>1, <2>2 DEF PhasePosition, MemoryPosition, Phases, ServingLabels,
       GatewayLabels, EndLabels, Saved
  <2>6. Sound(e, memory[e])'
    BY <1>0, <2>1, <2>2 DEF PhasePosition, MemoryPosition, Sound, Phases,
       ServingLabels, GatewayLabels, EndLabels, Saved
  <2>7. DiskPosition(e)'
    BY <1>0, <2>1, <2>2, <2>6, SavedDisk
  <2> QED
    BY <2>4, <2>5, <2>6, <2>7 DEF Local
<1>20. CASE Register(e)
  <2>1. pc[e] = "register"
    BY <1>20 DEF Register
  <2>2. Raised(e, "gateway_ready") \/ Raised(e, "except")
    BY <1>20, <1>0, RaiseEffect DEF Register
  <2>4. PhasePosition(e)'
    BY <1>0, <2>1, <2>2 DEF PhasePosition, ServingLabels, GatewayLabels, EndLabels,
       Raised
  <2>5. MemoryPosition(e)'
    BY <1>0, <2>1, <2>2 DEF PhasePosition, MemoryPosition, Phases, ServingLabels,
       GatewayLabels, EndLabels, Raised
  <2>6. Sound(e, memory[e])'
    BY <1>0, <2>1, <2>2 DEF PhasePosition, MemoryPosition, Sound, Phases, ServingLabels,
       GatewayLabels, EndLabels, Raised
  <2>7. DiskPosition(e)'
    BY <1>0, <2>1, <2>2 DEF PhasePosition, MemoryPosition, Sound, DiskPosition, Phases,
       ServingLabels, GatewayLabels, EndLabels, Raised
  <2> QED
    BY <2>4, <2>5, <2>6, <2>7 DEF Local
<1>21. CASE GatewayReady(e)
  <2> DEFINE new == [memory[e] EXCEPT !.phases["gateway"] = "ready"]
  <2>1. /\ new.phases["gateway"] = "ready"
        /\ \A q \in Phases \ {"gateway"} : new.phases[q] = memory[e].phases[q]
        /\ new.status = memory[e].status
        /\ new.run = memory[e].run
        /\ new.verified = memory[e].verified
        /\ new.handoff = memory[e].handoff
    BY <1>0, PhaseFields DEF Phases
  <2>2. /\ Saved(e, new, "gateway_handoff", "except")
        /\ pc[e] = "gateway_ready" /\ phase'[e] = phase[e]
    BY <1>21, <1>0, SaveEffect DEF GatewayReady, RecordPhase
  <2> HIDE DEF new
  <2>4. PhasePosition(e)'
    BY <1>0, <2>1, <2>2 DEF PhasePosition, ServingLabels, GatewayLabels, EndLabels,
       Saved
  <2>5. MemoryPosition(e)'
    BY <1>0, <2>1, <2>2 DEF PhasePosition, MemoryPosition, Phases, ServingLabels,
       GatewayLabels, EndLabels, Saved
  <2>6. Sound(e, memory[e])'
    BY <1>0, <2>1, <2>2 DEF PhasePosition, MemoryPosition, Sound, Phases,
       ServingLabels, GatewayLabels, EndLabels, Saved
  <2>7. DiskPosition(e)'
    BY <1>0, <2>1, <2>2, <2>6, SavedDisk
  <2> QED
    BY <2>4, <2>5, <2>6, <2>7 DEF Local
<1>22. CASE GatewayHandoff(e)
  <2> DEFINE new == [memory[e] EXCEPT !.handoff = "gateway"]
  <2>1. /\ new.handoff = "gateway"
        /\ new.status = memory[e].status
        /\ new.run = memory[e].run
        /\ new.verified = memory[e].verified
        /\ new.phases = memory[e].phases
    BY <1>0, OtherFields
  <2>2. /\ Saved(e, new, "succeed", "except")
        /\ pc[e] = "gateway_handoff" /\ phase'[e] = phase[e]
    BY <1>22, <1>0, SaveEffect DEF GatewayHandoff
  <2> HIDE DEF new
  <2>4. PhasePosition(e)'
    BY <1>0, <2>1, <2>2 DEF PhasePosition, ServingLabels, GatewayLabels, EndLabels,
       Saved
  <2>5. MemoryPosition(e)'
    BY <1>0, <2>1, <2>2 DEF PhasePosition, MemoryPosition, Phases, ServingLabels,
       GatewayLabels, EndLabels, Saved
  <2>6. Sound(e, memory[e])'
    BY <1>0, <2>1, <2>2 DEF PhasePosition, MemoryPosition, Sound, Phases,
       ServingLabels, GatewayLabels, EndLabels, Saved
  <2>7. DiskPosition(e)'
    BY <1>0, <2>1, <2>2, <2>6, SavedDisk
  <2> QED
    BY <2>4, <2>5, <2>6, <2>7 DEF Local
<1>23. CASE Succeed(e)
  <2> DEFINE new == [memory[e] EXCEPT !.status = "success"]
  <2>1. /\ new.status = "success"
        /\ new.run = memory[e].run
        /\ new.verified = memory[e].verified
        /\ new.phases = memory[e].phases
        /\ new.handoff = memory[e].handoff
    BY <1>0, StatusFields
  <2>2. /\ Saved(e, new, "log", "except")
        /\ pc[e] = "succeed" /\ phase'[e] = phase[e]
    BY <1>23, <1>0, SaveEffect DEF Succeed, SetStatus
  <2> HIDE DEF new
  <2>3. /\ memory[e].verified = TRUE
        /\ LastPhase[e] # "training" =>
             /\ memory[e].handoff = LastPhase[e] /\ memory[e].phases["serving"] = "ready"
             /\ LastPhase[e] = "gateway" => memory[e].phases["gateway"] = "ready"
    BY <1>0, <2>2 DEF MemoryPosition, EndLabels
  <2>4. PhasePosition(e)'
    BY <1>0, <2>1, <2>2 DEF PhasePosition, ServingLabels, GatewayLabels, EndLabels,
       Saved
  <2>5. MemoryPosition(e)'
    BY <1>0, <2>1, <2>2 DEF PhasePosition, MemoryPosition, Phases, ServingLabels,
       GatewayLabels, EndLabels, Saved
  <2>6. Sound(e, memory[e])'
    <3>1. memory'[e] = new /\ (pc'[e] = "log" \/ (pc'[e] = "except" /\ fault'[e] = TRUE))
      BY <2>2 DEF Saved
    <3> QED
      BY <2>1, <2>3, <3>1 DEF Sound
  <2>7. DiskPosition(e)'
    BY <1>0, <2>1, <2>2, <2>6, SavedDisk
  <2> QED
    BY <2>4, <2>5, <2>6, <2>7 DEF Local
<1>24. CASE Log(e)
  <2>1. pc[e] = "log"
    BY <1>24 DEF Log
  <2>2. Raised(e, "returned") \/ Faulted(e, "except")
    BY <1>24, <1>0, RaiseEffect, FaultEffect DEF Log
  <2>4. PhasePosition(e)'
    BY <1>0, <2>1, <2>2 DEF PhasePosition, ServingLabels, GatewayLabels, EndLabels,
       Raised, Faulted
  <2>5. MemoryPosition(e)'
    BY <1>0, <2>1, <2>2 DEF PhasePosition, MemoryPosition, Phases, ServingLabels,
       GatewayLabels, EndLabels, Raised, Faulted
  <2>6. Sound(e, memory[e])'
    BY <1>0, <2>1, <2>2 DEF PhasePosition, MemoryPosition, Sound, Phases, ServingLabels,
       GatewayLabels, EndLabels, Raised, Faulted
  <2>7. DiskPosition(e)'
    BY <1>0, <2>1, <2>2 DEF PhasePosition, MemoryPosition, Sound, DiskPosition, Phases,
       ServingLabels, GatewayLabels, EndLabels, Raised, Faulted
  <2> QED
    BY <2>4, <2>5, <2>6, <2>7 DEF Local
<1>25. CASE RecordFailure(e)
  <2>1. CASE Raise(e, "mark_failed") /\ phase[e] = "training"
    <3>1. Raised(e, "mark_failed") /\ pc[e] = "except"
      BY <1>25, <1>0, <2>1, RaiseEffect DEF RecordFailure
    <3>4. PhasePosition(e)'
      BY <1>0, <2>1, <3>1 DEF PhasePosition, ServingLabels, GatewayLabels, EndLabels,
         Raised
    <3>5. MemoryPosition(e)'
      BY <1>0, <2>1, <3>1 DEF PhasePosition, MemoryPosition, Phases, ServingLabels,
         GatewayLabels, EndLabels, Raised
    <3>6. Sound(e, memory[e])'
      BY <1>0, <2>1, <3>1 DEF PhasePosition, MemoryPosition, Sound, Phases,
         ServingLabels, GatewayLabels, EndLabels, Raised
    <3>7. DiskPosition(e)'
      BY <1>0, <2>1, <3>1 DEF PhasePosition, MemoryPosition, Sound, DiskPosition,
         Phases, ServingLabels, GatewayLabels, EndLabels, Raised
    <3> QED
      BY <3>4, <3>5, <3>6, <3>7 DEF Local
  <2>2. CASE phase[e] # "training" /\ UNCHANGED phase
              /\ RecordPhase(e, phase[e], "failed", "mark_failed", "raised")
    <3> DEFINE new == [memory[e] EXCEPT !.phases[phase[e]] = "failed"]
    <3>1. /\ new.phases[phase[e]] = "failed"
          /\ \A q \in Phases \ {phase[e]} : new.phases[q] = memory[e].phases[q]
          /\ new.status = memory[e].status
          /\ new.run = memory[e].run
          /\ new.verified = memory[e].verified
          /\ new.handoff = memory[e].handoff
      BY <1>0, PhaseFields
    <3>2. /\ Saved(e, new, "mark_failed", "raised")
          /\ pc[e] = "except" /\ phase'[e] = phase[e] /\ phase[e] # "training"
      BY <1>25, <2>2, <1>0, SaveEffect DEF RecordFailure, RecordPhase
    <3> HIDE DEF new
    <3>4. PhasePosition(e)'
      BY <1>0, <3>1, <3>2 DEF PhasePosition, ServingLabels, GatewayLabels, EndLabels,
         Saved
    <3>5. MemoryPosition(e)'
      BY <1>0, <3>1, <3>2 DEF PhasePosition, MemoryPosition, Phases, ServingLabels,
         GatewayLabels, EndLabels, Saved
    <3>6. Sound(e, memory[e])'
      BY <1>0, <3>1, <3>2 DEF PhasePosition, MemoryPosition, Sound, Phases,
         ServingLabels, GatewayLabels, EndLabels, Saved
    <3>7. DiskPosition(e)'
      BY <1>0, <3>1, <3>2, <3>6, SavedDisk
    <3> QED
      BY <3>4, <3>5, <3>6, <3>7 DEF Local
  <2> QED
    BY <1>25, <2>1, <2>2 DEF RecordFailure
<1>26. CASE MarkFailed(e)
  <2> DEFINE new == [memory[e] EXCEPT !.status = "failed"]
  <2>1. /\ new.status = "failed"
        /\ new.run = memory[e].run
        /\ new.verified = memory[e].verified
        /\ new.phases = memory[e].phases
        /\ new.handoff = memory[e].handoff
    BY <1>0, StatusFields
  <2>2. /\ Saved(e, new, "raised", "raised")
        /\ pc[e] = "mark_failed" /\ phase'[e] = phase[e]
    BY <1>26, <1>0, SaveEffect DEF MarkFailed, SetStatus
  <2> HIDE DEF new
  <2>4. PhasePosition(e)'
    BY <1>0, <2>1, <2>2 DEF PhasePosition, ServingLabels, GatewayLabels, EndLabels,
       Saved
  <2>5. MemoryPosition(e)'
    BY <1>0, <2>1, <2>2 DEF PhasePosition, MemoryPosition, Phases, ServingLabels,
       GatewayLabels, EndLabels, Saved
  <2>6. Sound(e, memory[e])'
    BY <1>0, <2>1, <2>2 DEF PhasePosition, MemoryPosition, Sound, Phases,
       ServingLabels, GatewayLabels, EndLabels, Saved
  <2>7. DiskPosition(e)'
    <3> DEFINE r == runId[e]
    <3>1. runId'[e] = r /\ r # "none"
      BY <2>2 DEF Saved
    <3>2. CASE disk'[r] = new /\ pc'[e] = "raised" /\ fault'[e] = fault[e]
      BY <1>0, <2>1, <2>2, <3>1, <3>2 DEF MemoryPosition, Sound, DiskPosition, Phases
    <3>3. CASE disk'[r] = disk[r] /\ pc'[e] = "raised" /\ fault'[e] = TRUE
      BY <1>0, <3>1, <3>3 DEF Sound, DiskPosition
    <3> QED
      BY <2>2, <3>2, <3>3 DEF Saved
  <2> QED
    BY <2>4, <2>5, <2>6, <2>7 DEF Local
<1>27. CASE Kill(e)
  <2>1. pc[e] \notin {"returned", "raised", "killed"}
    BY <1>27 DEF Kill, Over
  <2>2. Raised(e, "killed")
    BY <1>27, <1>0, RaiseEffect DEF Kill, Over
  <2>4. PhasePosition(e)'
    BY <1>0, <2>1, <2>2 DEF PhasePosition, ServingLabels, GatewayLabels, EndLabels,
       Raised
  <2>5. MemoryPosition(e)'
    BY <1>0, <2>1, <2>2 DEF PhasePosition, MemoryPosition, Phases, ServingLabels,
       GatewayLabels, EndLabels, Raised
  <2>6. Sound(e, memory[e])'
    BY <1>0, <2>1, <2>2 DEF PhasePosition, MemoryPosition, Sound, Phases, ServingLabels,
       GatewayLabels, EndLabels, Raised
  <2>7. DiskPosition(e)'
    BY <1>0, <2>1, <2>2 DEF PhasePosition, MemoryPosition, Sound, DiskPosition, Phases,
       ServingLabels, GatewayLabels, EndLabels, Raised
  <2> QED
    BY <2>4, <2>5, <2>6, <2>7 DEF Local
<1> QED
  BY <1>1, <1>2, <1>3, <1>4, <1>5, <1>6, <1>7, <1>8, <1>9, <1>10, <1>11, <1>12, <1>13,
     <1>14, <1>15, <1>16, <1>17, <1>18, <1>19, <1>20, <1>21, <1>22, <1>23, <1>24, <1>25,
     <1>26, <1>27 DEF Step

-----------------------------------------------------------------------------
(* The invariant holds. *)

LEMMA PlacementStep ==
  ASSUME TypeOK, Placement, NEW e \in Executions, Frame(e)
  PROVE  Placement'
<1>0. "free" \notin Executions /\ "none" \notin Names
  BY ConstantsAssumption
<1> SUFFICES ASSUME NEW f \in Executions PROVE Placed(f)'
  BY DEF Placement
<1>1. Placed(f) /\ Placed(e)
  BY DEF Placement
<1>2. runId[f] \in Names \cup {"none"} /\ runId[e] \in Names \cup {"none"}
  BY DEF TypeOK
<1>3. CASE f = e
  BY <1>0, <1>1, <1>2, <1>3 DEF Placed, Frame
<1>4. CASE f # e
  BY <1>0, <1>1, <1>2, <1>4 DEF Placed, Frame
<1> QED
  BY <1>3, <1>4

LEMMA AttributedStep ==
  ASSUME RunInv, NEW e \in Executions, Frame(e), MemoryPosition(e)', NEW n \in Names
  PROVE  Attributed(n)'
<1>0. /\ {"free", "older"} \cap Executions = {} /\ "none" \notin Names
      /\ Attributed(n) /\ Placed(e)
      /\ runId[e] \in Names \cup {"none"}
      /\ dirs[n] \in Executions \cup {"free", "older"}
  BY ConstantsAssumption DEF RunInv, TypeOK, Placement
<1>1. CASE disk'[n] # disk[n]
  <2>1. n = runId[e] /\ dirs[n] = e /\ dirs'[n] = e /\ runId'[e] = n
    BY <1>0, <1>1 DEF Frame, Placed
  <2>2. disk'[n].run = e
    BY <1>0, <1>1, <2>1 DEF Frame, MemoryPosition
  <2> QED
    BY <1>0, <2>1, <2>2 DEF Attributed
<1>2. CASE disk'[n] = disk[n] /\ dirs'[n] # dirs[n]
  <2>1. dirs[n] = "free" /\ dirs'[n] = e /\ runId'[e] = n
    BY <1>2 DEF Frame
  <2>2. disk'[n].run = "none"
    BY <1>0, <1>2, <2>1 DEF Attributed, Missing, Metadata
  <2> QED
    BY <1>0, <2>1, <2>2 DEF Attributed
<1>3. CASE disk'[n] = disk[n] /\ dirs'[n] = dirs[n]
  <2>1. dirs[n] \in Executions => runId'[dirs[n]] = n
    BY <1>0, <1>3 DEF Frame, Attributed
  <2> QED
    BY <1>0, <1>3, <2>1 DEF Attributed, Missing, Metadata
<1> QED
  BY <1>1, <1>2, <1>3

\* The steps of one execution leave the others' states and files alone.
LEMMA OthersLocal ==
  ASSUME RunInv, NEW e \in Executions, Frame(e), NEW f \in Executions \ {e}
  PROVE  Local(f)'
<1>1. /\ Local(f) /\ Placed(e) /\ Placed(f) /\ "none" \notin Names
      /\ runId[f] \in Names \cup {"none"}
  BY ConstantsAssumption DEF RunInv, TypeOK, Placement
<1>2. runId[f] # "none" => disk'[runId[f]] = disk[runId[f]]
  BY <1>1 DEF Placed, Frame
<1>3. /\ memory'[f] = memory[f] /\ runId'[f] = runId[f] /\ pc'[f] = pc[f]
      /\ phase'[f] = phase[f] /\ fault'[f] = fault[f]
  BY DEF Frame
<1>4. PhasePosition(f)' /\ MemoryPosition(f)'
  BY <1>1, <1>3 DEF Local, PhasePosition, MemoryPosition
<1>5. Sound(f, memory[f])' /\ (runId[f] # "none" => Sound(f, disk[runId[f]])')
  BY <1>1, <1>2, <1>3 DEF Local, Sound, DiskPosition
<1>6. DiskPosition(f)'
  BY <1>1, <1>2, <1>3, <1>5 DEF Local, DiskPosition
<1> QED
  BY <1>4, <1>5, <1>6 DEF Local

LEMMA InvStep ==
  ASSUME RunInv, [Next]_vars
  PROVE  RunInv'
<1>1. CASE UNCHANGED vars
  <2>1. TypeOK' /\ Placement'
    BY <1>1 DEF vars, RunInv, TypeOK, Placement, Placed
  <2>2. \A n \in Names : Attributed(n)'
    BY <1>1 DEF vars, RunInv, Attributed
  <2>3. ASSUME NEW f \in Executions PROVE Local(f)'
    <3>1. Local(f)
      BY DEF RunInv
    <3>2. PhasePosition(f)' /\ MemoryPosition(f)'
      BY <1>1, <3>1 DEF vars, Local, PhasePosition, MemoryPosition
    <3>3. Sound(f, memory[f])' /\ DiskPosition(f)'
      BY <1>1, <3>1 DEF vars, Local, Sound, DiskPosition
    <3> QED
      BY <3>2, <3>3 DEF Local
  <2> QED
    BY <2>1, <2>2, <2>3 DEF RunInv
<1>2. ASSUME NEW e \in Executions, Step(e) \/ Kill(e)
      PROVE  RunInv'
  <2>1. TypeOK' /\ Frame(e) /\ Local(e)'
    BY <1>2, TypeStep, StepFrame, LocalStep DEF RunInv
  <2>2. Placement'
    BY <2>1, PlacementStep DEF RunInv
  <2>3. \A n \in Names : Attributed(n)'
    BY <2>1, AttributedStep DEF Local
  <2>4. \A f \in Executions : Local(f)'
    BY <2>1, OthersLocal
  <2> QED
    BY <2>1, <2>2, <2>3, <2>4 DEF RunInv
<1> QED
  BY <1>1, <1>2 DEF Next

LEMMA InitInv == Init => RunInv
<1> SUFFICES ASSUME Init PROVE RunInv
  OBVIOUS
<1>1. TypeOK
  <2>1. disk \in [Names -> Document] /\ memory \in [Executions -> Document]
    BY MissingType DEF Init
  <2>2. attempt \in [Executions -> 1..MaxAttempts]
    BY ConstantsAssumption DEF Init
  <2>3. pc \in [Executions -> Labels] /\ phase \in [Executions -> Phases]
    BY DEF Init, Labels, Phases
  <2> QED
    BY <2>1, <2>2, <2>3 DEF Init, TypeOK
<1>2. Placement
  BY DEF Init, Placement, Placed
<1>3. ASSUME NEW n \in Names PROVE Attributed(n)
  BY ConstantsAssumption DEF Init, Attributed
<1>4. ASSUME NEW e \in Executions PROVE Local(e)
  <2>1. /\ pc[e] = "allocate" /\ phase[e] = "training" /\ memory[e] = Missing
        /\ runId[e] = "none"
    BY <1>4 DEF Init
  <2>2. PhasePosition(e) /\ MemoryPosition(e)
    BY <2>1 DEF PhasePosition, MemoryPosition, ServingLabels, GatewayLabels, EndLabels
  <2>3. Sound(e, memory[e]) /\ DiskPosition(e)
    BY <2>1 DEF Sound, DiskPosition, Missing, Metadata
  <2> QED
    BY <2>2, <2>3 DEF Local
<1> QED
  BY <1>1, <1>2, <1>3, <1>4 DEF RunInv

THEOREM RunInvariant == Spec => []RunInv
<1>1. RunInv /\ [Next]_vars => RunInv'
  BY InvStep
<1> QED
  BY InitInv, <1>1, PTL DEF Spec

-----------------------------------------------------------------------------
(* The properties. *)

\* Type correctness.
THEOREM TypeCorrect == Spec => []TypeOK
<1>1. RunInv => TypeOK
  BY DEF RunInv
<1> QED
  BY RunInvariant, <1>1, PTL

\* metadata.json says success only of a verified run with its last hand-off.
THEOREM SuccessIsEarnedAlways == Spec => []SuccessIsEarned
<1>1. ASSUME RunInv PROVE SuccessIsEarned
  <2> SUFFICES ASSUME NEW n \in Names, NEW e \in Executions,
                      disk[n].run = e, disk[n].status = "success"
               PROVE  /\ disk[n].verified
                      /\ LastPhase[e] # "training" => disk[n].handoff = LastPhase[e]
                      /\ \/ LastPhase[e] = "training" \/ fault[e]
                         \/ disk[n].phases["serving"] = "ready"
                      /\ \/ LastPhase[e] # "gateway" \/ fault[e]
                         \/ disk[n].phases["gateway"] = "ready"
    BY DEF SuccessIsEarned
  <2>1. /\ Attributed(n) /\ Local(e) /\ "none" \notin Executions \cup Names
        /\ {"free", "older"} \cap Executions = {}
        /\ dirs[n] \in Executions \cup {"free", "older"} /\ fault[e] \in BOOLEAN
    BY <1>1, ConstantsAssumption DEF RunInv, TypeOK
  <2>2. dirs[n] = e
    BY <2>1 DEF Attributed, Missing, Metadata
  <2>3. runId[e] = n
    BY <2>1, <2>2 DEF Attributed
  <2>4. Sound(e, disk[n])
    BY <2>1, <2>3 DEF Local, DiskPosition
  <2> QED
    BY <2>1, <2>4 DEF Sound
<1> QED
  BY RunInvariant, <1>1, PTL

\* An execution that returns leaves success on disk.
THEOREM ReturnedIsSuccessAlways == Spec => []ReturnedIsSuccess
<1>1. ASSUME RunInv PROVE ReturnedIsSuccess
  BY <1>1 DEF RunInv, Placement, Placed, Local, DiskPosition, ReturnedIsSuccess
<1> QED
  BY RunInvariant, <1>1, PTL

\* A handled failure is on disk, with the phase that failed.
THEOREM FailureIsRecorded == Spec => []HandledFailureIsRecorded
<1>1. ASSUME RunInv PROVE HandledFailureIsRecorded
  <2> SUFFICES ASSUME NEW e \in Executions, pc[e] = "raised", runId[e] # "none", ~fault[e]
               PROVE  LET document == disk[runId[e]] IN
                      /\ document.status = "failed"
                      /\ phase[e] # "training" =>
                           /\ document.verified
                           /\ document.phases["training"] = "success"
                           /\ document.phases[phase[e]] = "failed"
                      /\ phase[e] = "gateway" => document.phases["serving"] = "ready"
    BY DEF HandledFailureIsRecorded
  <2>1. DiskPosition(e)
    BY <1>1 DEF RunInv, Local
  <2> QED
    BY <2>1 DEF DiskPosition
<1> QED
  BY RunInvariant, <1>1, PTL

\* No directory changes hands and no file is written by another execution.
THEOREM AllocationIsExclusive == Spec => RunsAreNeverOverwritten
<1> DEFINE Kept(n) ==
      /\ dirs[n] # "free" => dirs'[n] = dirs[n]
      /\ disk'[n] # disk[n] =>
           \E e \in Executions : dirs[n] = e /\ disk'[n].run = e /\ pc'[e] # pc[e]
<1>1. ASSUME RunInv, Next, NEW n \in Names PROVE Kept(n)
  <2>1. PICK e \in Executions : Step(e) \/ Kill(e)
    BY <1>1 DEF Next
  <2>2. Frame(e) /\ MemoryPosition(e)' /\ Placed(e)
    BY <1>1, <2>1, StepFrame, LocalStep DEF RunInv, Local, Placement
  <2>3. dirs[n] # "free" => dirs'[n] = dirs[n]
    BY <2>2 DEF Frame
  <2>4. ASSUME disk'[n] # disk[n]
        PROVE  dirs[n] = e /\ disk'[n].run = e /\ pc'[e] # pc[e]
    <3>0. n # "none"
      BY ConstantsAssumption
    <3>1. n = runId[e] /\ disk'[n] = memory'[e] /\ pc'[e] # pc[e]
      BY <2>2, <2>4 DEF Frame
    <3>2. dirs[n] = e /\ runId'[e] = n
      BY <2>2, <3>0, <3>1 DEF Placed, Frame
    <3>3. memory'[e].run = e
      BY <2>2, <2>4, <3>0, <3>2 DEF Frame, MemoryPosition
    <3> QED
      BY <3>1, <3>2, <3>3
  <2> QED
    BY <2>3, <2>4
<1>2. RunInv /\ [Next]_vars => [\A n \in Names : Kept(n)]_vars
  BY <1>1
<1> QED
  BY RunInvariant, <1>2, PTL DEF Spec, RunsAreNeverOverwritten

\* A final status stays; only a failed write makes a success a failure.
THEOREM StatusIsFinal == Spec => FinalStatusStays
<1> DEFINE Stays(n) ==
      /\ disk[n].status = "failed" => disk'[n].status = "failed"
      /\ disk[n].status = "success" /\ disk'[n].status # "success" =>
           \E e \in Executions : dirs[n] = e /\ fault[e]
<1>1. ASSUME RunInv, Next, NEW n \in Names PROVE Stays(n)
  <2>1. PICK e \in Executions : Step(e) \/ Kill(e)
    BY <1>1 DEF Next
  <2>2. Frame(e) /\ DiskPosition(e) /\ Placed(e)
    BY <1>1, <2>1, StepFrame DEF RunInv, Local, Placement
  <2>3. CASE disk'[n] = disk[n]
    BY <2>3
  <2>4. CASE disk'[n] # disk[n]
    <3>0. n # "none"
      BY ConstantsAssumption
    <3>1. n = runId[e] /\ pc[e] \notin {"log", "returned", "raised", "killed"}
      BY <2>2, <2>4 DEF Frame
    <3>2. dirs[n] = e /\ Sound(e, disk[n])
      BY <2>2, <3>0, <3>1 DEF Placed, DiskPosition
    <3> QED
      BY <3>1, <3>2 DEF Sound
  <2> QED
    BY <2>3, <2>4
<1>2. RunInv /\ [Next]_vars => [\A n \in Names : Stays(n)]_vars
  BY <1>1
<1> QED
  BY RunInvariant, <1>2, PTL DEF Spec, FinalStatusStays

=============================================================================
