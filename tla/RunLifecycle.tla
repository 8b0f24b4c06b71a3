---------------------------- MODULE RunLifecycle ----------------------------
(***************************************************************************)
(* execute_training (train_pipeline.py) with its RunManager                *)
(* (run_manager.py): several executions allocate run directories under one *)
(* runs root and take their runs through metadata.json to the end.         *)
(*                                                                         *)
(* RunManager keeps the metadata in memory and rewrites metadata.json as a *)
(* whole, so the file may lag behind: memory[e] is the one, disk[n] the    *)
(* other.  Any write to the run directory may fail, and a process may be   *)
(* killed between any two steps.                                           *)
(***************************************************************************)
EXTENDS Naturals

CONSTANTS
  Executions,   \* processes that call execute_training
  Names,        \* run ids
  MaxAttempts,  \* how many ids the allocation loop is followed through
  NameOf,       \* NameOf[e][k]: the id of attempt k, base_id or base_id_0k
  LastPhase     \* what the job asks for: "training", "serving", "gateway"

ASSUME ConstantsAssumption ==
  /\ Names \cap Executions = {}
  /\ {"free", "older"} \cap Executions = {} /\ "none" \notin Names \cup Executions
  /\ MaxAttempts \in Nat \ {0}
  /\ \A e \in Executions : NameOf[e] \in [1..MaxAttempts -> Names]
  /\ LastPhase \in [Executions -> {"training", "serving", "gateway"}]

VARIABLES
  dirs,      \* who made the directory of each run id
  disk,      \* metadata.json in it
  memory,    \* RunManager._metadata of each execution
  runId,     \* RunManager.run_id, "none" before the directory is made
  attempt,   \* attempt of the allocation loop
  pc,        \* where the execution stands
  phase,     \* current_phase
  fault      \* a write to the run directory has failed (history)

vars == <<dirs, disk, memory, runId, attempt, pc, phase, fault>>

Phases == {"training", "serving", "gateway"}

Metadata(e, status) ==
  [run |-> e, status |-> status, verified |-> FALSE,
   phases |-> [p \in Phases |-> "none"], handoff |-> "none"]

Missing == Metadata("none", "missing")

-----------------------------------------------------------------------------
\* Directories of earlier runs may be there already.
Init ==
  /\ dirs \in [Names -> {"free", "older"}]
  /\ disk = [n \in Names |-> IF dirs[n] = "older" THEN Metadata("older", "success") ELSE Missing]
  /\ memory = [e \in Executions |-> Missing]
  /\ runId = [e \in Executions |-> "none"]
  /\ attempt = [e \in Executions |-> 1]
  /\ pc = [e \in Executions |-> "allocate"]
  /\ phase = [e \in Executions |-> "training"]
  /\ fault = [e \in Executions |-> FALSE]

-----------------------------------------------------------------------------
Goto(e, label) == pc' = [pc EXCEPT ![e] = label]

SetPhase(e, p) == phase' = [phase EXCEPT ![e] = p]

\* Control leaves the running step by an exception.
Raise(e, handler) ==
  /\ Goto(e, handler)
  /\ UNCHANGED <<dirs, disk, memory, runId, attempt, phase, fault>>

\* The exception comes from a write to the run directory.
Faults(e, handler) ==
  /\ fault' = [fault EXCEPT ![e] = TRUE]
  /\ Goto(e, handler)
  /\ UNCHANGED disk

\* Mutant: the file is replaced before the new content is in memory.
SaveStale(e, new, next, handler) ==
  /\ memory' = [memory EXCEPT ![e] = new]
  /\ \/ /\ disk' = [disk EXCEPT ![runId[e]] = memory[e]]
        /\ Goto(e, next)
        /\ UNCHANGED fault
     \/ Faults(e, handler)
  /\ UNCHANGED <<dirs, runId, attempt>>

\* _write_metadata, a temporary file that replaces the old one: the file is
\* the new one or, when the write raises, still the old one.
Save(e, new, next, handler) ==
  /\ memory' = [memory EXCEPT ![e] = new]
  /\ \/ /\ disk' = [disk EXCEPT ![runId[e]] = new]
        /\ Goto(e, next)
        /\ UNCHANGED fault
     \/ Faults(e, handler)
  /\ UNCHANGED <<dirs, runId, attempt>>

SetStatus(e, status, next, handler) ==
  Save(e, [memory[e] EXCEPT !.status = status], next, handler)

RecordPhase(e, p, status, next, handler) ==
  Save(e, [memory[e] EXCEPT !.phases[p] = status], next, handler)

-----------------------------------------------------------------------------
(* RunManager.create *)

\* Mutant: mkdir(exist_ok=True).
AllocateShared(e) ==
  /\ pc[e] = "allocate"
  /\ dirs' = [dirs EXCEPT ![NameOf[e][attempt[e]]] = e]
  /\ runId' = [runId EXCEPT ![e] = NameOf[e][attempt[e]]]
  /\ Goto(e, "create")
  /\ UNCHANGED <<disk, memory, attempt, phase, fault>>

\* mkdir(exist_ok=False) decides between executions of the same second.
Allocate(e) ==
  /\ pc[e] = "allocate"
  /\ LET name == NameOf[e][attempt[e]] IN
     \/ /\ dirs[name] = "free"
        /\ dirs' = [dirs EXCEPT ![name] = e]
        /\ runId' = [runId EXCEPT ![e] = name]
        /\ Goto(e, "create")
        /\ UNCHANGED attempt
     \/ /\ dirs[name] # "free" /\ attempt[e] < MaxAttempts
        /\ attempt' = [attempt EXCEPT ![e] = @ + 1]
        /\ UNCHANGED <<dirs, runId, pc>>
  /\ UNCHANGED <<disk, memory, phase, fault>>

\* Anything but FileExistsError ends the call.
AllocateFails(e) == pc[e] = "allocate" /\ Raise(e, "raised")

\* The subdirectories and the first metadata.json; no handler is active yet.
Create(e) ==
  /\ pc[e] = "create"
  /\ Save(e, Metadata(e, "created"), "copy_config", "raised")
  /\ UNCHANGED phase

\* The input configuration is copied or sanitized.
CopyConfig(e) ==
  /\ pc[e] = "copy_config"
  /\ Raise(e, "own") \/ Raise(e, "mark_failed")

-----------------------------------------------------------------------------
(* _prepare_run *)

\* ownership.json and the log file, again outside any handler.
Own(e) ==
  /\ pc[e] = "own"
  /\ \/ Raise(e, "prepare")
     \/ Faults(e, "raised") /\ UNCHANGED <<dirs, memory, runId, attempt, phase>>

\* Environment, model, configuration and dataset are resolved and recorded,
\* then the run is "prepared"; whatever fails is handled.
Prepare(e) ==
  /\ pc[e] = "prepare"
  /\ \/ Raise(e, "mark_failed")
     \/ SetStatus(e, "prepared", "begin", "mark_failed") /\ UNCHANGED phase

-----------------------------------------------------------------------------
(* execute_training *)

\* set_status("training") and its log record precede the try block.
Begin(e) ==
  /\ pc[e] = "begin"
  /\ SetStatus(e, "training", "train", "raised")
  /\ UNCHANGED phase

\* run_training, then the duration.
Train(e) ==
  /\ pc[e] = "train"
  /\ Raise(e, "verifying") \/ Raise(e, "except")

Verifying(e) ==
  /\ pc[e] = "verifying"
  /\ SetStatus(e, "verifying", "validate", "except")
  /\ UNCHANGED phase

\* validate_model_artifacts and record_verified_artifacts.
Validate(e) ==
  /\ pc[e] = "validate"
  /\ \/ Raise(e, "except")
     \/ Save(e, [memory[e] EXCEPT !.verified = TRUE], "trained", "except") /\ UNCHANGED phase

\* Mutant: the run is marked successful once its model is verified.
TrainedSucceeds(e) ==
  /\ pc[e] = "trained"
  /\ SetStatus(e, "success", IF LastPhase[e] = "training" THEN "log" ELSE "trained_phase", "except")
  /\ UNCHANGED phase

\* Checkpoints, metrics, report context; the adapter is read when serving
\* is asked for.
Trained(e) ==
  /\ pc[e] = "trained"
  /\ \/ Raise(e, IF LastPhase[e] = "training" THEN "succeed" ELSE "trained_phase")
     \/ Raise(e, "except")

\* current_phase follows the successful record of the phase before.
TrainedPhase(e) ==
  /\ pc[e] = "trained_phase"
  /\ RecordPhase(e, "training", "success", "serving_status", "except")
  /\ IF pc'[e] = "serving_status" THEN SetPhase(e, "serving") ELSE UNCHANGED phase

ServingStatus(e) ==
  /\ pc[e] = "serving_status"
  /\ SetStatus(e, "serving", "serving_starting", "except")
  /\ UNCHANGED phase

ServingStarting(e) ==
  /\ pc[e] = "serving_starting"
  /\ RecordPhase(e, "serving", "starting", "serve", "except")
  /\ UNCHANGED phase

\* ServingManager.start_and_verify (ServingLaunch).
Serve(e) ==
  /\ pc[e] = "serve"
  /\ Raise(e, "serving_ready") \/ Raise(e, "except")

\* Mutant: the phase's status goes to the top level.
ServingReadyAtTop(e) ==
  /\ pc[e] = "serving_ready"
  /\ SetStatus(e, "ready", "serving_handoff", "except")
  /\ UNCHANGED phase

ServingReady(e) ==
  /\ pc[e] = "serving_ready"
  /\ RecordPhase(e, "serving", "ready", "serving_handoff", "except")
  /\ UNCHANGED phase

ServingHandoff(e) ==
  /\ pc[e] = "serving_handoff"
  /\ LET next == IF LastPhase[e] = "gateway" THEN "gateway_status" ELSE "succeed" IN
     Save(e, [memory[e] EXCEPT !.handoff = "serving"], next, "except")
  /\ IF pc'[e] = "gateway_status" THEN SetPhase(e, "gateway") ELSE UNCHANGED phase

GatewayStatus(e) ==
  /\ pc[e] = "gateway_status"
  /\ SetStatus(e, "gateway", "gateway_starting", "except")
  /\ UNCHANGED phase

GatewayStarting(e) ==
  /\ pc[e] = "gateway_starting"
  /\ RecordPhase(e, "gateway", "starting", "register", "except")
  /\ UNCHANGED phase

\* GatewayManager.register_and_verify (GatewayRegistration).
Register(e) ==
  /\ pc[e] = "register"
  /\ Raise(e, "gateway_ready") \/ Raise(e, "except")

GatewayReady(e) ==
  /\ pc[e] = "gateway_ready"
  /\ RecordPhase(e, "gateway", "ready", "gateway_handoff", "except")
  /\ UNCHANGED phase

GatewayHandoff(e) ==
  /\ pc[e] = "gateway_handoff"
  /\ Save(e, [memory[e] EXCEPT !.handoff = "gateway"], "succeed", "except")
  /\ UNCHANGED phase

Succeed(e) ==
  /\ pc[e] = "succeed"
  /\ SetStatus(e, "success", "log", "except")
  /\ UNCHANGED phase

\* Mutant: the closing summary, too, may raise inside the try block.
LogAndSummary(e) ==
  /\ pc[e] = "log"
  /\ Raise(e, "returned") \/ Raise(e, "except")

\* The log record after the final status is still inside the try block.
Log(e) ==
  /\ pc[e] = "log"
  /\ \/ Raise(e, "returned")
     \/ Faults(e, "except") /\ UNCHANGED <<dirs, memory, runId, attempt, phase>>

-----------------------------------------------------------------------------
(* The except clauses *)

\* Mutant: the phase that failed is not recorded.
RecordNoFailure(e) == pc[e] = "except" /\ Raise(e, "mark_failed")

RecordFailure(e) ==
  /\ pc[e] = "except"
  /\ IF phase[e] = "training"
       THEN Raise(e, "mark_failed")
       ELSE RecordPhase(e, phase[e], "failed", "mark_failed", "raised") /\ UNCHANGED phase

MarkFailed(e) ==
  /\ pc[e] = "mark_failed"
  /\ SetStatus(e, "failed", "raised", "raised")
  /\ UNCHANGED phase

Over(e) == pc[e] \in {"returned", "raised", "killed"}

Kill(e) == ~Over(e) /\ Raise(e, "killed")

-----------------------------------------------------------------------------
Step(e) ==
  \/ Allocate(e) \/ AllocateFails(e) \/ Create(e) \/ CopyConfig(e)
  \/ Own(e) \/ Prepare(e)
  \/ Begin(e) \/ Train(e) \/ Verifying(e) \/ Validate(e) \/ Trained(e)
  \/ TrainedPhase(e) \/ ServingStatus(e) \/ ServingStarting(e) \/ Serve(e)
  \/ ServingReady(e) \/ ServingHandoff(e)
  \/ GatewayStatus(e) \/ GatewayStarting(e) \/ Register(e)
  \/ GatewayReady(e) \/ GatewayHandoff(e)
  \/ Succeed(e) \/ Log(e)
  \/ RecordFailure(e) \/ MarkFailed(e)

Next == \E e \in Executions : Step(e) \/ Kill(e)

Spec == Init /\ [][Next]_vars

-----------------------------------------------------------------------------
(* Properties. *)

Statuses == {"missing", "created", "prepared", "training", "verifying", "serving", "gateway",
             "success", "failed"}

Document == [
  run : Executions \cup {"none", "older"}, status : Statuses, verified : BOOLEAN,
  phases : [Phases -> {"none", "starting", "ready", "success", "failed"}],
  handoff : {"none", "serving", "gateway"}]

Labels == {
  "allocate", "create", "copy_config", "own", "prepare", "begin", "train", "verifying",
  "validate", "trained", "trained_phase", "serving_status", "serving_starting", "serve",
  "serving_ready", "serving_handoff", "gateway_status", "gateway_starting", "register",
  "gateway_ready", "gateway_handoff", "succeed", "log", "except", "mark_failed",
  "returned", "raised", "killed"}

TypeOK ==
  /\ dirs \in [Names -> Executions \cup {"free", "older"}]
  /\ disk \in [Names -> Document]
  /\ memory \in [Executions -> Document]
  /\ runId \in [Executions -> Names \cup {"none"}]
  /\ attempt \in [Executions -> 1..MaxAttempts]
  /\ pc \in [Executions -> Labels]
  /\ phase \in [Executions -> Phases]
  /\ fault \in [Executions -> BOOLEAN]

\* Executions that start in the same second, and runs that are there already,
\* keep their directories to themselves: "Collision-safe allocation never
\* overwrites a previous run".
RunsAreNeverOverwritten ==
  [][\A n \in Names :
       /\ dirs[n] # "free" => dirs'[n] = dirs[n]
       /\ disk'[n] # disk[n] =>
            \E e \in Executions : dirs[n] = e /\ disk'[n].run = e /\ pc'[e] # pc[e]]_vars

\* metadata.json says success only of a run whose model was verified and
\* that hands off the endpoint of the last phase it was asked for; its
\* phases say the same unless a write has failed.
SuccessIsEarned ==
  \A n \in Names, e \in Executions :
    disk[n].run = e /\ disk[n].status = "success" =>
      /\ disk[n].verified
      /\ LastPhase[e] # "training" => disk[n].handoff = LastPhase[e]
      /\ LastPhase[e] = "training" \/ fault[e] \/ disk[n].phases["serving"] = "ready"
      /\ LastPhase[e] # "gateway" \/ fault[e] \/ disk[n].phases["gateway"] = "ready"

\* When execute_training returns, the file on disk says success: what the
\* worker reports to the controller agrees with the run's own record.
ReturnedIsSuccess ==
  \A e \in Executions : pc[e] = "returned" => disk[runId[e]].status = "success"

\* When it raises and no write failed, the file says failed, and tells a
\* failed endpoint phase from the training that succeeded before it.
HandledFailureIsRecorded ==
  \A e \in Executions :
    pc[e] = "raised" /\ runId[e] # "none" /\ ~fault[e] =>
      LET document == disk[runId[e]] IN
      /\ document.status = "failed"
      /\ phase[e] # "training" =>
           /\ document.verified
           /\ document.phases["training"] = "success"
           /\ document.phases[phase[e]] = "failed"
      /\ phase[e] = "gateway" => document.phases["serving"] = "ready"

\* A failed status is final; a success is withdrawn only after a write to
\* the run directory has failed.
FinalStatusStays ==
  [][\A n \in Names :
       /\ disk[n].status = "failed" => disk'[n].status = "failed"
       /\ disk[n].status = "success" /\ disk'[n].status # "success" =>
            \E e \in Executions : dirs[n] = e /\ fault[e]]_vars

=============================================================================
