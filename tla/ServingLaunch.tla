--------------------------- MODULE ServingLaunch ---------------------------
(***************************************************************************)
(* Several calls of ServingManager.start_and_verify (serving/manager.py)   *)
(* with their VllmDockerBackend (serving/backends/vllm_docker.py), racing  *)
(* on one Docker host that other people use as well.                       *)
(*                                                                         *)
(* A call issues one `docker run`, so its container is named after the     *)
(* call: docker[r] is the container labelled with run r.  Other containers *)
(* (and host processes that hold a port) are members of Others.  Every     *)
(* docker command is a step, and each may be cut off by the runner's 60 s  *)
(* timeout, which raises whether or not the command took effect.           *)
(***************************************************************************)
EXTENDS Naturals

CONSTANTS
  Runs,            \* the racing calls
  Others,          \* containers of other people
  NameOf,          \* config.container_name, and the names of the others
  PortOf,          \* config.port, and the ports the others hold
  AliasOf,         \* the two served model names, and what the others serve
  CleanupOnFailure \* cleanup_on_failure: TRUE from the controller

Containers == Runs \cup Others

ASSUME ConstantsAssumption ==
  /\ Runs \cap Others = {}
  /\ "none" \notin Containers
  /\ DOMAIN NameOf = Containers
  /\ DOMAIN PortOf = Containers
  /\ DOMAIN AliasOf = Containers
  /\ CleanupOnFailure \in BOOLEAN

VARIABLES
  docker,      \* state of every container on the host
  pc,          \* where each call stands
  handle,      \* the container id the call has learned, or "none"
  operation,   \* serving/operation.json
  answered,    \* the containers that answered this call's checks (history)
  removed,     \* what remove_if_owned returned
  result       \* how the call ended

call == <<pc, handle, operation, answered, removed, result>>
vars == <<docker, call>>

DockerStates == {
  "absent",
  "created",    \* created, but never started
  "running",
  "exited",     \* its process ended; the restart policy may start it again
  "vanished"    \* removed by somebody else
}

Present(c) == docker[c] \in {"created", "running", "exited"}
NameFree(r) == \A c \in Containers : Present(c) => NameOf[c] # NameOf[r]
Bound(port) == \E c \in Containers : docker[c] = "running" /\ PortOf[c] = port

-----------------------------------------------------------------------------
Init ==
  /\ docker = [c \in Containers |-> "absent"]
  /\ pc = [r \in Runs |-> "port"]
  /\ handle = [r \in Runs |-> "none"]
  /\ operation = [r \in Runs |-> [status |-> "missing", container |-> "none"]]
  /\ answered = [r \in Runs |-> {}]
  /\ removed = [r \in Runs |-> "not_asked"]
  /\ result = [r \in Runs |-> "none"]

-----------------------------------------------------------------------------
(* The rest of the Docker host. *)

SetState(c, state) == docker' = [docker EXCEPT ![c] = state]

OtherStarts(o) ==
  /\ ~Present(o) /\ NameFree(o) /\ ~Bound(PortOf[o])
  /\ SetState(o, "running")
  /\ UNCHANGED call

OtherStops(o) ==
  /\ Present(o)
  /\ SetState(o, "absent")
  /\ UNCHANGED call

\* Somebody removes the container of a run by hand.
Vanish(r) ==
  /\ Present(r)
  /\ SetState(r, "vanished")
  /\ UNCHANGED call

\* The server process ends, and the restart policy starts it again.
Exit(r) ==
  /\ docker[r] = "running"
  /\ SetState(r, "exited")
  /\ UNCHANGED call

Restart(r) ==
  /\ docker[r] = "exited" /\ ~Bound(PortOf[r])
  /\ SetState(r, "running")
  /\ UNCHANGED call

Host ==
  \/ \E o \in Others : OtherStarts(o) \/ OtherStops(o)
  \/ \E r \in Runs : Vanish(r) \/ Exit(r) \/ Restart(r)

-----------------------------------------------------------------------------
(* Steps several handlers share. *)

Goto(r, label) == pc' = [pc EXCEPT ![r] = label]

End(r, outcome) ==
  /\ Goto(r, "done")
  /\ result' = [result EXCEPT ![r] = outcome]

\* An exception while launch is None: the except clause only re-raises.
Abort(r) ==
  /\ End(r, "failed")
  /\ UNCHANGED <<handle, operation, answered, removed>>

\* An exception once launch is known.
Recover(r) ==
  /\ Goto(r, "recover")
  /\ UNCHANGED <<handle, answered, removed, result>>

\* Mutant: the call's own result is written instead of the given status.
WriteOperationResult(r, status) ==
  operation' = [operation EXCEPT ![r] = [status |-> result[r], container |-> handle[r]]]

WriteOperation(r, status) ==
  operation' = [operation EXCEPT ![r] = [status |-> status, container |-> handle[r]]]

-----------------------------------------------------------------------------
(* VllmDockerBackend.preflight *)

CheckPort(r) ==
  /\ pc[r] = "port"
  /\ \/ Abort(r)
     \/ /\ ~Bound(PortOf[r])
        /\ Goto(r, "name")
        /\ UNCHANGED <<handle, operation, answered, removed, result>>
  /\ UNCHANGED docker

CheckName(r) ==
  /\ pc[r] = "name"
  /\ \/ Abort(r)
     \/ /\ NameFree(r)
        /\ Goto(r, "run")
        /\ UNCHANGED <<handle, operation, answered, removed, result>>
  /\ UNCHANGED docker

-----------------------------------------------------------------------------
(* VllmDockerBackend.launch *)

\* How far `docker run --detach` may get: a name that is taken stops it
\* before the container exists, a port that is taken before it starts.
CreateOnly(r) == NameFree(r) /\ SetState(r, "created")
CreateAndStart(r) == NameFree(r) /\ ~Bound(PortOf[r]) /\ SetState(r, "running")

RunSucceeds(r) ==
  /\ pc[r] = "run"
  /\ CreateAndStart(r)
  /\ handle' = [handle EXCEPT ![r] = r]
  /\ Goto(r, "image")
  /\ UNCHANGED <<operation, answered, removed, result>>

\* A non-zero exit, or an answer without a container id.
RunAmbiguous(r) ==
  /\ pc[r] = "run"
  /\ UNCHANGED docker \/ CreateOnly(r) \/ CreateAndStart(r)
  /\ Goto(r, "reconcile")
  /\ UNCHANGED <<handle, operation, answered, removed, result>>

\* The runner's timeout kills the client: ServingError from runner.run.
RunCutOff(r) ==
  /\ pc[r] = "run"
  /\ UNCHANGED docker \/ CreateOnly(r) \/ CreateAndStart(r)
  /\ Abort(r)

\* Mutant: the container name decides, not the labels.
ReconcileByName(r) ==
  /\ pc[r] = "reconcile"
  /\ \/ Abort(r)
     \/ \E c \in Containers :
          /\ Present(c) /\ NameOf[c] = NameOf[r]
          /\ handle' = [handle EXCEPT ![r] = c]
          /\ Goto(r, "image")
          /\ UNCHANGED <<operation, answered, removed, result>>
  /\ UNCHANGED docker

\* _owned_container_id: whatever state the run's own container is in, it
\* counts as launched; with any other answer the launch has failed.
Reconcile(r) ==
  /\ pc[r] = "reconcile"
  /\ \/ Abort(r)
     \/ /\ Present(r)
        /\ handle' = [handle EXCEPT ![r] = r]
        /\ Goto(r, "image")
        /\ UNCHANGED <<operation, answered, removed, result>>
  /\ UNCHANGED docker

\* `docker image inspect` for the record; when it is cut off the launch
\* result is lost with it.
InspectImage(r) ==
  /\ pc[r] = "image"
  /\ \/ Abort(r)
     \/ /\ Goto(r, "starting")
        /\ UNCHANGED <<handle, operation, answered, removed, result>>
  /\ UNCHANGED docker

-----------------------------------------------------------------------------
(* ServingManager.start_and_verify after the launch *)

RecordStarting(r) ==
  /\ pc[r] = "starting"
  /\ \/ Recover(r) /\ UNCHANGED operation
     \/ /\ WriteOperation(r, "starting")
        /\ Goto(r, "discover")
        /\ UNCHANGED <<handle, answered, removed, result>>
  /\ UNCHANGED docker

AfterCheck == [discover |-> "infer_base", infer_base |-> "infer_fine",
               infer_fine |-> "publish"]

\* A check through the advertised port is answered by whichever container
\* is published there, if it serves the run's model names.
Answers(c, r) ==
  docker[c] = "running" /\ PortOf[c] = PortOf[r] /\ AliasOf[c] = AliasOf[r]

\* Mutant: any answer from the port counts as ready.
CheckAnyModel(r) ==
  /\ pc[r] \in DOMAIN AfterCheck
  /\ \E c \in Containers :
       /\ docker[c] = "running" /\ PortOf[c] = PortOf[r]
       /\ answered' = [answered EXCEPT ![r] = @ \cup {c}]
  /\ Goto(r, AfterCheck[pc[r]])
  /\ UNCHANGED <<docker, handle, operation, removed, result>>

\* Discovery of both aliases, then inference through each.
Check(r) ==
  /\ pc[r] \in DOMAIN AfterCheck
  /\ \E c \in Containers :
       /\ Answers(c, r)
       /\ answered' = [answered EXCEPT ![r] = @ \cup {c}]
  /\ Goto(r, AfterCheck[pc[r]])
  /\ UNCHANGED <<docker, handle, operation, removed, result>>

\* Mutant: an endpoint that does not answer is retried without a deadline.
CheckFailsOnAnswer(r) ==
  /\ pc[r] \in DOMAIN AfterCheck
  /\ Bound(PortOf[r])
  /\ Recover(r)
  /\ UNCHANGED <<docker, operation>>

\* The readiness deadline passes, or an inference request fails.
CheckFails(r) ==
  /\ pc[r] \in DOMAIN AfterCheck
  /\ Recover(r)
  /\ UNCHANGED <<docker, operation>>

\* endpoint_manifest.json, health_check.json and operation.json are
\* written; one that fails leaves operation.json as it was.
Publish(r) ==
  /\ pc[r] = "publish"
  /\ \/ Recover(r) /\ UNCHANGED operation
     \/ /\ WriteOperation(r, "ready")
        /\ End(r, "ready")
        /\ UNCHANGED <<handle, answered, removed>>
  /\ UNCHANGED docker

-----------------------------------------------------------------------------
(* The except clause *)

\* operation.json says "failed" before the container is removed; a write
\* that fails here raises past the removal.
RecordFailed(r) ==
  /\ pc[r] = "recover"
  /\ \/ /\ WriteOperation(r, "failed")
        /\ IF CleanupOnFailure
             THEN Goto(r, "inspect") /\ UNCHANGED result
             ELSE End(r, "failed")
     \/ End(r, "failed") /\ UNCHANGED operation
  /\ UNCHANGED <<docker, handle, answered, removed>>

\* remove_if_owned looks the name up and compares id and labels.
InspectOwner(r) ==
  /\ pc[r] = "inspect"
  /\ \/ /\ handle[r] = r /\ Present(r)
        /\ Goto(r, "remove")
        /\ UNCHANGED <<removed, result>>
     \/ /\ removed' = [removed EXCEPT ![r] = "declined"]
        /\ End(r, "failed")
     \/ /\ End(r, "failed")
        /\ UNCHANGED removed
  /\ UNCHANGED <<docker, handle, operation, answered>>

\* Mutant: the container is removed by its name, not by its id.
RemoveByName(r) ==
  /\ pc[r] = "remove"
  /\ \E c \in Containers : Present(c) /\ NameOf[c] = NameOf[r] /\ SetState(c, "absent")
  /\ removed' = [removed EXCEPT ![r] = "removed"]
  /\ End(r, "failed")
  /\ UNCHANGED <<handle, operation, answered>>

\* Mutant: the exit status of the removal is not looked at.
RemoveUnchecked(r) ==
  /\ pc[r] = "remove"
  /\ UNCHANGED docker \/ (Present(handle[r]) /\ SetState(handle[r], "absent"))
  /\ removed' = [removed EXCEPT ![r] = "removed"]
  /\ End(r, "failed")
  /\ UNCHANGED <<handle, operation, answered>>

\* `docker container rm --force <id>`: it succeeds, or it fails with or
\* without having removed the container.
Remove(r) ==
  /\ pc[r] = "remove"
  /\ \/ /\ IF Present(handle[r]) THEN SetState(handle[r], "absent") ELSE UNCHANGED docker
        /\ removed' = [removed EXCEPT ![r] = "removed"]
     \/ /\ UNCHANGED docker \/ (Present(handle[r]) /\ SetState(handle[r], "absent"))
        /\ UNCHANGED removed
  /\ End(r, "failed")
  /\ UNCHANGED <<handle, operation, answered>>

\* The process that makes the call is killed.
Crash(r) ==
  /\ pc[r] \notin {"done", "crashed"}
  /\ Goto(r, "crashed")
  /\ UNCHANGED <<docker, handle, operation, answered, removed, result>>

-----------------------------------------------------------------------------
Launch(r) ==
  \/ CheckPort(r) \/ CheckName(r)
  \/ RunSucceeds(r) \/ RunAmbiguous(r) \/ RunCutOff(r)
  \/ Reconcile(r) \/ InspectImage(r)

Manage(r) ==
  \/ RecordStarting(r) \/ Check(r) \/ CheckFails(r) \/ Publish(r)
  \/ RecordFailed(r) \/ InspectOwner(r) \/ Remove(r)

Step(r) == Launch(r) \/ Manage(r)

Next == Host \/ \E r \in Runs : Step(r) \/ Crash(r)

Spec == Init /\ [][Next]_vars

\* Docker commands have a timeout and the readiness loop a deadline.
FairSpec == Spec /\ \A r \in Runs : WF_vars(Step(r))

-----------------------------------------------------------------------------
(* Properties. *)

TypeOK ==
  /\ docker \in [Containers -> DockerStates]
  /\ pc \in [Runs -> {"port", "name", "run", "reconcile", "image", "starting",
                      "discover", "infer_base", "infer_fine", "publish",
                      "recover", "inspect", "remove", "done", "crashed"}]
  /\ handle \in [Runs -> Containers \cup {"none"}]
  /\ operation \in [Runs -> [status : {"missing", "starting", "ready", "failed"},
                             container : Containers \cup {"none"}]]
  /\ answered \in [Runs -> SUBSET Containers]
  /\ removed \in [Runs -> {"not_asked", "declined", "removed"}]
  /\ result \in [Runs -> {"none", "ready", "failed"}]

\* No step of a call changes a container it did not create, even when names
\* are reused or containers swapped between its inspection and its removal.
OthersKeepTheirContainers ==
  [][\A r \in Runs : call' # call /\ pc'[r] # pc[r] =>
       \A c \in Containers \ {r} : docker'[c] = docker[c]]_vars

\* operation.json never blames another owner's container: an operator who
\* removes the container it names removes the run's own.
RecordedIsOwn ==
  \A r \in Runs : operation[r].container \in {r, "none"}

\* A call that reports ready was answered by its own container alone, not
\* by a server that another call published on the same port.
ReadyIsOwn ==
  \A r \in Runs : result[r] = "ready" => answered[r] = {r}

\* A call whose container never started, because its port was taken after
\* the preflight or for any other reason, is not reported ready: "Port/name
\* conflicts fail without modifying the existing resource".
PortConflictFails ==
  \A r \in Runs : result[r] = "ready" => docker[r] # "created"

\* A launched container whose id the call has learned, and which still runs
\* when the call is over, is named in operation.json: "operation.json is
\* written immediately after a successful detached launch".
LaunchIsRecorded ==
  \A r \in Runs :
    pc[r] = "done" /\ handle[r] = r /\ docker[r] = "running" =>
      operation[r].container = r

\* Every call ends, whatever the host does.
EveryCallEnds == \A r \in Runs : <>(pc[r] \in {"done", "crashed"})

\* Each call keeps the promise the controller relies on.
PromisedOutcome(r) ==
  CASE result[r] = "none" -> "working"
    [] result[r] = "ready" -> "ready"
    [] result[r] = "failed" /\ removed[r] = "removed" -> "cleared"
    [] result[r] = "failed" /\ removed[r] # "removed" -> "failed"

PromisedContainer(r) ==
  CASE docker[r] \in {"absent", "vanished"} -> docker[r]
    [] Present(r) -> "present"

Promise(r) == INSTANCE ServingPromise
  WITH outcome <- PromisedOutcome(r), container <- PromisedContainer(r)

\* (Promise(r)!PromiseSpec for every r, with the quantifier inside the box.)
KeepsPromise ==
  /\ \A r \in Runs : Promise(r)!PromiseInit
  /\ [][\A r \in Runs : [Promise(r)!PromiseNext]_(Promise(r)!promise)]_vars

=============================================================================
