------------------------------ MODULE FullCleanup ------------------------------
(***************************************************************************)
(* scripts/full_cleanup.py beside the deployments it cleans up after: the  *)
(* launcher, the controller, the trainer and the serving container of each *)
(* execution may still be at work or have been killed at any point, and an *)
(* attempt of the cleanup may stop at any point and be repeated.           *)
(***************************************************************************)
EXTENDS Naturals

CONSTANTS
  Exec,       \* executions; the run of an execution is named by it
  Pipeline,   \* Pipeline[e]: the CI pipeline that launched e
  Deployed,   \* executions that were complete before the others began
  NoId,       \* an option that was not given
  Request,    \* command lines: records of a run, an execution and a pipeline
  MaxFaults   \* bound on commands and requests of the cleanup that fail

ASSUME CleanupAssumption ==
  /\ NoId \notin Exec /\ Deployed \subseteq Exec
  /\ \A e \in Exec : Pipeline[e] # NoId
  /\ \A r \in Request : {r.run, r.execution} \subseteq Exec \cup {NoId}
  /\ MaxFaults \in Nat

Stage == {"new", "claimed", "staged", "started", "prepared", "training", "run",
          "owned", "reported", "trained", "serving"}

VARIABLES
  (* deployments and what they leave *)
  progress,      \* how far the processes of an execution have come
  launchers,     \* executions whose run_pipeline.sh has not ended
  files,         \* paths that exist, as <<execution, kind>>
  containers,    \* containers that exist, as <<execution, role>>
  running,       \* those that run
  routes,        \* registrations at LiteLLM, as <<run, role>>
  shared,        \* training images and model cache, used by every execution
  (* the cleanup *)
  pc,
  request,       \* its command line
  runs, executions,  \* what discover_targets found
  todo,          \* what the loop at hand has still to do
  faults,
  (* history *)
  first,         \* no attempt has stopped half way
  quiet,         \* no process of the targets was left when this attempt began
  blind          \* an inspection of a container has failed

deployment == <<progress, launchers, files, containers, running, routes, shared>>
targets == <<request, runs, executions>>
history == <<first, quiet, blind>>
cleanup == <<pc, targets, todo, faults, history>>
vars == <<deployment, cleanup>>

NoRequest == [run |-> NoId, execution |-> NoId, pipeline |-> NoId]

Init ==
  /\ progress = [e \in Exec |-> IF e \in Deployed THEN "serving" ELSE "new"]
  /\ launchers = Exec \ Deployed
  /\ files = Deployed \X {"claim", "execution", "result", "run", "ownership"}
  /\ containers = Deployed \X {"serving"} /\ running = containers
  /\ routes = Deployed \X {"base", "fine_tuned"}
  /\ shared = {"images", "cache"}
  /\ pc = "idle" /\ request = NoRequest /\ runs = {} /\ executions = {}
  /\ todo = {} /\ faults = 0
  /\ first = TRUE /\ quiet = FALSE /\ blind = FALSE

-----------------------------------------------------------------------------
(* A deployment, as far as it makes or removes what the cleanup looks for.   *)

Advance(e, from, to) ==
  progress[e] = from /\ progress' = [progress EXCEPT ![e] = to]

\* run_pipeline.sh writes its claim before anything else,
Claim(e) ==
  /\ e \in launchers /\ Advance(e, "new", "claimed")
  /\ files' = files \cup {<<e, "claim">>}
  /\ UNCHANGED <<launchers, containers, running, routes, shared>>

\* Mutant: the claim is written later.
PrepareUnclaimed(e) ==
  /\ e \in launchers /\ Advance(e, "new", "staged")
  /\ files' = files \cup {<<e, "temp">>}
  /\ shared' = shared \cup {"images"}
  /\ UNCHANGED <<launchers, containers, running, routes>>

\* builds the images that are missing, with temporary files named after it,
Prepare(e) ==
  /\ e \in launchers /\ Advance(e, "claimed", "staged")
  /\ files' = files \cup {<<e, "temp">>}
  /\ shared' = shared \cup {"images"}
  /\ UNCHANGED <<launchers, containers, running, routes>>

StartContainer(e, role) ==
  /\ containers' = containers \cup {<<e, role>>}
  /\ running' = running \cup {<<e, role>>}
  /\ UNCHANGED <<launchers, files, routes, shared>>

\* and starts the controller's container.
StartController(e) ==
  /\ e \in launchers /\ Advance(e, "staged", "started")
  /\ StartContainer(e, "controller")

\* The trap of a shell that exits removes the temporary files; a killed shell
\* leaves them.
LauncherEnds(e) ==
  /\ e \in launchers /\ progress[e] # "new"
  /\ launchers' = launchers \ {e}
  /\ \/ <<e, "controller">> \notin running /\ files' = files \ {<<e, "temp">>}
     \/ UNCHANGED files
  /\ UNCHANGED <<progress, containers, running, routes, shared>>

Make(e, kind) ==
  /\ files' = files \cup {<<e, kind>>}
  /\ UNCHANGED <<launchers, containers, running, routes, shared>>

\* The controller makes its directory and trains in a container, which carries
\* the label of the execution only.
PrepareExecution(e) ==
  /\ <<e, "controller">> \in running /\ Advance(e, "started", "prepared")
  /\ Make(e, "execution")

StartTraining(e) ==
  /\ <<e, "controller">> \in running /\ Advance(e, "prepared", "training")
  /\ <<e, "execution">> \in files /\ "images" \in shared
  /\ StartContainer(e, "training")

\* The worker makes the run directory, marks it as the execution's, reports.
TrainingWrites(e) ==
  /\ <<e, "training">> \in running
  /\ \/ Advance(e, "training", "run") /\ Make(e, "run")
     \/ Advance(e, "run", "owned") /\ <<e, "run">> \in files /\ Make(e, "ownership")
     \/ Advance(e, "owned", "reported") /\ <<e, "execution">> \in files /\ Make(e, "result")

\* Mutant: the container goes on running.
RemoveTrainingOnly(e) ==
  /\ <<e, "controller">> \in running /\ Advance(e, "reported", "trained")
  /\ containers' = containers \ {<<e, "training">>}
  /\ UNCHANGED <<launchers, files, running, routes, shared>>

\* The controller removes that container once it has ended,
RemoveTraining(e) ==
  /\ <<e, "controller">> \in running /\ Advance(e, "reported", "trained")
  /\ containers' = containers \ {<<e, "training">>}
  /\ running' = running \ {<<e, "training">>}
  /\ UNCHANGED <<launchers, files, routes, shared>>

\* serves the run in a container with the labels of both, and registers it.
StartServing(e) ==
  /\ <<e, "controller">> \in running /\ Advance(e, "trained", "serving")
  /\ {<<e, "result">>, <<e, "run">>} \subseteq files
  /\ StartContainer(e, "serving")

RegisterModel(e, role) ==
  /\ progress[e] = "serving"
  /\ {<<e, "controller">>, <<e, "serving">>} \subseteq running
  /\ routes' = routes \cup {<<e, role>>}
  /\ UNCHANGED <<progress, launchers, files, containers, running, shared>>

\* A process ends or is killed; --rm removes the controller's container.
ContainerStops(e, role) ==
  /\ <<e, role>> \in running
  /\ running' = running \ {<<e, role>>}
  /\ containers' = IF role = "controller" THEN containers \ {<<e, role>>} ELSE containers
  /\ UNCHANGED <<progress, launchers, files, routes, shared>>

Deployment(e) ==
  /\ \/ Claim(e) \/ Prepare(e) \/ StartController(e) \/ LauncherEnds(e)
     \/ PrepareExecution(e) \/ StartTraining(e) \/ TrainingWrites(e)
     \/ RemoveTraining(e) \/ StartServing(e)
     \/ \E role \in {"base", "fine_tuned"} : RegisterModel(e, role)
     \/ \E role \in {"controller", "training", "serving"} : ContainerStops(e, role)
  /\ UNCHANGED cleanup

-----------------------------------------------------------------------------
(* What belongs to a command line                                           *)

\* The executions it names, itself or by their pipeline, and with its run.
Named(r) == {e \in Exec : r.execution = e \/ r.pipeline = Pipeline[e]}
Given(id) == {id} \ {NoId}
Addressed(r) == Named(r) \cup Given(r.run)

\* A directory below executions/ counts by its name only: the code also reads a
\* claim.json in it, which nothing writes.
NamedDirectories(r) == {e \in Given(r.execution) : <<e, "execution">> \in files}
OwnedRuns(r) == {e \in Named(r) : {<<e, "run">>, <<e, "ownership">>} \subseteq files}

FoundRuns(r) ==
  Given(r.run) \cup {e \in NamedDirectories(r) : <<e, "result">> \in files} \cup OwnedRuns(r)
\* Mutant: only what is found on disk counts.
FoundOnDisk(r) == {e \in Named(r) : <<e, "claim">> \in files} \cup OwnedRuns(r)
FoundExecutions(r) ==
  Given(r.execution) \cup {e \in Named(r) : <<e, "claim">> \in files} \cup OwnedRuns(r)

\* Mutant: docker container ls without -a.
MatchingRunning ==
  {c \in running :
     \/ c[1] \in executions
     \/ c[2] = "serving" /\ c[1] \in runs
     \/ c[2] = "controller" /\ request.pipeline = Pipeline[c[1]]}
\* By label: the serving container carries run and execution, the training
\* container the execution, the controller's execution and pipeline.
Matching ==
  {c \in containers :
     \/ c[1] \in executions
     \/ c[2] = "serving" /\ c[1] \in runs
     \/ c[2] = "controller" /\ request.pipeline = Pipeline[c[1]]}

\* Mutant: a base model is nobody's.
RegisteredAnyRun == {m \in routes : m[2] = "base" \/ m[1] \in runs}
Registered == {m \in routes : m[1] \in runs}

Live(e) == e \in launchers \/ \E role \in {"controller", "training"} : <<e, role>> \in running

-----------------------------------------------------------------------------
(* The cleanup                                                               *)

Faulty == faults < MaxFaults /\ faults' = faults + 1

\* fail(), an exception or the end of the process.
Stop ==
  /\ pc' = "failed" /\ todo' = {} /\ first' = FALSE
  /\ UNCHANGED <<targets, quiet, blind>>

Continue(label, work) ==
  /\ pc' = label /\ todo' = work
  /\ UNCHANGED <<targets, faults, history>>

\* An operator takes ids from the output of a launch that issued them.
Issued(r) ==
  /\ \A e \in Given(r.execution) : progress[e] # "new"
  /\ \A e \in Given(r.run) :
       progress[e] \in {"run", "owned", "reported", "trained", "serving"}

\* The first attempt, or one more with the same arguments.
Start ==
  /\ \/ pc = "idle" /\ request' \in {r \in Request : Issued(r)}
     \/ pc = "failed" /\ UNCHANGED request
  /\ pc' = "discover"
  /\ quiet' = \A e \in Addressed(request') : ~Live(e)
  /\ UNCHANGED <<deployment, runs, executions, todo, faults, first, blind>>

Discover ==
  /\ pc = "discover"
  /\ runs' = FoundRuns(request) /\ executions' = FoundExecutions(request)
  /\ pc' = IF runs' # {} THEN "list" ELSE "match"
  /\ UNCHANGED <<deployment, request, todo, faults, history>>

ListModels ==
  /\ pc = "list" /\ Continue("delete", Registered)
  /\ UNCHANGED deployment

\* A request that fails may have had its effect.
DeleteModel(m) ==
  /\ pc = "delete" /\ m \in todo
  /\ routes' = routes \ {m}
  /\ \/ Continue("delete", todo \ {m})
     \/ Faulty /\ Stop
  /\ UNCHANGED <<progress, launchers, files, containers, running, shared>>

VerifyModels ==
  /\ pc = "delete" /\ todo = {}
  /\ \/ Registered = {} /\ Continue("match", {})
     \/ Registered # {} /\ Stop /\ UNCHANGED faults
  /\ UNCHANGED deployment

\* A container whose inspection fails has no labels and is passed over.
PassOver(label, work) ==
  /\ Faulty
  /\ pc' = label /\ todo' = work /\ blind' = TRUE
  /\ UNCHANGED <<targets, first, quiet>>

MatchContainers ==
  /\ pc = "match"
  /\ \/ Continue("remove", Matching)
     \/ \E c \in Matching : PassOver("remove", Matching \ {c})
  /\ UNCHANGED deployment

RemoveContainer(c) ==
  /\ pc = "remove" /\ c \in todo
  /\ \/ /\ containers' = containers \ {c} /\ running' = running \ {c}
        /\ Continue("remove", todo \ {c})
     \/ /\ c \in containers /\ PassOver("remove", todo \ {c})
        /\ UNCHANGED <<containers, running>>
  /\ UNCHANGED <<progress, launchers, files, routes, shared>>

\* The loops over what is on disk, in this order.
Sweep == <<"runs", "executions", "claims", "temps">>
SweepOf(label) == IF label = "runs" THEN runs ELSE executions

\* What a target of each loop holds.
Tree(label, e) ==
  {e} \X (CASE label = "runs" -> {"run", "ownership"}
            [] label = "executions" -> {"execution", "result"}
            [] label = "claims" -> {"claim"}
            [] label = "temps" -> {"temp"})

RemoveTree(e) ==
  /\ pc \in {"runs", "executions", "claims", "temps"} /\ e \in todo
  /\ files' = files \ Tree(pc, e)
  /\ Continue(pc, todo \ {e})
  /\ UNCHANGED <<progress, launchers, containers, running, routes, shared>>

\* safe_rmtree gives up with any part of the tree gone but its root ...
RemoveTreeFails(e) ==
  /\ pc \in {"runs", "executions", "temps"} /\ e \in todo
  /\ Tree(pc, e) \cap files # {}
  /\ Faulty /\ Stop
  /\ files' \in {files, files \ {<<e, "ownership">>, <<e, "result">>}}
  /\ UNCHANGED <<progress, launchers, containers, running, routes, shared>>

\* ... and a claim that cannot be unlinked is passed over.
KeepClaim(e) ==
  /\ pc = "claims" /\ e \in todo
  /\ Faulty
  /\ todo' = todo \ {e}
  /\ UNCHANGED <<deployment, pc, targets, history>>

NextSweep ==
  /\ todo = {}
  /\ \/ pc = "remove" /\ Continue(Sweep[1], SweepOf(Sweep[1]))
     \/ \E i \in 1..3 : pc = Sweep[i] /\ Continue(Sweep[i + 1], SweepOf(Sweep[i + 1]))
  /\ UNCHANGED deployment

\* Images, and a dedicated cache, go when no container of the project runs.
CheckIdle ==
  /\ todo = {}
  /\ \/ pc = "temps" /\ Continue("images", IF running = {} THEN {"images"} ELSE {})
     \/ pc = "images" /\ \E work \in {{}, {"cache"}} :
                            (running = {} \/ work = {}) /\ Continue("cache", work)
  /\ UNCHANGED deployment

\* Docker keeps an image that a container uses; a removal that fails is ignored.
ClearShared ==
  /\ pc \in {"images", "cache"} /\ todo # {}
  /\ \/ UNCHANGED shared
     \/ /\ pc = "images" => \A e \in Exec : <<e, "training">> \notin containers
        /\ shared' = shared \ todo
  /\ Continue(pc, {})
  /\ UNCHANGED <<progress, launchers, files, containers, running, routes>>

Recheck ==
  /\ pc = "cache" /\ todo = {}
  /\ \/ Matching = {} /\ Continue("success", {})
     \/ Matching # {} /\ Stop /\ UNCHANGED faults
     \/ Matching # {} /\ PassOver("success", {})
  /\ UNCHANGED deployment

\* Any other command or request fails, or the process is killed.
Interrupted ==
  /\ pc \notin {"idle", "failed", "success"}
  /\ Faulty /\ Stop
  /\ UNCHANGED deployment

Cleaner ==
  \/ Start \/ Discover \/ ListModels \/ VerifyModels \/ MatchContainers
  \/ \E x \in todo : DeleteModel(x) \/ RemoveContainer(x)
  \/ \E e \in Exec : RemoveTree(e) \/ RemoveTreeFails(e) \/ KeepClaim(e)
  \/ NextSweep \/ CheckIdle \/ ClearShared \/ Recheck \/ Interrupted

Next == Cleaner \/ \E e \in Exec : Deployment(e)

\* Every step of the cleanup is a command or request that ends; that a failed
\* cleanup is repeated is up to its operator.
Spec == Init /\ [][Next]_vars /\ WF_vars(Cleaner)

-----------------------------------------------------------------------------
(* Properties                                                               *)

TypeOK ==
  /\ progress \in [Exec -> Stage] /\ launchers \subseteq Exec
  /\ files \subseteq Exec \X {"claim", "temp", "execution", "result", "run", "ownership"}
  /\ containers \subseteq Exec \X {"controller", "training", "serving"}
  /\ running \subseteq containers
  /\ routes \subseteq Exec \X {"base", "fine_tuned"}
  /\ shared \subseteq {"images", "cache"}
  /\ pc \in {"idle", "discover", "list", "delete", "match", "remove", "runs",
             "executions", "claims", "temps", "images", "cache", "success", "failed"}
  /\ request \in Request \cup {NoRequest}
  /\ runs \subseteq Exec /\ executions \subseteq Exec
  /\ CASE pc = "delete" -> todo \subseteq Exec \X {"base", "fine_tuned"}
       [] pc = "remove" -> todo \subseteq Exec \X {"controller", "training", "serving"}
       [] pc \in {"runs", "executions", "claims", "temps"} -> todo \subseteq Exec
       [] pc = "images" -> todo \subseteq {"images"}
       [] pc = "cache" -> todo \subseteq {"cache"}
       [] OTHER -> todo = {}
  /\ faults \in 0..MaxFaults
  /\ first \in BOOLEAN /\ quiet \in BOOLEAN /\ blind \in BOOLEAN

\* What an execution has left anywhere.
Leftovers(e) == {x \in files \cup containers \cup routes : x[1] = e}

\* A cleanup touches nothing of an execution that its command line does not
\* address, whatever else is found, running or registered at the time.
CleanupIsOwned ==
  [][pc' # pc \/ todo' # todo =>
       \A e \in Exec \ Addressed(request') : Leftovers(e) = Leftovers(e)']_vars

\* Whatever an execution leaves, at any time, its claim leads to it: the
\* "durable recovery anchor" of run_pipeline.sh is there first, and goes only
\* in a cleanup of that execution.
AnchorFirst ==
  \A e \in Exec \ Named(request) : Leftovers(e) # {} => <<e, "claim">> \in files

\* A cleanup that began when none of its targets had a process left, could
\* inspect every container, and reports success has removed everything: of the
\* run it was given, of the execution it was given - even if earlier attempts
\* stopped half way -, and, if none did, of every execution of the pipeline.
\* (A claim that cannot be unlinked, and a run directory without ownership.json,
\* are left.)
SuccessIsComplete ==
  pc = "success" /\ quiet /\ ~blind =>
    /\ \A e \in Given(request.run) :
         Leftovers(e) \cap (routes \cup {<<e, "run">>, <<e, "serving">>}) = {}
    /\ \A e \in Given(request.execution) :
         Leftovers(e) \cap (containers \cup {<<e, "execution">>, <<e, "temp">>}) = {}
    /\ first => \A e \in Named(request) :
         <<e, "ownership">> \notin files
           /\ Leftovers(e) \subseteq {<<e, "claim">>, <<e, "run">>}

\* Given run and execution, a cleanup that is repeated until it succeeds gets
\* there, whatever the earlier attempts have left half done.
RepetitionConverges ==
  /\ request.run = request.execution /\ request.run \in Exec /\ quiet
  ~> blind \/ Leftovers(request.run) \subseteq {<<request.run, "claim">>}

=============================================================================
