------------------------- MODULE FullCleanupProofs -------------------------
(***************************************************************************)
(* Proofs about FullCleanup, for every set of executions and pipelines,    *)
(* every command line and any number of faults.                            *)
(***************************************************************************)
EXTENDS FullCleanup, RecursionLemmas, FiniteSets, FiniteSetTheorems, TLAPS

-----------------------------------------------------------------------------
(* Type correctness, first of what a deployment changes, then of the rest.  *)

TypeDeployment ==
  /\ progress \in [Exec -> Stage] /\ launchers \subseteq Exec
  /\ files \subseteq Exec \X {"claim", "temp", "execution", "result", "run", "ownership"}
  /\ containers \subseteq Exec \X {"controller", "training", "serving"}
  /\ running \subseteq containers
  /\ routes \subseteq Exec \X {"base", "fine_tuned"}
  /\ shared \subseteq {"images", "cache"}

TypeTodo ==
  CASE pc = "delete" -> todo \subseteq Exec \X {"base", "fine_tuned"}
    [] pc = "remove" -> todo \subseteq Exec \X {"controller", "training", "serving"}
    [] pc \in {"runs", "executions", "claims", "temps"} -> todo \subseteq Exec
    [] pc = "images" -> todo \subseteq {"images"}
    [] pc = "cache" -> todo \subseteq {"cache"}
    [] OTHER -> todo = {}

\* faults, and that it stays below its bound.
FaultType == faults \in 0..MaxFaults

LEMMA FaultsAreBounded == ASSUME FaultType, Faulty PROVE FaultType'
BY CleanupAssumption DEF FaultType, Faulty

TypeCleanup ==
  /\ pc \in {"idle", "discover", "list", "delete", "match", "remove", "runs",
             "executions", "claims", "temps", "images", "cache", "success", "failed"}
  /\ request \in Request \cup {NoRequest}
  /\ runs \subseteq Exec /\ executions \subseteq Exec
  /\ TypeTodo
  /\ FaultType
  /\ first \in BOOLEAN /\ quiet \in BOOLEAN /\ blind \in BOOLEAN

LEMMA TypeParts == TypeOK <=> TypeDeployment /\ TypeCleanup
BY DEF TypeOK, TypeDeployment, TypeCleanup, TypeTodo, FaultType

LEMMA TypeInit == Init => TypeOK
<1> SUFFICES ASSUME Init PROVE TypeOK
  OBVIOUS
<1>1. TypeDeployment
  BY CleanupAssumption DEF Init, TypeDeployment, Stage
<1>2. FaultType
  BY CleanupAssumption DEF Init, FaultType
<1>3. TypeCleanup
  BY <1>2 DEF Init, TypeCleanup, TypeTodo
<1> QED
  BY <1>1, <1>3, TypeParts

LEMMA TypeAdvance ==
  ASSUME TypeDeployment, NEW e \in Exec, NEW from, NEW to \in Stage, Advance(e, from, to)
  PROVE  progress' \in [Exec -> Stage]
BY DEF TypeDeployment, Advance

LEMMA TypeDeploymentStep ==
  ASSUME TypeDeployment, NEW e \in Exec, Deployment(e)
  PROVE  TypeDeployment'
<1> USE DEF TypeDeployment, Stage
<1>1. CASE Claim(e)
  BY <1>1, TypeAdvance DEF Claim
<1>2. CASE Prepare(e)
  BY <1>2, TypeAdvance DEF Prepare
<1>3. CASE StartController(e)
  BY <1>3, TypeAdvance DEF StartController, StartContainer
<1>4. CASE LauncherEnds(e)
  BY <1>4 DEF LauncherEnds
<1>5. CASE PrepareExecution(e)
  BY <1>5, TypeAdvance DEF PrepareExecution, Make
<1>6. CASE StartTraining(e)
  BY <1>6, TypeAdvance DEF StartTraining, StartContainer
<1>7. CASE TrainingWrites(e)
  <2>1. ASSUME NEW from, NEW to \in Stage, NEW kind \in {"run", "ownership", "result"},
               Advance(e, from, to), Make(e, kind)
        PROVE  TypeDeployment'
    BY <2>1, TypeAdvance DEF Make
  <2> QED
    BY <1>7, <2>1 DEF TrainingWrites
<1>8. CASE RemoveTraining(e)
  BY <1>8, TypeAdvance DEF RemoveTraining
<1>9. CASE StartServing(e)
  BY <1>9, TypeAdvance DEF StartServing, StartContainer
<1>10. ASSUME NEW role \in {"base", "fine_tuned"}, RegisterModel(e, role)
       PROVE  TypeDeployment'
  BY <1>10 DEF RegisterModel
<1>11. ASSUME NEW role \in {"controller", "training", "serving"}, ContainerStops(e, role)
       PROVE  TypeDeployment'
  BY <1>11 DEF ContainerStops
<1> QED
  BY <1>1, <1>2, <1>3, <1>4, <1>5, <1>6, <1>7, <1>8, <1>9, <1>10, <1>11 DEF Deployment

\* The cleanup takes away what a deployment has made.
LEMMA TypeShrinks ==
  ASSUME TypeDeployment, UNCHANGED <<progress, launchers>>, files' \subseteq files,
         containers' \subseteq containers, running' \subseteq containers',
         routes' \subseteq routes, shared' \subseteq shared
  PROVE  TypeDeployment'
BY DEF TypeDeployment

\* A step of the cleanup adds nothing to a deployment.
Shrinks ==
  /\ UNCHANGED <<progress, launchers>> /\ files' \subseteq files
  /\ containers' \subseteq containers
  /\ running' \subseteq containers' /\ running' \subseteq running
  /\ routes' \subseteq routes /\ shared' \subseteq shared

LEMMA CleanerShrinks ==
  ASSUME TypeDeployment, Cleaner
  PROVE  Shrinks
<1> USE DEF TypeDeployment, Shrinks
<1>1. CASE UNCHANGED deployment
  BY <1>1 DEF deployment
<1>2. ASSUME NEW x \in todo, DeleteModel(x) PROVE Shrinks
  BY <1>2 DEF DeleteModel
<1>3. ASSUME NEW x \in todo, RemoveContainer(x) PROVE Shrinks
  BY <1>3 DEF RemoveContainer
<1>4. ASSUME NEW e \in Exec, RemoveTree(e) PROVE Shrinks
  BY <1>4 DEF RemoveTree
<1>5. ASSUME NEW e \in Exec, RemoveTreeFails(e) PROVE Shrinks
  BY <1>5 DEF RemoveTreeFails
<1>6. CASE ClearShared
  BY <1>6 DEF ClearShared
<1> QED
  BY <1>1, <1>2, <1>3, <1>4, <1>5, <1>6
     DEF Cleaner, Start, Discover, ListModels, VerifyModels, MatchContainers, KeepClaim,
         NextSweep, CheckIdle, Recheck, Interrupted

\* What a command line addresses is executions.
LEMMA AddressedAreExecutions ==
  ASSUME NEW r \in Request \cup {NoRequest}
  PROVE  /\ Given(r.run) \subseteq Exec /\ Given(r.execution) \subseteq Named(r)
         /\ Named(r) \subseteq Exec
         /\ FoundRuns(r) \subseteq Addressed(r) /\ FoundExecutions(r) \subseteq Named(r)
<1>1. {r.run, r.execution} \subseteq Exec \cup {NoId}
  BY CleanupAssumption DEF NoRequest
<1>2. Given(r.run) \subseteq Exec /\ Given(r.execution) \subseteq Named(r) /\ Named(r) \subseteq Exec
  BY <1>1 DEF Given, Named
<1> QED
  BY <1>2 DEF FoundRuns, FoundExecutions, NamedDirectories, OwnedRuns, Addressed

LEMMA TypeCleaner ==
  ASSUME TypeDeployment, TypeCleanup, Cleaner
  PROVE  TypeCleanup'
<1>1. CASE Start
  BY <1>1 DEF Start, TypeCleanup, TypeTodo, FaultType
<1>2. CASE Discover
  <2>1. FoundRuns(request) \subseteq Exec /\ FoundExecutions(request) \subseteq Exec
    BY AddressedAreExecutions DEF TypeCleanup, Addressed
  <2> QED
    BY <1>2, <2>1 DEF Discover, TypeCleanup, TypeTodo, FaultType, history
<1>3. CASE ListModels
  BY <1>3 DEF ListModels, Continue, Registered, TypeCleanup, TypeTodo, FaultType, TypeDeployment, targets, history
<1>4. ASSUME NEW x \in todo, DeleteModel(x) PROVE TypeCleanup'
  BY <1>4, FaultsAreBounded
     DEF DeleteModel, Continue, Stop, TypeCleanup, TypeTodo, FaultType, targets, history
<1>5. CASE VerifyModels
  BY <1>5 DEF VerifyModels, Continue, Stop, TypeCleanup, TypeTodo, FaultType, targets, history
<1>6. CASE MatchContainers
  BY <1>6, FaultsAreBounded
     DEF MatchContainers, Continue, PassOver, Faulty, Matching, TypeCleanup, TypeTodo, FaultType,
         TypeDeployment, targets, history
<1>7. ASSUME NEW x \in todo, RemoveContainer(x) PROVE TypeCleanup'
  BY <1>7, FaultsAreBounded
     DEF RemoveContainer, Continue, PassOver, TypeCleanup, TypeTodo, FaultType, targets, history
<1>8. ASSUME NEW e \in Exec, RemoveTree(e) PROVE TypeCleanup'
  BY <1>8 DEF RemoveTree, Continue, TypeCleanup, TypeTodo, FaultType, targets, history
<1>9. ASSUME NEW e \in Exec, RemoveTreeFails(e) PROVE TypeCleanup'
  BY <1>9, FaultsAreBounded DEF RemoveTreeFails, Stop, TypeCleanup, TypeTodo, FaultType, targets
<1>10. ASSUME NEW e \in Exec, KeepClaim(e) PROVE TypeCleanup'
  BY <1>10, FaultsAreBounded DEF KeepClaim, TypeCleanup, TypeTodo, FaultType, targets, history
<1>11. CASE NextSweep
  BY <1>11 DEF NextSweep, Continue, Sweep, SweepOf, TypeCleanup, TypeTodo, FaultType, targets, history
<1>12. CASE CheckIdle
  BY <1>12 DEF CheckIdle, Continue, TypeCleanup, TypeTodo, FaultType, targets, history
<1>13. CASE ClearShared
  BY <1>13 DEF ClearShared, Continue, TypeCleanup, TypeTodo, FaultType, targets, history
<1>14. CASE Recheck
  BY <1>14, FaultsAreBounded
     DEF Recheck, Continue, Stop, PassOver, TypeCleanup, TypeTodo, FaultType, targets, history
<1>15. CASE Interrupted
  BY <1>15, FaultsAreBounded DEF Interrupted, Stop, TypeCleanup, TypeTodo, FaultType, targets
<1> QED
  BY <1>1, <1>2, <1>3, <1>4, <1>5, <1>6, <1>7, <1>8, <1>9, <1>10, <1>11, <1>12, <1>13,
     <1>14, <1>15 DEF Cleaner

LEMMA TypeStep == TypeOK /\ [Next]_vars => TypeOK'
<1> SUFFICES ASSUME TypeOK, [Next]_vars PROVE TypeDeployment' /\ TypeCleanup'
  BY DEF TypeOK, TypeDeployment, TypeCleanup, TypeTodo, FaultType
<1>1. TypeDeployment /\ TypeCleanup
  BY TypeParts
<1>2. CASE Cleaner
  BY <1>1, <1>2, CleanerShrinks, TypeShrinks, TypeCleaner DEF Shrinks
<1>3. ASSUME NEW e \in Exec, Deployment(e) PROVE TypeDeployment' /\ TypeCleanup'
  <2>1. UNCHANGED cleanup
    BY <1>3 DEF Deployment
  <2> QED
    BY <1>1, <1>3, <2>1, TypeDeploymentStep DEF TypeCleanup, TypeTodo, FaultType, cleanup, targets, history
<1>4. CASE UNCHANGED vars
  BY <1>1, <1>4 DEF TypeDeployment, TypeCleanup, TypeTodo, FaultType, vars, deployment, cleanup, targets, history
<1> QED
  BY <1>2, <1>3, <1>4 DEF Next

-----------------------------------------------------------------------------
(* What the cleanup has in hand belongs to its command line.                *)

TodoIsAddressed ==
  /\ pc = "delete" => \A m \in todo : m[1] \in Addressed(request)
  /\ pc = "remove" => \A c \in todo : c[1] \in Addressed(request)
  /\ pc = "runs" => todo \subseteq Addressed(request)
  /\ pc \in {"executions", "claims", "temps"} => todo \subseteq Named(request)

TargetsAreAddressed ==
  /\ runs \subseteq Addressed(request) /\ executions \subseteq Named(request)
  /\ pc = "idle" => request = NoRequest /\ runs = {} /\ executions = {}
  /\ TodoIsAddressed

LEMMA NobodyIsNamed == Named(NoRequest) = {} /\ Addressed(NoRequest) = {}
BY CleanupAssumption DEF Named, NoRequest, Addressed, Given

\* The containers that match, and the registrations.
LEMMA MatchesAreAddressed ==
  ASSUME TypeOK, TargetsAreAddressed
  PROVE  /\ \A c \in Matching : c[1] \in Addressed(request)
         /\ \A m \in Registered : m[1] \in Addressed(request)
<1>1. \A c \in containers : c[1] \in Exec
  BY DEF TypeOK
<1>2. \A e \in Exec : request.pipeline = Pipeline[e] => e \in Named(request)
  BY DEF Named
<1> QED
  BY <1>1, <1>2 DEF TargetsAreAddressed, Matching, Registered, Addressed

LEMMA TargetsInit == Init => TargetsAreAddressed
BY DEF Init, TargetsAreAddressed, TodoIsAddressed

\* A step that leaves the command line and what was found, and has less to do.
LEMMA TargetsFrame ==
  ASSUME TargetsAreAddressed, UNCHANGED targets, pc' = "idle" => pc = "idle",
         (pc' = pc /\ todo' \subseteq todo) \/ TodoIsAddressed'
  PROVE  TargetsAreAddressed'
BY DEF TargetsAreAddressed, TodoIsAddressed, targets

LEMMA TargetsCleaner ==
  ASSUME TypeOK, TargetsAreAddressed, Cleaner
  PROVE  TargetsAreAddressed'
<1> USE DEF targets
<1>1. CASE Start
  <2>1. CASE pc = "idle"
    <3>1. runs' = {} /\ executions' = {} /\ pc' = "discover"
      BY <1>1, <2>1 DEF Start, TargetsAreAddressed
    <3> QED
      BY <3>1 DEF TargetsAreAddressed, TodoIsAddressed
  <2>2. CASE pc # "idle"
    BY <1>1, <2>2 DEF Start, TargetsAreAddressed, TodoIsAddressed
  <2> QED
    BY <2>1, <2>2
<1>2. CASE Discover
  <2>1. FoundRuns(request) \subseteq Addressed(request) /\ FoundExecutions(request) \subseteq Named(request)
    BY AddressedAreExecutions DEF TypeOK
  <2> QED
    BY <1>2, <2>1 DEF Discover, TargetsAreAddressed, TodoIsAddressed
<1>3. CASE ListModels
  BY <1>3, MatchesAreAddressed, TargetsFrame DEF ListModels, Continue, TodoIsAddressed
<1>4. ASSUME NEW x \in todo, DeleteModel(x) PROVE TargetsAreAddressed'
  BY <1>4, TargetsFrame DEF DeleteModel, Continue, Stop, TodoIsAddressed
<1>5. CASE VerifyModels
  BY <1>5, TargetsFrame DEF VerifyModels, Continue, Stop, TodoIsAddressed
<1>6. CASE MatchContainers
  BY <1>6, MatchesAreAddressed, TargetsFrame DEF MatchContainers, Continue, PassOver, TodoIsAddressed
<1>7. ASSUME NEW x \in todo, RemoveContainer(x) PROVE TargetsAreAddressed'
  BY <1>7, TargetsFrame DEF RemoveContainer, Continue, PassOver, TodoIsAddressed
<1>8. ASSUME NEW e \in Exec, RemoveTree(e) PROVE TargetsAreAddressed'
  BY <1>8, TargetsFrame DEF RemoveTree, Continue
<1>9. ASSUME NEW e \in Exec, RemoveTreeFails(e) PROVE TargetsAreAddressed'
  BY <1>9, TargetsFrame DEF RemoveTreeFails, Stop, TodoIsAddressed
<1>10. ASSUME NEW e \in Exec, KeepClaim(e) PROVE TargetsAreAddressed'
  BY <1>10, TargetsFrame DEF KeepClaim
<1>11. CASE NextSweep
  <2>1. runs \subseteq Addressed(request) /\ executions \subseteq Named(request)
    BY DEF TargetsAreAddressed
  <2>2. TodoIsAddressed' /\ pc' # "idle" /\ UNCHANGED targets
    BY <1>11, <2>1 DEF NextSweep, Continue, Sweep, SweepOf, TodoIsAddressed
  <2> QED
    BY <2>2, TargetsFrame
<1>12. CASE CheckIdle
  BY <1>12, TargetsFrame DEF CheckIdle, Continue, TodoIsAddressed
<1>13. CASE ClearShared
  BY <1>13, TargetsFrame DEF ClearShared, Continue, TodoIsAddressed
<1>14. CASE Recheck
  BY <1>14, TargetsFrame DEF Recheck, Continue, Stop, PassOver, TodoIsAddressed
<1>15. CASE Interrupted
  BY <1>15, TargetsFrame DEF Interrupted, Stop, TodoIsAddressed
<1> QED
  BY <1>1, <1>2, <1>3, <1>4, <1>5, <1>6, <1>7, <1>8, <1>9, <1>10, <1>11, <1>12, <1>13,
     <1>14, <1>15 DEF Cleaner

LEMMA TargetsStep == TypeOK /\ TargetsAreAddressed /\ [Next]_vars => TargetsAreAddressed'
<1> SUFFICES ASSUME TypeOK, TargetsAreAddressed, [Next]_vars PROVE TargetsAreAddressed'
  OBVIOUS
<1>1. CASE Cleaner
  BY <1>1, TargetsCleaner
<1>2. CASE UNCHANGED cleanup
  BY <1>2, TargetsFrame DEF cleanup
<1> QED
  BY <1>1, <1>2 DEF Next, Deployment, vars

-----------------------------------------------------------------------------
(* Nothing is left by an execution without a claim.                         *)

\* An execution that has not begun has nothing; one that has begun and is not
\* being cleaned up has its claim.
Anchored ==
  \A e \in Exec :
    /\ progress[e] = "new" => Leftovers(e) = {}
    /\ progress[e] # "new" /\ e \notin Named(request) => <<e, "claim">> \in files

LEMMA AnchoredInit == Init => Anchored
<1> SUFFICES ASSUME Init, NEW e \in Exec
             PROVE  /\ progress[e] = "new" => Leftovers(e) = {}
                    /\ progress[e] # "new" => <<e, "claim">> \in files
  BY DEF Anchored
<1> QED
  BY DEF Init, Leftovers

\* A step of a deployment adds to one execution only, which has begun by then; no
\* such step takes a claim away.
Own(e) ==
  /\ \A d \in Exec : progress'[d] = "new" => progress[d] = "new" /\ Leftovers(d)' \subseteq Leftovers(d)
  /\ \A d \in Exec \ {e} : progress'[d] = progress[d] /\ Leftovers(d)' \subseteq Leftovers(d)
  /\ progress[e] = "new" /\ progress'[e] # "new" => <<e, "claim">> \in files'
  /\ \A d \in Exec : <<d, "claim">> \in files => <<d, "claim">> \in files'

\* What a step makes is e's.
Adds(e) ==
  \A x \in files' \cup containers' \cup routes' : x \in files \cup containers \cup routes \/ x[1] = e

\* It adds to e, which has begun before it.
LEMMA OwnAdds ==
  ASSUME TypeOK, NEW e \in Exec, progress[e] # "new", progress'[e] # "new",
         progress' = [progress EXCEPT ![e] = progress'[e]], Adds(e),
         \A d \in Exec : <<d, "claim">> \in files => <<d, "claim">> \in files'
  PROVE  Own(e)
<1>1. progress \in [Exec -> Stage]
  BY DEF TypeOK
<1>2. \A d \in Exec \ {e} : progress'[d] = progress[d] /\ Leftovers(d)' \subseteq Leftovers(d)
  BY <1>1 DEF Leftovers, Adds
<1> QED
  BY <1>1, <1>2 DEF Own

LEMMA DeploymentIsOwn ==
  ASSUME TypeOK, Anchored, NEW e \in Exec, Deployment(e)
  PROVE  Own(e)
<1>1. progress \in [Exec -> Stage]
  BY DEF TypeOK
<1>2. \A c \in running : c[1] = e => progress[e] # "new"
  BY DEF Anchored, TypeOK, Leftovers
<1>a. ASSUME NEW from, NEW to, Advance(e, from, to), from # "new", to # "new"
      PROVE  progress[e] # "new" /\ progress'[e] # "new" /\ progress' = [progress EXCEPT ![e] = progress'[e]]
  BY <1>1, <1>a DEF Advance
<1>b. ASSUME UNCHANGED progress, progress[e] # "new"
      PROVE  progress'[e] # "new" /\ progress' = [progress EXCEPT ![e] = progress'[e]]
  BY <1>1, <1>b
<1>3. CASE Claim(e)
  BY <1>1, <1>3 DEF Claim, Advance, Own, Leftovers
<1>4. CASE Prepare(e)
  <2>1. Advance(e, "claimed", "staged")
    BY <1>4 DEF Prepare
  <2>2. Adds(e) /\ \A d \in Exec : <<d, "claim">> \in files => <<d, "claim">> \in files'
    BY <1>4 DEF Prepare, Adds
  <2> QED
    BY <1>a, <2>1, <2>2, OwnAdds
<1>5. CASE StartController(e)
  <2>1. Advance(e, "staged", "started")
    BY <1>5 DEF StartController
  <2>2. Adds(e) /\ \A d \in Exec : <<d, "claim">> \in files => <<d, "claim">> \in files'
    BY <1>5 DEF StartController, Adds, StartContainer
  <2> QED
    BY <1>a, <2>1, <2>2, OwnAdds
<1>6. CASE LauncherEnds(e)
  <2>1. UNCHANGED progress /\ progress[e] # "new"
    BY <1>2, <1>6 DEF LauncherEnds
  <2>2. Adds(e) /\ \A d \in Exec : <<d, "claim">> \in files => <<d, "claim">> \in files'
    BY <1>6 DEF LauncherEnds, Adds
  <2> QED
    BY <1>b, <2>1, <2>2, OwnAdds
<1>7. CASE PrepareExecution(e)
  <2>1. Advance(e, "started", "prepared")
    BY <1>7 DEF PrepareExecution
  <2>2. Adds(e) /\ \A d \in Exec : <<d, "claim">> \in files => <<d, "claim">> \in files'
    BY <1>7 DEF PrepareExecution, Adds, Make
  <2> QED
    BY <1>a, <2>1, <2>2, OwnAdds
<1>8. CASE StartTraining(e)
  <2>1. Advance(e, "prepared", "training")
    BY <1>8 DEF StartTraining
  <2>2. Adds(e) /\ \A d \in Exec : <<d, "claim">> \in files => <<d, "claim">> \in files'
    BY <1>8 DEF StartTraining, Adds, StartContainer
  <2> QED
    BY <1>a, <2>1, <2>2, OwnAdds
<1>9. CASE TrainingWrites(e)
  <2>1. PICK from \in {"training", "run", "owned"}, to \in {"run", "owned", "reported"},
             kind \in {"run", "ownership", "result"} : Advance(e, from, to) /\ Make(e, kind)
    BY <1>9 DEF TrainingWrites
  <2>2. Adds(e) /\ \A d \in Exec : <<d, "claim">> \in files => <<d, "claim">> \in files'
    BY <2>1 DEF Make, Adds
  <2>3. from # "new" /\ to # "new"
    OBVIOUS
  <2> QED
    BY <1>a, <2>1, <2>2, <2>3, OwnAdds
<1>10. CASE RemoveTraining(e)
  <2>1. Advance(e, "reported", "trained")
    BY <1>10 DEF RemoveTraining
  <2>2. Adds(e) /\ \A d \in Exec : <<d, "claim">> \in files => <<d, "claim">> \in files'
    BY <1>10 DEF RemoveTraining, Adds
  <2> QED
    BY <1>a, <2>1, <2>2, OwnAdds
<1>11. CASE StartServing(e)
  <2>1. Advance(e, "trained", "serving")
    BY <1>11 DEF StartServing
  <2>2. Adds(e) /\ \A d \in Exec : <<d, "claim">> \in files => <<d, "claim">> \in files'
    BY <1>11 DEF StartServing, Adds, StartContainer
  <2> QED
    BY <1>a, <2>1, <2>2, OwnAdds
<1>12. ASSUME NEW role \in {"base", "fine_tuned"}, RegisterModel(e, role) PROVE Own(e)
  <2>1. UNCHANGED progress /\ progress[e] # "new"
    BY <1>2, <1>12 DEF RegisterModel
  <2>2. Adds(e) /\ \A d \in Exec : <<d, "claim">> \in files => <<d, "claim">> \in files'
    BY <1>12 DEF RegisterModel, Adds
  <2> QED
    BY <1>b, <2>1, <2>2, OwnAdds
<1>13. ASSUME NEW role \in {"controller", "training", "serving"}, ContainerStops(e, role) PROVE Own(e)
  <2>1. UNCHANGED progress /\ progress[e] # "new"
    BY <1>2, <1>13 DEF ContainerStops
  <2>2. Adds(e) /\ \A d \in Exec : <<d, "claim">> \in files => <<d, "claim">> \in files'
    BY <1>13 DEF ContainerStops, Adds
  <2> QED
    BY <1>b, <2>1, <2>2, OwnAdds
<1> QED
  BY <1>3, <1>4, <1>5, <1>6, <1>7, <1>8, <1>9, <1>10, <1>11, <1>12, <1>13 DEF Deployment

\* The cleanup takes a claim away only of an execution its command line names,
\* and that only grows.
LEMMA ClaimsStay ==
  ASSUME TypeOK, TargetsAreAddressed, Cleaner
  PROVE  /\ Named(request) \subseteq Named(request)'
         /\ \A e \in Exec : <<e, "claim">> \in files /\ e \notin Named(request) => <<e, "claim">> \in files'
<1>1. CASE Start
  <2>1. pc = "idle" => request = NoRequest
    BY DEF TargetsAreAddressed
  <2> QED
    BY <1>1, <2>1, NobodyIsNamed DEF Start, deployment, Named
<1>2. ASSUME NEW d \in Exec, RemoveTree(d)
      PROVE  /\ UNCHANGED request
             /\ \A e \in Exec : <<e, "claim">> \in files /\ e \notin Named(request) => <<e, "claim">> \in files'
  <2>1. pc = "claims" => d \in Named(request)
    BY <1>2 DEF RemoveTree, TargetsAreAddressed, TodoIsAddressed
  <2>2. \A e \in Exec : <<e, "claim">> \in Tree(pc, d) => pc = "claims" /\ e = d
    BY <1>2 DEF RemoveTree, Tree
  <2> QED
    BY <1>2, <2>1, <2>2 DEF RemoveTree, Continue, targets
<1>3. ASSUME NEW d \in Exec, RemoveTreeFails(d)
      PROVE  UNCHANGED request /\ \A e \in Exec : <<e, "claim">> \in files => <<e, "claim">> \in files'
  BY <1>3 DEF RemoveTreeFails, Stop, targets
<1>4. ASSUME NEW x \in todo, DeleteModel(x) \/ RemoveContainer(x) PROVE UNCHANGED <<request, files>>
  BY <1>4 DEF DeleteModel, RemoveContainer, Continue, Stop, PassOver, targets
<1>5. ASSUME NEW d \in Exec, KeepClaim(d) PROVE UNCHANGED <<request, files>>
  BY <1>5 DEF KeepClaim, deployment, targets
<1>6. CASE Discover \/ ListModels \/ VerifyModels \/ MatchContainers \/ NextSweep \/ CheckIdle
             \/ ClearShared \/ Recheck \/ Interrupted
  <2>1. UNCHANGED <<request, files>>
    BY <1>6 DEF Discover, ListModels, VerifyModels, MatchContainers, NextSweep, CheckIdle, ClearShared,
                Recheck, Interrupted, Continue, Stop, PassOver, deployment, targets
  <2> QED
    BY <2>1 DEF Named
<1> QED
  BY <1>1, <1>2, <1>3, <1>4, <1>5, <1>6 DEF Cleaner, Named

\* A step of the cleanup leaves progress as it is and takes away only.
LEMMA AnchoredCleaner ==
  ASSUME TypeOK, TargetsAreAddressed, Anchored, Cleaner
  PROVE  Anchored'
<1>1. UNCHANGED progress /\ \A e \in Exec : Leftovers(e)' \subseteq Leftovers(e)
  BY CleanerShrinks, TypeParts DEF Shrinks, Leftovers, TypeDeployment
<1> QED
  BY <1>1, ClaimsStay DEF Anchored

LEMMA AnchoredStep == TypeOK /\ TargetsAreAddressed /\ Anchored /\ [Next]_vars => Anchored'
<1> SUFFICES ASSUME TypeOK, TargetsAreAddressed, Anchored, [Next]_vars PROVE Anchored'
  OBVIOUS
<1>1. CASE Cleaner
  BY <1>1, AnchoredCleaner
<1>2. ASSUME NEW e \in Exec, Deployment(e) PROVE Anchored'
  <2>1. Own(e)
    BY <1>2, DeploymentIsOwn
  <2>2. UNCHANGED request
    BY <1>2 DEF Deployment, cleanup, targets
  <2>3. SUFFICES ASSUME NEW d \in Exec
        PROVE  /\ progress'[d] = "new" => Leftovers(d)' = {}
               /\ progress'[d] # "new" /\ d \notin Named(request) => <<d, "claim">> \in files'
    BY <2>2 DEF Anchored, Named
  <2> QED
    BY <2>1 DEF Own, Anchored
<1>3. CASE UNCHANGED vars
  BY <1>3 DEF vars, deployment, cleanup, targets, Anchored, Leftovers, Named
<1> QED
  BY <1>1, <1>2, <1>3 DEF Next

-----------------------------------------------------------------------------
(* The theorems.                                                            *)

Inv == TypeOK /\ TargetsAreAddressed /\ Anchored

LEMMA Invariance == Spec => []Inv
<1>1. Init => Inv
  BY TypeInit, TargetsInit, AnchoredInit DEF Inv
<1>2. Inv /\ [Next]_vars => Inv'
  BY TypeStep, TargetsStep, AnchoredStep DEF Inv
<1> QED
  BY <1>1, <1>2, PTL DEF Spec

\* The variables keep their types; in particular the work a loop has left is of
\* the kind that loop handles.
THEOREM TypeCorrect == Spec => []TypeOK
BY Invariance, PTL DEF Inv

\* Whatever an execution leaves, its claim leads to it: Leftovers of an execution
\* that no command line names are never without the claim.
THEOREM ClaimLeadsToAll == Spec => []AnchorFirst
<1>1. Inv => AnchorFirst
  BY DEF Inv, Anchored, AnchorFirst
<1> QED
  BY <1>1, Invariance, PTL

\* What a step of the cleanup takes away is of an execution its command line
\* addresses.
LEMMA CleanerTakesOwn ==
  ASSUME Inv, Cleaner, NEW e \in Exec, e \notin Addressed(request')
  PROVE  Leftovers(e)' = Leftovers(e)
<1> USE DEF Inv
<1>1. CASE UNCHANGED <<files, containers, routes>>
  BY <1>1 DEF Leftovers
<1>2. ASSUME NEW x \in todo, DeleteModel(x) PROVE Leftovers(e)' = Leftovers(e)
  <2>1. x[1] \in Addressed(request') /\ routes' = routes \ {x} /\ UNCHANGED <<files, containers>>
    BY <1>2 DEF DeleteModel, Continue, Stop, targets, TargetsAreAddressed, TodoIsAddressed, Addressed, Named
  <2> QED
    BY <2>1 DEF Leftovers
<1>3. ASSUME NEW x \in todo, RemoveContainer(x) PROVE Leftovers(e)' = Leftovers(e)
  <2>1. x[1] \in Addressed(request') /\ containers \ {x} \subseteq containers'
        /\ containers' \subseteq containers /\ UNCHANGED <<files, routes>>
    BY <1>3 DEF RemoveContainer, Continue, PassOver, targets, TargetsAreAddressed, TodoIsAddressed, Addressed, Named
  <2> QED
    BY <2>1 DEF Leftovers
<1>4. ASSUME NEW d \in Exec, RemoveTree(d) \/ RemoveTreeFails(d) PROVE Leftovers(e)' = Leftovers(e)
  <2>1. d \in Addressed(request') /\ UNCHANGED <<containers, routes>>
    BY <1>4 DEF RemoveTree, RemoveTreeFails, Continue, Stop, targets, TargetsAreAddressed, TodoIsAddressed,
                Addressed, Named
  <2>2. \A x \in files : x \in files' \/ x[1] = d
    BY <1>4 DEF RemoveTree, RemoveTreeFails, Tree
  <2>3. files' \subseteq files
    BY <1>4 DEF RemoveTree, RemoveTreeFails
  <2> QED
    BY <2>1, <2>2, <2>3 DEF Leftovers
<1> QED
  BY <1>1, <1>2, <1>3, <1>4
     DEF Cleaner, Start, Discover, ListModels, VerifyModels, MatchContainers, KeepClaim, NextSweep,
         CheckIdle, ClearShared, Recheck, Interrupted, deployment

\* A cleanup touches nothing of an execution its command line does not address.
THEOREM OthersAreLeftAlone == Spec => CleanupIsOwned
<1>1. ASSUME Inv, [Next]_vars
      PROVE  [pc' # pc \/ todo' # todo =>
                \A e \in Exec \ Addressed(request') : Leftovers(e) = Leftovers(e)']_vars
  <2>1. CASE Cleaner
    BY <1>1, <2>1, CleanerTakesOwn
  <2>2. CASE UNCHANGED cleanup
    BY <2>2 DEF cleanup
  <2> QED
    BY <1>1, <2>1, <2>2 DEF Next, Deployment, vars
<1> QED
  BY <1>1, Invariance, PTL DEF Spec, CleanupIsOwned

-----------------------------------------------------------------------------
(* A success is complete. The argument: the processes of the targets are    *)
(* gone, so nothing they have left grows any more; an attempt that is the   *)
(* first finds all of it, as the deployments wrote claim and ownership      *)
(* before what these lead to; and what a loop has removed stays away.       *)

\* No process of a target is left.
TargetsAreStill == quiet => \A e \in Addressed(request) : ~Live(e)

\* An execution as its own processes have left it.
AsMade(e) ==
  /\ progress[e] # "new" => <<e, "claim">> \in files
  /\ progress[e] \in {"owned", "reported", "trained", "serving"} =>
       {<<e, "run">>, <<e, "ownership">>} \subseteq files
  /\ <<e, "ownership">> \in files => <<e, "run">> \in files
  /\ progress[e] = "serving" \/ \A m \in routes : m[1] # e

\* Before the first attempt looks, nothing has been removed.
Untouched ==
  /\ pc = "failed" => ~first
  /\ first /\ pc \in {"idle", "discover"} => \A e \in Exec : AsMade(e)

\* What an attempt finds is everything it was given, and the first one finds, of
\* what its command line names, all that has left anything.
Found ==
  pc \notin {"idle", "discover", "failed"} =>
    /\ Given(request.run) \subseteq runs /\ Given(request.execution) \subseteq executions
    /\ quiet /\ first => \A e \in Named(request) :
         /\ e \in executions \/ Leftovers(e) = {}
         /\ e \in runs \/ (<<e, "ownership">> \notin files /\ \A m \in routes : m[1] # e)

\* What a loop has dealt with is gone.
Swept(label) ==
  \A e \in SweepOf(label) : (pc = label /\ e \in todo) \/ Tree(label, e) \cap files = {}

FromTemps == {"temps", "images", "cache", "success"}
FromExecutions == {"executions", "claims"} \cup FromTemps
FromRuns == {"runs"} \cup FromExecutions
FromMatch == {"match", "remove"} \cup FromRuns

Gone ==
  /\ pc \in FromMatch => Registered = {}
  /\ pc \in FromRuns => Swept("runs")
  /\ pc \in FromExecutions => Swept("executions")
  /\ pc \in FromTemps => Swept("temps")
  /\ pc = "success" /\ ~blind => Matching = {}

CompleteInv == TargetsAreStill /\ Untouched /\ Found /\ (quiet => Gone)

\* A step leaves e without a process, and makes nothing of e's.
MakesNothing(e) ==
  /\ ~Live(e)'
  /\ \A x \in files' : x[1] = e => x \in files
  /\ \A x \in containers' : x[1] = e => x \in containers
  /\ \A x \in routes' : x[1] = e => x \in routes

\* A step of a deployment makes things of its own only ...
MakesOwn(d) ==
  /\ launchers' \subseteq launchers
  /\ \A x \in running' : x \in running \/ x[1] = d
  /\ \A x \in files' : x \in files \/ x[1] = d
  /\ \A x \in containers' : x \in containers \/ x[1] = d
  /\ \A x \in routes' : x \in routes \/ x[1] = d

LEMMA OwnOnly == ASSUME NEW d \in Exec, Deployment(d) PROVE MakesOwn(d)
<1> USE DEF MakesOwn, StartContainer, Make
<1>1. CASE Claim(d) \/ Prepare(d) \/ LauncherEnds(d)
  BY <1>1 DEF Claim, Prepare, LauncherEnds
<1>2. CASE StartController(d) \/ StartTraining(d) \/ StartServing(d)
  BY <1>2 DEF StartController, StartTraining, StartServing
<1>3. CASE PrepareExecution(d) \/ TrainingWrites(d)
  BY <1>3 DEF PrepareExecution, TrainingWrites
<1>4. CASE RemoveTraining(d)
  BY <1>4 DEF RemoveTraining
<1>5. ASSUME NEW role \in {"base", "fine_tuned"}, RegisterModel(d, role) PROVE MakesOwn(d)
  BY <1>5 DEF RegisterModel
<1>6. ASSUME NEW role \in {"controller", "training", "serving"}, ContainerStops(d, role) PROVE MakesOwn(d)
  BY <1>6 DEF ContainerStops
<1> QED
  BY <1>1, <1>2, <1>3, <1>4, <1>5, <1>6 DEF Deployment

\* ... and nothing once its processes are gone, when only the serving container
\* may still stop.
LEMMA StillDeployment ==
  ASSUME NEW e \in Exec, ~Live(e), NEW d \in Exec, Deployment(d)
  PROVE  MakesNothing(e)
<1>1. CASE d # e
  BY <1>1, OwnOnly DEF MakesOwn, MakesNothing, Live
<1>2. CASE d = e
  <2>1. PICK role \in {"controller", "training", "serving"} : ContainerStops(e, role)
    BY <1>2 DEF Deployment, Live, Claim, Prepare, StartController, LauncherEnds, PrepareExecution,
                StartTraining, TrainingWrites, RemoveTraining, StartServing, RegisterModel
  <2> QED
    BY <2>1 DEF ContainerStops, MakesNothing, Live
<1> QED
  BY <1>1, <1>2

LEMMA StillTargets ==
  ASSUME TypeOK, NEW e \in Exec, ~Live(e), [Next]_vars
  PROVE  MakesNothing(e)
<1>1. CASE Cleaner
  BY <1>1, CleanerShrinks, TypeParts DEF Shrinks, MakesNothing, Live
<1>2. ASSUME NEW d \in Exec, Deployment(d) PROVE MakesNothing(e)
  BY <1>2, StillDeployment
<1>3. CASE UNCHANGED vars
  BY <1>3 DEF vars, deployment, MakesNothing, Live
<1> QED
  BY <1>1, <1>2, <1>3 DEF Next

\* The steps of an attempt after its beginning, and those that go on with it.
LEMMA CleanerKeeps ==
  ASSUME Cleaner, ~Start
  PROVE  UNCHANGED <<request, quiet>> /\ pc \notin {"idle", "failed"} /\ pc' \notin {"idle", "discover"}
<1> USE DEF Continue, Stop, PassOver, targets, history
<1>1. CASE Discover \/ ListModels \/ VerifyModels \/ MatchContainers
  BY <1>1 DEF Discover, ListModels, VerifyModels, MatchContainers
<1>2. ASSUME NEW x \in todo, DeleteModel(x) \/ RemoveContainer(x)
      PROVE  UNCHANGED <<request, quiet>> /\ pc \notin {"idle", "failed"} /\ pc' \notin {"idle", "discover"}
  BY <1>2 DEF DeleteModel, RemoveContainer
<1>3. ASSUME NEW e \in Exec, RemoveTree(e) \/ RemoveTreeFails(e) \/ KeepClaim(e)
      PROVE  UNCHANGED <<request, quiet>> /\ pc \notin {"idle", "failed"} /\ pc' \notin {"idle", "discover"}
  BY <1>3 DEF RemoveTree, RemoveTreeFails, KeepClaim
<1>4. CASE NextSweep \/ CheckIdle \/ ClearShared
  BY <1>4 DEF NextSweep, CheckIdle, ClearShared, Sweep
<1>5. CASE Recheck \/ Interrupted
  BY <1>5 DEF Recheck, Interrupted
<1> QED
  BY <1>1, <1>2, <1>3, <1>4, <1>5 DEF Cleaner

GoesOn == UNCHANGED <<targets, first, quiet>> /\ pc \notin {"idle", "discover", "failed"}

LEMMA CleanerGoesOn ==
  ASSUME Cleaner, ~Start, ~Discover, pc' # "failed"
  PROVE  GoesOn
<1> USE DEF GoesOn, Continue, Stop, PassOver, targets, history
<1>1. CASE ListModels \/ VerifyModels \/ MatchContainers
  BY <1>1 DEF ListModels, VerifyModels, MatchContainers
<1>2. ASSUME NEW x \in todo, DeleteModel(x) \/ RemoveContainer(x) PROVE GoesOn
  BY <1>2 DEF DeleteModel, RemoveContainer
<1>3. ASSUME NEW e \in Exec, RemoveTree(e) \/ RemoveTreeFails(e) \/ KeepClaim(e) PROVE GoesOn
  BY <1>3 DEF RemoveTree, RemoveTreeFails, KeepClaim
<1>4. CASE NextSweep \/ CheckIdle \/ ClearShared
  BY <1>4 DEF NextSweep, CheckIdle, ClearShared, Sweep
<1>5. CASE Recheck \/ Interrupted
  BY <1>5 DEF Recheck, Interrupted
<1> QED
  BY <1>1, <1>2, <1>3, <1>4, <1>5 DEF Cleaner

LEMMA StillStep == TypeOK /\ TargetsAreStill /\ [Next]_vars => TargetsAreStill'
<1> SUFFICES ASSUME TypeOK, TargetsAreStill, [Next]_vars PROVE TargetsAreStill'
  OBVIOUS
<1>1. CASE Start
  <2>1. quiet' => \A e \in Addressed(request') : ~Live(e)
    BY <1>1 DEF Start
  <2>2. \A e : Live(e)' <=> Live(e)
    BY <1>1 DEF Start, deployment, Live
  <2> QED
    BY <2>1, <2>2 DEF TargetsAreStill, Addressed, Named, Given
<1>2. CASE UNCHANGED <<request, quiet>>
  <2>1. Addressed(request) \subseteq Exec
    BY AddressedAreExecutions DEF TypeOK, Addressed
  <2>2. \A e \in Exec : ~Live(e) => ~Live(e)'
    BY StillTargets DEF MakesNothing
  <2> QED
    BY <1>2, <2>1, <2>2 DEF TargetsAreStill, Addressed, Named, Given
<1> QED
  BY <1>1, <1>2, CleanerKeeps DEF Next, Deployment, cleanup, targets, history, vars

-----------------------------------------------------------------------------
(* Until it is cleaned up, an execution is as its processes have left it.   *)

\* What a step of a deployment takes away is temporary files.
LEMMA FilesAreKept ==
  ASSUME NEW d \in Exec, Deployment(d), NEW e, NEW kind, kind # "temp", <<e, kind>> \in files
  PROVE  <<e, kind>> \in files'
<1> USE DEF StartContainer, Make
<1>1. CASE Claim(d) \/ Prepare(d) \/ LauncherEnds(d)
  BY <1>1 DEF Claim, Prepare, LauncherEnds
<1>2. CASE StartController(d) \/ StartTraining(d) \/ StartServing(d)
  BY <1>2 DEF StartController, StartTraining, StartServing
<1>3. CASE PrepareExecution(d) \/ TrainingWrites(d)
  BY <1>3 DEF PrepareExecution, TrainingWrites
<1>4. CASE RemoveTraining(d)
  BY <1>4 DEF RemoveTraining
<1>5. ASSUME NEW role, RegisterModel(d, role) \/ ContainerStops(d, role) PROVE <<e, kind>> \in files'
  BY <1>5 DEF RegisterModel, ContainerStops
<1> QED
  BY <1>1, <1>2, <1>3, <1>4, <1>5 DEF Deployment

\* A run directory is marked only if it is there.
LEMMA OwnershipHasRun ==
  ASSUME NEW d \in Exec, Deployment(d), NEW e, <<e, "ownership">> \in files', <<e, "ownership">> \notin files
  PROVE  <<e, "run">> \in files
<1> USE DEF StartContainer, Make
<1>1. CASE Claim(d) \/ Prepare(d) \/ LauncherEnds(d)
  BY <1>1 DEF Claim, Prepare, LauncherEnds
<1>2. CASE StartController(d) \/ StartTraining(d) \/ StartServing(d)
  BY <1>2 DEF StartController, StartTraining, StartServing
<1>3. CASE PrepareExecution(d) \/ TrainingWrites(d)
  BY <1>3 DEF PrepareExecution, TrainingWrites
<1>4. CASE RemoveTraining(d)
  BY <1>4 DEF RemoveTraining
<1>5. ASSUME NEW role, RegisterModel(d, role) \/ ContainerStops(d, role) PROVE <<e, "run">> \in files
  BY <1>5 DEF RegisterModel, ContainerStops
<1> QED
  BY <1>1, <1>2, <1>3, <1>4, <1>5 DEF Deployment

\* How far an execution comes: past a point only from the point before it.
Comes(e) ==
  /\ progress[e] = "new" /\ progress'[e] # "new" => <<e, "claim">> \in files'
  /\ progress'[e] \in {"owned", "reported", "trained", "serving"} =>
       \/ progress[e] \in {"owned", "reported", "trained", "serving"}
       \/ <<e, "run">> \in files /\ <<e, "ownership">> \in files'
  /\ progress[e] = "serving" => progress'[e] = "serving"
  /\ \A m \in routes' : m \in routes \/ m[1] # e \/ progress'[e] = "serving"

LEMMA StepComes ==
  ASSUME TypeOK, NEW d \in Exec, Deployment(d)
  PROVE  \A e \in Exec : Comes(e)
<1>0. progress \in [Exec -> Stage]
  BY DEF TypeOK
<1>1. ASSUME NEW from, NEW to, Advance(d, from, to)
      PROVE  /\ progress[d] = from /\ progress'[d] = to
             /\ \A e \in Exec : e # d => progress'[e] = progress[e]
  BY <1>0, <1>1 DEF Advance
<1>2. ASSUME UNCHANGED routes, NEW from, NEW to, Advance(d, from, to), from \notin {"new", "serving"},
             to \in {"owned", "reported", "trained", "serving"} =>
               \/ from \in {"owned", "reported", "trained", "serving"}
               \/ <<d, "run">> \in files /\ <<d, "ownership">> \in files'
      PROVE  \A e \in Exec : Comes(e)
  BY <1>1, <1>2 DEF Comes
<1>3. ASSUME UNCHANGED progress, \A m \in routes' : m \in routes \/ (m[1] = d /\ progress[d] = "serving")
      PROVE  \A e \in Exec : Comes(e)
  BY <1>3 DEF Comes
<1>4. CASE Claim(d)
  BY <1>1, <1>4 DEF Claim, Comes
<1>5. CASE Prepare(d)
  BY <1>2, <1>5 DEF Prepare
<1>6. CASE StartController(d)
  BY <1>2, <1>6 DEF StartController, StartContainer
<1>7. CASE LauncherEnds(d)
  BY <1>3, <1>7 DEF LauncherEnds
<1>8. CASE PrepareExecution(d)
  BY <1>2, <1>8 DEF PrepareExecution, Make
<1>9. CASE StartTraining(d)
  BY <1>2, <1>9 DEF StartTraining, StartContainer
<1>10. CASE TrainingWrites(d)
  <2>1. UNCHANGED routes
    BY <1>10 DEF TrainingWrites, Make
  <2>2. CASE Advance(d, "training", "run")
    BY <1>2, <2>1, <2>2
  <2>3. CASE Advance(d, "run", "owned") /\ <<d, "run">> \in files /\ Make(d, "ownership")
    <3>1. <<d, "ownership">> \in files'
      BY <2>3 DEF Make
    <3> QED
      BY <1>2, <2>1, <2>3, <3>1
  <2>4. CASE Advance(d, "owned", "reported")
    BY <1>2, <2>1, <2>4
  <2> QED
    BY <1>10, <2>2, <2>3, <2>4 DEF TrainingWrites
<1>11. CASE RemoveTraining(d)
  BY <1>2, <1>11 DEF RemoveTraining
<1>12. CASE StartServing(d)
  BY <1>2, <1>12 DEF StartServing, StartContainer
<1>13. ASSUME NEW role \in {"base", "fine_tuned"}, RegisterModel(d, role) PROVE \A e \in Exec : Comes(e)
  BY <1>3, <1>13 DEF RegisterModel
<1>14. ASSUME NEW role \in {"controller", "training", "serving"}, ContainerStops(d, role)
       PROVE  \A e \in Exec : Comes(e)
  BY <1>3, <1>14 DEF ContainerStops
<1> QED
  BY <1>4, <1>5, <1>6, <1>7, <1>8, <1>9, <1>10, <1>11, <1>12, <1>13, <1>14 DEF Deployment

LEMMA UntouchedStep == TypeOK /\ Untouched /\ [Next]_vars => Untouched'
<1> SUFFICES ASSUME TypeOK, Untouched, [Next]_vars PROVE Untouched'
  OBVIOUS
<1>1. CASE Start
  BY <1>1 DEF Start, Untouched, AsMade, deployment
<1>2. CASE Cleaner /\ ~Start
  <2>1. pc' \notin {"idle", "discover"}
    BY <1>2, CleanerKeeps
  <2>2. pc' = "failed" => ~first'
    BY <1>2 DEF Cleaner, Discover, ListModels, VerifyModels, MatchContainers, DeleteModel, RemoveContainer,
                RemoveTree, RemoveTreeFails, KeepClaim, NextSweep, CheckIdle, ClearShared, Recheck,
                Interrupted, Continue, Stop, PassOver, Sweep
  <2> QED
    BY <2>1, <2>2 DEF Untouched
<1>3. ASSUME NEW d \in Exec, Deployment(d) PROVE Untouched'
  <2>1. UNCHANGED <<pc, first>>
    BY <1>3 DEF Deployment, cleanup, history
  <2>2. ASSUME NEW e \in Exec, AsMade(e) PROVE AsMade(e)'
    <3>1. Comes(e)
      BY <1>3, StepComes
    <3>2. \A kind \in {"claim", "run", "ownership"} : <<e, kind>> \in files => <<e, kind>> \in files'
      BY <1>3, FilesAreKept
    <3>3. <<e, "ownership">> \in files' /\ <<e, "ownership">> \notin files => <<e, "run">> \in files
      BY <1>3, OwnershipHasRun
    <3> QED
      BY <2>2, <3>1, <3>2, <3>3 DEF AsMade, Comes
  <2> QED
    BY <2>1, <2>2 DEF Untouched
<1>4. CASE UNCHANGED vars
  BY <1>4 DEF vars, deployment, cleanup, history, Untouched, AsMade
<1> QED
  BY <1>1, <1>2, <1>3, <1>4 DEF Next

-----------------------------------------------------------------------------
(* The first attempt finds all of it, and what a loop removes stays away.   *)

LEMMA FoundAtFirst ==
  ASSUME TypeOK, Anchored, Untouched, Discover
  PROVE  Found'
<1>1. /\ runs' = FoundRuns(request) /\ executions' = FoundExecutions(request)
      /\ pc = "discover" /\ UNCHANGED <<deployment, request, history>>
  BY DEF Discover
<1>2. Given(request.run) \subseteq FoundRuns(request) /\ Given(request.execution) \subseteq FoundExecutions(request)
  BY DEF FoundRuns, FoundExecutions
<1>3. ASSUME first, NEW e \in Named(request)
      PROVE  /\ e \in FoundExecutions(request) \/ Leftovers(e) = {}
             /\ e \in FoundRuns(request) \/ (<<e, "ownership">> \notin files /\ \A m \in routes : m[1] # e)
  <2>1. e \in Exec
    BY DEF Named
  <2>2. AsMade(e)
    BY <1>1, <1>3, <2>1 DEF Untouched
  <2>3. progress[e] = "new" => Leftovers(e) = {}
    BY <2>1 DEF Anchored
  <2>4. <<e, "claim">> \in files => e \in FoundExecutions(request)
    BY DEF FoundExecutions
  <2>5. {<<e, "run">>, <<e, "ownership">>} \subseteq files => e \in FoundRuns(request)
    BY DEF FoundRuns, OwnedRuns
  <2>6. <<e, "ownership">> \in files => <<e, "run">> \in files
    BY <2>2 DEF AsMade
  <2> QED
    BY <2>2, <2>3, <2>4, <2>5, <2>6 DEF AsMade
<1> QED
  BY <1>1, <1>2, <1>3 DEF Found, Named, Given, Leftovers, deployment, history

\* Of what is addressed nothing is made once its processes are gone.
Still == \A e \in Addressed(request) : MakesNothing(e)

LEMMA TargetsStayStill ==
  ASSUME TypeOK, TargetsAreStill, quiet, [Next]_vars
  PROVE  Still
<1>1. Addressed(request) \subseteq Exec
  BY AddressedAreExecutions DEF TypeOK, Addressed
<1> QED
  BY <1>1, StillTargets DEF TargetsAreStill, Still

LEMMA FoundStays ==
  ASSUME Found, GoesOn, quiet => Still
  PROVE  Found'
<1>1. /\ Given(request.run) \subseteq runs /\ Given(request.execution) \subseteq executions
      /\ runs' = runs /\ executions' = executions /\ request' = request /\ quiet' = quiet /\ first' = first
  BY DEF Found, GoesOn, targets
<1>2. ASSUME quiet, first, NEW e \in Named(request)
      PROVE  /\ e \in executions \/ Leftovers(e)' = {}
             /\ e \in runs \/ (<<e, "ownership">> \notin files' /\ \A m \in routes' : m[1] # e)
  <2>1. /\ e \in executions \/ Leftovers(e) = {}
        /\ e \in runs \/ (<<e, "ownership">> \notin files /\ \A m \in routes : m[1] # e)
    BY <1>2 DEF Found, GoesOn
  <2>2. MakesNothing(e)
    BY <1>2 DEF Still, Addressed
  <2>3. Leftovers(e)' \subseteq Leftovers(e)
    BY <2>2 DEF MakesNothing, Leftovers
  <2>4. /\ <<e, "ownership">> \in files' => <<e, "ownership">> \in files
        /\ \A m \in routes' : m[1] = e => m \in routes
    BY <2>2 DEF MakesNothing
  <2> QED
    BY <2>1, <2>3, <2>4
<1> QED
  BY <1>1, <1>2 DEF Found, Named, Given

\* A tree holds paths of its execution only.
LEMMA TreesAreOwn ==
  ASSUME NEW label, NEW e, NEW x \in Tree(label, e) PROVE x[1] = e
BY DEF Tree

LEMMA SweptStays ==
  ASSUME NEW label, NEW e, Tree(label, e) \cap files = {}, MakesNothing(e)
  PROVE  Tree(label, e) \cap files' = {}
BY TreesAreOwn DEF MakesNothing

\* What each loop may still find, and the last check, only shrinks.
LEMMA GoneStays ==
  ASSUME TypeOK', TargetsAreAddressed, Gone, Still, UNCHANGED <<targets, pc, todo, blind>>
  PROVE  Gone'
<1> USE DEF targets
<1>1. runs \subseteq Addressed(request) /\ executions \subseteq Addressed(request)
  BY DEF TargetsAreAddressed, Addressed
<1>2. Registered' \subseteq Registered
  BY <1>1 DEF Registered, Still, MakesNothing
<1>3. Matching' \subseteq Matching
  <2>1. SUFFICES ASSUME NEW c \in Matching' PROVE c \in Matching
    OBVIOUS
  <2>2. c \in containers' /\ (\/ c[1] \in executions
                              \/ c[2] = "serving" /\ c[1] \in runs
                              \/ c[2] = "controller" /\ request.pipeline = Pipeline[c[1]])
    BY DEF Matching
  <2>3. CASE c[1] \in Addressed(request)
    BY <2>2, <2>3 DEF Still, MakesNothing, Matching
  <2>4. c[1] \in Exec
    BY <2>2 DEF TypeOK
  <2>5. c[1] \in Addressed(request)
    BY <1>1, <2>2, <2>4 DEF Addressed, Named
  <2> QED
    BY <2>3, <2>5
<1>4. ASSUME NEW label \in {"runs", "executions", "temps"}, Swept(label) PROVE Swept(label)'
  <2>1. SweepOf(label)' = SweepOf(label) /\ SweepOf(label) \subseteq Addressed(request)
    BY <1>1 DEF SweepOf
  <2>2. SUFFICES ASSUME NEW e \in SweepOf(label)
        PROVE  (pc = label /\ e \in todo) \/ Tree(label, e) \cap files' = {}
    BY <2>1 DEF Swept, Tree
  <2> QED
    BY <1>4, <2>1, SweptStays DEF Swept, Still
<1> QED
  BY <1>2, <1>3, <1>4 DEF Gone

\* A loop goes on until all its work is gone.
LEMMA SweptGoesOn ==
  ASSUME TypeOK, Cleaner, NEW label \in {"runs", "executions", "temps"}, Swept(label),
         UNCHANGED targets, pc' # "failed"
  PROVE  Swept(label)'
<1>1. files' \subseteq files
  BY CleanerShrinks, TypeParts DEF Shrinks
<1>2. SweepOf(label)' = SweepOf(label)
  BY DEF SweepOf, targets
<1>3. SUFFICES ASSUME NEW e \in SweepOf(label), pc = label, e \in todo
      PROVE  (pc' = label /\ e \in todo') \/ Tree(label, e) \cap files' = {}
  BY <1>1, <1>2 DEF Swept, Tree
<1>4. ASSUME NEW d \in Exec, RemoveTree(d)
      PROVE  (pc' = label /\ e \in todo') \/ Tree(label, e) \cap files' = {}
  BY <1>3, <1>4 DEF RemoveTree, Continue
<1> QED
  BY <1>3, <1>4
     DEF Cleaner, Start, Discover, ListModels, VerifyModels, MatchContainers, DeleteModel, RemoveContainer,
         RemoveTreeFails, KeepClaim, NextSweep, CheckIdle, ClearShared, Recheck, Interrupted,
         Stop, Sweep

\* The order of the loops.
Moves ==
  \/ pc' = pc
  \/ pc = "list" /\ pc' = "delete"
  \/ VerifyModels /\ pc = "delete" /\ pc' = "match"
  \/ pc = "match" /\ pc' = "remove"
  \/ NextSweep /\ \/ pc = "remove" /\ pc' = "runs"
                  \/ pc = "runs" /\ pc' = "executions"
                  \/ pc = "executions" /\ pc' = "claims"
                  \/ pc = "claims" /\ pc' = "temps"
  \/ pc = "temps" /\ pc' = "images"
  \/ pc = "images" /\ pc' = "cache"
  \/ Recheck /\ pc = "cache" /\ pc' = "success"

LEMMA CleanerMoves ==
  ASSUME Cleaner, pc \notin {"idle", "discover", "failed"}, pc' # "failed"
  PROVE  Moves /\ pc # "success"
<1> USE DEF Moves, Continue, Stop, PassOver
<1>1. CASE ListModels \/ VerifyModels \/ MatchContainers
  BY <1>1 DEF ListModels, VerifyModels, MatchContainers
<1>2. ASSUME NEW x \in todo, DeleteModel(x) \/ RemoveContainer(x) PROVE Moves /\ pc # "success"
  BY <1>2 DEF DeleteModel, RemoveContainer
<1>3. ASSUME NEW e \in Exec, RemoveTree(e) \/ RemoveTreeFails(e) \/ KeepClaim(e) PROVE Moves /\ pc # "success"
  BY <1>3 DEF RemoveTree, RemoveTreeFails, KeepClaim
<1>4. CASE NextSweep
  BY <1>4 DEF NextSweep, Sweep
<1>5. CASE CheckIdle \/ ClearShared \/ Recheck \/ Interrupted
  BY <1>5 DEF CheckIdle, ClearShared, Recheck, Interrupted
<1> QED
  BY <1>1, <1>2, <1>3, <1>4, <1>5 DEF Cleaner, Start, Discover

\* Each part of Gone is entered where it has just been made true.
LEMMA GoneGoesOn ==
  ASSUME TypeOK, Gone, Cleaner, GoesOn, pc' # "failed"
  PROVE  Gone'
<1> USE DEF FromTemps, FromExecutions, FromRuns, FromMatch
<1>1. Shrinks /\ UNCHANGED <<request, runs, executions>>
  BY CleanerShrinks, TypeParts DEF GoesOn, targets
<1>0. pc \in {"idle", "discover", "list", "delete", "match", "remove", "runs",
              "executions", "claims", "temps", "images", "cache", "success", "failed"}
  BY DEF TypeOK
<1>a. Moves
  BY CleanerMoves DEF GoesOn
<1>b. pc # "success"
  BY CleanerMoves DEF GoesOn
<1> USE DEF Moves
<1>2. ASSUME pc' \in FromMatch PROVE Registered' = {}
  <2>1. Registered' \subseteq Registered
    BY <1>1 DEF Shrinks, Registered
  <2>2. CASE pc \in FromMatch
    BY <2>1, <2>2 DEF Gone
  <2>3. CASE pc \notin FromMatch
    <3>2. VerifyModels
      BY <1>0, <1>2, <2>3, <1>a DEF GoesOn
    <3>3. Registered = {}
      BY <3>2 DEF VerifyModels, Stop
    <3> QED
      BY <2>1, <3>3
  <2> QED
    BY <2>2, <2>3
<1>3. ASSUME NEW label \in {"runs", "executions", "temps"}, NextSweep, pc' = label PROVE Swept(label)'
  BY <1>1, <1>3 DEF NextSweep, Continue, Sweep, SweepOf, Swept
<1>4. pc' \in FromRuns /\ pc \notin FromRuns => NextSweep /\ pc' = "runs"
  BY <1>0, <1>a DEF GoesOn
<1>5. pc' \in FromExecutions /\ pc \notin FromExecutions => NextSweep /\ pc' = "executions"
  BY <1>0, <1>a DEF GoesOn
<1>6. pc' \in FromTemps /\ pc \notin FromTemps => NextSweep /\ pc' = "temps"
  BY <1>0, <1>a DEF GoesOn
<1>7. ASSUME NEW label \in {"runs", "executions", "temps"}, Swept(label) PROVE Swept(label)'
  BY <1>7, SweptGoesOn DEF GoesOn
<1>8. ASSUME pc' = "success", ~blind' PROVE Matching' = {}
  <2>1. Recheck
    BY <1>8, <1>a, <1>b
  <2>2. Matching = {} /\ UNCHANGED deployment
    BY <1>8, <2>1 DEF Recheck, Stop, PassOver
  <2> QED
    BY <1>1, <2>2 DEF Matching, deployment
<1>9. pc' \in FromRuns => Swept("runs")'
  BY <1>3, <1>4, <1>7 DEF Gone
<1>10. pc' \in FromExecutions => Swept("executions")'
  BY <1>3, <1>5, <1>7 DEF Gone
<1>11. pc' \in FromTemps => Swept("temps")'
  BY <1>3, <1>6, <1>7 DEF Gone
<1> HIDE DEF FromTemps, FromExecutions, FromRuns, FromMatch, Moves
<1> QED
  BY <1>2, <1>8, <1>9, <1>10, <1>11 DEF Gone

\* An attempt that has found nothing to unregister goes straight to the containers.
LEMMA GoneAtFirst == ASSUME pc' = "failed" \/ Start \/ Discover PROVE Gone'
<1> USE DEF Gone, FromTemps, FromExecutions, FromRuns, FromMatch
<1>1. CASE pc' = "failed" \/ Start
  BY <1>1 DEF Start
<1>2. CASE Discover
  BY <1>2 DEF Discover, Registered
<1> QED
  BY <1>1, <1>2

-----------------------------------------------------------------------------
(* The invariant, and what it says of success.                              *)

LEMMA CompleteInit == Init => CompleteInv
<1> SUFFICES ASSUME Init PROVE CompleteInv
  OBVIOUS
<1>1. TargetsAreStill /\ Found /\ ~quiet
  BY DEF Init, TargetsAreStill, Found
<1>2. ASSUME NEW e \in Exec PROVE AsMade(e)
  <2>1. CASE e \in Deployed
    BY <2>1 DEF Init, AsMade
  <2>2. CASE e \notin Deployed
    <3>1. progress[e] = "new" /\ (\A m \in routes : m[1] # e) /\ \A x \in files : x[1] # e
      BY <2>2 DEF Init
    <3> QED
      BY <3>1 DEF AsMade
  <2> QED
    BY <2>1, <2>2
<1> QED
  BY <1>1, <1>2 DEF CompleteInv, Untouched, Init

LEMMA CompleteStep == Inv /\ Inv' /\ CompleteInv /\ [Next]_vars => CompleteInv'
<1> SUFFICES ASSUME Inv, Inv', CompleteInv, [Next]_vars PROVE CompleteInv'
  OBVIOUS
<1>0. TypeOK /\ TypeOK' /\ TargetsAreAddressed /\ Anchored
      /\ TargetsAreStill /\ Untouched /\ Found /\ (quiet => Gone)
  BY DEF Inv, CompleteInv
<1>1. TargetsAreStill' /\ Untouched'
  BY <1>0, StillStep, UntouchedStep
<1>2. quiet => Still
  BY <1>0, TargetsStayStill
<1>3. CASE Discover
  BY <1>0, <1>1, <1>3, FoundAtFirst, GoneAtFirst DEF CompleteInv
<1>4. CASE Cleaner /\ (Start \/ pc' = "failed")
  <2>1. pc' \in {"discover", "failed"}
    BY <1>4 DEF Start
  <2> QED
    BY <1>1, <1>4, <2>1, GoneAtFirst DEF CompleteInv, Found
<1>5. CASE Cleaner /\ ~Start /\ ~Discover /\ pc' # "failed"
  <2>1. GoesOn
    BY <1>5, CleanerGoesOn
  <2>2. Found'
    BY <1>0, <1>2, <2>1, FoundStays
  <2>3. quiet' => Gone'
    BY <1>0, <1>5, <2>1, GoneGoesOn DEF GoesOn
  <2> QED
    BY <1>1, <2>2, <2>3 DEF CompleteInv
<1>6. CASE UNCHANGED cleanup
  <2>1. quiet' => Gone'
    BY <1>0, <1>2, <1>6, GoneStays DEF cleanup, history
  <2>2. CASE pc \in {"idle", "discover", "failed"}
    BY <1>1, <1>6, <2>1, <2>2 DEF CompleteInv, Found, cleanup
  <2>3. CASE pc \notin {"idle", "discover", "failed"}
    <3>1. GoesOn
      BY <1>6, <2>3 DEF GoesOn, cleanup, history
    <3> QED
      BY <1>0, <1>1, <1>2, <2>1, <3>1, FoundStays DEF CompleteInv
  <2> QED
    BY <2>2, <2>3
<1> QED
  BY <1>3, <1>4, <1>5, <1>6 DEF Next, Deployment, vars

\* What a success has removed of a run it found, and of an execution.
RunIsGone(e) ==
  /\ \A m \in routes : m[1] # e
  /\ <<e, "run">> \notin files /\ <<e, "ownership">> \notin files
  /\ <<e, "serving">> \notin containers

ExecutionIsGone(e) ==
  /\ \A c \in containers : c[1] # e
  /\ \A kind \in {"execution", "result", "temp"} : <<e, kind>> \notin files

LEMMA GoneAtSuccess ==
  ASSUME CompleteInv, pc = "success", quiet, ~blind
  PROVE  /\ Registered = {} /\ Matching = {}
         /\ Swept("runs") /\ Swept("executions") /\ Swept("temps")
BY DEF CompleteInv, Gone, FromTemps, FromExecutions, FromRuns, FromMatch

LEMMA RunsAreGone ==
  ASSUME CompleteInv, pc = "success", quiet, ~blind, NEW e \in runs
  PROVE  RunIsGone(e)
<1>1. Tree("runs", e) \cap files = {}
  BY GoneAtSuccess DEF Swept, SweepOf
<1>2. Tree("runs", e) = {e} \X {"run", "ownership"}
  BY DEF Tree
<1>3. <<e, "serving">> \in containers => <<e, "serving">> \in Matching
  BY DEF Matching
<1>4. \A m \in routes : m[1] = e => m \in Registered
  BY DEF Registered
<1> QED
  BY GoneAtSuccess, <1>1, <1>2, <1>3, <1>4 DEF RunIsGone

LEMMA ExecutionsAreGone ==
  ASSUME CompleteInv, pc = "success", quiet, ~blind, NEW e \in executions
  PROVE  ExecutionIsGone(e)
<1>1. Tree("executions", e) \cap files = {} /\ Tree("temps", e) \cap files = {}
  BY GoneAtSuccess DEF Swept, SweepOf
<1>2. Tree("executions", e) = {e} \X {"execution", "result"} /\ Tree("temps", e) = {e} \X {"temp"}
  BY DEF Tree
<1>3. \A c \in containers : c[1] = e => c \in Matching
  BY DEF Matching
<1> QED
  BY GoneAtSuccess, <1>1, <1>2, <1>3 DEF ExecutionIsGone

\* A cleanup that began without a process of its targets, inspected every
\* container and reports success has removed everything it was given, and if no
\* earlier attempt stopped half way, all that the executions it names had left.
THEOREM SuccessMeansGone == Spec => []SuccessIsComplete
<1>1. ASSUME Inv, CompleteInv PROVE SuccessIsComplete
  <2> SUFFICES ASSUME pc = "success", quiet, ~blind
      PROVE  /\ \A e \in Given(request.run) :
                  Leftovers(e) \cap (routes \cup {<<e, "run">>, <<e, "serving">>}) = {}
             /\ \A e \in Given(request.execution) :
                  Leftovers(e) \cap (containers \cup {<<e, "execution">>, <<e, "temp">>}) = {}
             /\ first => \A e \in Named(request) :
                  <<e, "ownership">> \notin files
                    /\ Leftovers(e) \subseteq {<<e, "claim">>, <<e, "run">>}
    BY DEF SuccessIsComplete
  <2>1. /\ files \subseteq Exec \X {"claim", "temp", "execution", "result", "run", "ownership"}
        /\ containers \subseteq Exec \X {"controller", "training", "serving"}
        /\ routes \subseteq Exec \X {"base", "fine_tuned"}
    BY <1>1 DEF Inv, TypeOK
  <2>3. /\ Given(request.run) \subseteq runs /\ Given(request.execution) \subseteq executions
        /\ first => \A e \in Named(request) :
             /\ e \in executions \/ Leftovers(e) = {}
             /\ e \in runs \/ (<<e, "ownership">> \notin files /\ \A m \in routes : m[1] # e)
    BY <1>1 DEF CompleteInv, Found
  <2>4. ASSUME NEW e \in runs PROVE RunIsGone(e)
    BY <1>1, <2>4, RunsAreGone
  <2>5. ASSUME NEW e \in executions PROVE ExecutionIsGone(e)
    BY <1>1, <2>5, ExecutionsAreGone
  <2>6. ASSUME NEW e \in Given(request.run)
        PROVE  Leftovers(e) \cap (routes \cup {<<e, "run">>, <<e, "serving">>}) = {}
    <3>1. e \in runs
      BY <2>3, <2>6
    <3>2. <<e, "run">> \notin containers \cup routes /\ <<e, "serving">> \notin files \cup routes
      BY <2>1
    <3> QED
      BY <2>4, <3>1, <3>2 DEF Leftovers, RunIsGone
  <2>7. ASSUME NEW e \in Given(request.execution)
        PROVE  Leftovers(e) \cap (containers \cup {<<e, "execution">>, <<e, "temp">>}) = {}
    <3>1. e \in executions
      BY <2>3, <2>7
    <3>2. <<e, "execution">> \notin containers \cup routes /\ <<e, "temp">> \notin containers \cup routes
      BY <2>1
    <3> QED
      BY <2>5, <3>1, <3>2 DEF Leftovers, ExecutionIsGone
  <2>8. ASSUME first, NEW e \in Named(request)
        PROVE  /\ <<e, "ownership">> \notin files
               /\ Leftovers(e) \subseteq {<<e, "claim">>, <<e, "run">>}
    <3>1. <<e, "ownership">> \notin files /\ \A m \in routes : m[1] # e
      BY <2>3, <2>4, <2>8 DEF RunIsGone
    <3>2. CASE Leftovers(e) = {}
      BY <3>1, <3>2
    <3>3. CASE e \in executions
      <4>1. \A c \in containers : c[1] # e
        BY <2>5, <3>3 DEF ExecutionIsGone
      <4>2. \A kind \in {"execution", "result", "temp", "ownership"} : <<e, kind>> \notin files
        BY <2>5, <3>1, <3>3 DEF ExecutionIsGone
      <4>3. \A x \in files : x[1] = e => x = <<e, "claim">> \/ x = <<e, "run">>
        BY <2>1, <4>2
      <4> QED
        BY <3>1, <4>1, <4>3 DEF Leftovers
    <3> QED
      BY <2>3, <2>8, <3>2, <3>3
  <2> QED
    BY <2>6, <2>7, <2>8
<1>2. Inv /\ [Next]_vars => Inv'
  BY TypeStep, TargetsStep, AnchoredStep DEF Inv
<1> QED
  BY <1>1, <1>2, CompleteInit, CompleteStep, Invariance, PTL DEF Spec

-----------------------------------------------------------------------------
(* How long an attempt can take: the stages of main() still ahead, and      *)
(* within a stage what its loop has still to do.                            *)

StagesLeft ==
  CASE pc \in {"idle", "failed", "success"} -> 0
    [] pc = "discover" -> 11
    [] pc = "list" -> 10
    [] pc = "delete" -> 9
    [] pc = "match" -> 8
    [] pc = "remove" -> 7
    [] pc = "runs" -> 6
    [] pc = "executions" -> 5
    [] pc = "claims" -> 4
    [] pc = "temps" -> 3
    [] pc = "images" -> 2
    [] pc = "cache" -> 1

\* Whatever a loop of the cleanup may be given.
Items ==
  Exec \cup (Exec \X {"base", "fine_tuned", "controller", "training", "serving"})
       \cup {"images", "cache"}

LaterStage == \/ pc = "discover" /\ pc' \in {"list", "match", "failed"}
              \/ pc = "list" /\ pc' \in {"delete", "failed"}
              \/ pc = "delete" /\ pc' \in {"match", "failed"}
              \/ pc = "match" /\ pc' \in {"remove", "failed"}
              \/ pc = "remove" /\ pc' \in {"runs", "failed"}
              \/ pc = "runs" /\ pc' \in {"executions", "failed"}
              \/ pc = "executions" /\ pc' \in {"claims", "failed"}
              \/ pc = "claims" /\ pc' \in {"temps", "failed"}
              \/ pc = "temps" /\ pc' \in {"images", "failed"}
              \/ pc = "images" /\ pc' \in {"cache", "failed"}
              \/ pc = "cache" /\ pc' \in {"success", "failed"}

OneItemLess == pc' = pc /\ todo' \subseteq todo /\ todo' # todo

WorkLeft == StagesLeft * (Cardinality(Items) + 1) + Cardinality(todo)

LEMMA CleanerAdvances ==
  ASSUME TypeOK, Cleaner, ~Start
  PROVE  LaterStage \/ OneItemLess
<1> USE DEF Continue, Stop, PassOver, LaterStage, OneItemLess
<1>1. CASE Discover
  BY <1>1 DEF Discover
<1>2. CASE ListModels
  BY <1>2 DEF ListModels
<1>3. CASE VerifyModels
  BY <1>3 DEF VerifyModels
<1>4. CASE MatchContainers
  BY <1>4 DEF MatchContainers
<1>5. ASSUME NEW x \in todo, DeleteModel(x) PROVE LaterStage \/ OneItemLess
  BY <1>5 DEF DeleteModel
<1>6. ASSUME NEW x \in todo, RemoveContainer(x) PROVE LaterStage \/ OneItemLess
  BY <1>6 DEF RemoveContainer
<1>7. ASSUME NEW e \in Exec, RemoveTree(e) PROVE LaterStage \/ OneItemLess
  BY <1>7 DEF RemoveTree
<1>8. ASSUME NEW e \in Exec, RemoveTreeFails(e) PROVE LaterStage \/ OneItemLess
  BY <1>8 DEF RemoveTreeFails
<1>9. ASSUME NEW e \in Exec, KeepClaim(e) PROVE LaterStage \/ OneItemLess
  BY <1>9 DEF KeepClaim
<1>10. CASE NextSweep
  BY <1>10 DEF NextSweep, Sweep
<1>11. CASE CheckIdle
  BY <1>11 DEF CheckIdle
<1>12. CASE ClearShared
  BY <1>12 DEF ClearShared
<1>13. CASE Recheck
  BY <1>13 DEF Recheck
<1>14. CASE Interrupted
  BY <1>14 DEF Interrupted, TypeOK
<1> QED
  BY <1>1, <1>2, <1>3, <1>4, <1>5, <1>6, <1>7, <1>8, <1>9, <1>10, <1>11, <1>12, <1>13, <1>14
     DEF Cleaner

LEMMA ItemsAreFinite == ASSUME IsFiniteSet(Exec) PROVE IsFiniteSet(Items)
<1>1. IsFiniteSet({"images", "cache"})
      /\ IsFiniteSet({"base", "fine_tuned", "controller", "training", "serving"})
  <2>1. \A x, y : IsFiniteSet({x, y})
    <3> TAKE x, y
    <3>1. {x, y} = {x} \cup {y}
      OBVIOUS
    <3>2. IsFiniteSet({x})
      BY FS_Singleton
    <3>3. IsFiniteSet({x} \cup {y})
      BY <3>2, FS_AddElement
    <3> QED
      BY <3>1, <3>3
  <2>2. IsFiniteSet({"base", "fine_tuned"} \cup {"controller", "training"} \cup {"serving"})
    BY <2>1, FS_Union, FS_AddElement
  <2>3. {"base", "fine_tuned", "controller", "training", "serving"} =
          {"base", "fine_tuned"} \cup {"controller", "training"} \cup {"serving"}
    OBVIOUS
  <2> QED
    BY <2>1, <2>2, <2>3
<1>2. IsFiniteSet(Exec \X {"base", "fine_tuned", "controller", "training", "serving"})
  BY <1>1, FS_Product
<1> QED
  BY <1>1, <1>2, FS_Union DEF Items

LEMMA TodoIsItems ==
  ASSUME TypeOK, IsFiniteSet(Exec)
  PROVE  todo \subseteq Items /\ IsFiniteSet(todo) /\ Cardinality(todo) \in 0..Cardinality(Items)
<1>1. todo \subseteq Items
  BY TypeParts DEF TypeCleanup, TypeTodo, Items
<1> QED
  BY <1>1, ItemsAreFinite, FS_Subset, FS_CardinalityType

LEMMA StagesAreNat == TypeOK => StagesLeft \in 0..11
BY DEF TypeOK, StagesLeft

LEMMA LaterIsLess == ASSUME TypeOK, TypeOK', LaterStage PROVE StagesLeft' < StagesLeft
BY DEF LaterStage, StagesLeft

LEMMA WorkShrinks ==
  ASSUME TypeOK, TypeOK', IsFiniteSet(Exec), Cleaner, ~Start
  PROVE  WorkLeft' < WorkLeft
<1>1. StagesLeft \in Nat /\ StagesLeft' \in Nat
  <2>1. StagesLeft' \in 0..11
    BY DEF TypeOK, StagesLeft
  <2> QED
    BY <2>1, StagesAreNat
<1>2. Cardinality(todo) \in 0..Cardinality(Items)
      /\ Cardinality(todo') \in 0..Cardinality(Items) /\ Cardinality(Items) \in Nat
  <2>1. TypeTodo' /\ todo' \subseteq Items
    BY DEF TypeOK, TypeTodo, Items
  <2> QED
    BY <2>1, TodoIsItems, ItemsAreFinite, FS_Subset, FS_CardinalityType
<1>3. CASE LaterStage
  <2>1. StagesLeft' < StagesLeft
    BY <1>3, LaterIsLess
  <2>2. Cardinality(todo) \in Nat
    BY <1>2
  <2> QED
    BY <1>1, <1>2, <2>1, <2>2, Lexicographic, ZenonT(30) DEF WorkLeft
<1>4. CASE OneItemLess
  <2>1. StagesLeft' = StagesLeft
    BY <1>4 DEF OneItemLess, StagesLeft
  <2>2. Cardinality(todo') < Cardinality(todo)
    BY <1>2, <1>4, TodoIsItems, FS_Subset DEF OneItemLess
  <2>3. StagesLeft * (Cardinality(Items) + 1) \in Nat
    BY <1>1, <1>2
  <2> QED
    BY <1>2, <2>1, <2>2, <2>3 DEF WorkLeft
<1> QED
  BY <1>3, <1>4, CleanerAdvances

LEMMA StagesTimesSize ==
  ASSUME NEW n \in 0..11, NEW k \in Nat, NEW t \in 0..k
  PROVE  n * (k + 1) + t \in 0..11 * (k + 1) + k
<1>1. (11 - n) * (k + 1) \in Nat /\ n * (k + 1) \in Nat
  OBVIOUS
<1>2. 11 * (k + 1) = n * (k + 1) + (11 - n) * (k + 1)
  OBVIOUS
<1> QED
  BY <1>1, <1>2

(* An attempt of the cleanup ends whatever the deployments beside it make     *)
(* anew: a loop works off what it was given when it began and is given        *)
(* nothing more, and no stage is entered twice, so that every step brings     *)
(* the attempt nearer its end and no deployment gives it more to do.          *)
THEOREM AttemptIsBounded ==
  ASSUME IsFiniteSet(Exec)
  PROVE  Spec => /\ [](WorkLeft \in 0..11 * (Cardinality(Items) + 1) + Cardinality(Items))
                 /\ [][/\ Cleaner /\ ~Start => WorkLeft' < WorkLeft
                       /\ ~Cleaner => UNCHANGED WorkLeft]_vars
<1>1. TypeOK => WorkLeft \in 0..11 * (Cardinality(Items) + 1) + Cardinality(Items)
  <2> SUFFICES ASSUME TypeOK
               PROVE  WorkLeft \in 0..11 * (Cardinality(Items) + 1) + Cardinality(Items)
    OBVIOUS
  <2>1. StagesLeft \in 0..11 /\ Cardinality(Items) \in Nat
        /\ Cardinality(todo) \in 0..Cardinality(Items)
    BY StagesAreNat, TodoIsItems, ItemsAreFinite, FS_CardinalityType
  <2> QED
    BY <2>1, StagesTimesSize DEF WorkLeft
<1>2. TypeOK /\ TypeOK' /\ [Next]_vars =>
        /\ Cleaner /\ ~Start => WorkLeft' < WorkLeft
        /\ ~Cleaner => UNCHANGED WorkLeft
  <2>1. ASSUME TypeOK, TypeOK', Cleaner, ~Start PROVE WorkLeft' < WorkLeft
    BY <2>1, WorkShrinks
  <2>2. ASSUME [Next]_vars, ~Cleaner PROVE UNCHANGED WorkLeft
    <3>1. UNCHANGED <<pc, todo>>
      BY <2>2 DEF Next, Deployment, cleanup, vars
    <3> QED
      BY <3>1 DEF WorkLeft, StagesLeft
  <2> QED
    BY <2>1, <2>2
<1> QED
  BY <1>1, <1>2, TypeCorrect, PTL DEF Spec

(* However many attempts have stopped half way and whatever they left, a      *)
(* cleanup given run and execution that reports success, having begun this    *)
(* attempt without a process of theirs and having inspected every container,  *)
(* has left nothing but a claim that could not be unlinked; and that stays    *)
(* so. With AttemptIsBounded this is what RepetitionConverges rests on beside *)
(* fairness.                                                                  *)
THEOREM RepetitionEndsClean ==
  Spec => [](pc = "success" /\ quiet /\ request.run = request.execution /\ request.run \in Exec
               => blind \/ Leftovers(request.run) \subseteq {<<request.run, "claim">>})
<1> DEFINE Clean == pc = "success" /\ quiet /\ request.run = request.execution /\ request.run \in Exec
              => blind \/ Leftovers(request.run) \subseteq {<<request.run, "claim">>}
<1>1. ASSUME Inv, CompleteInv PROVE Clean
  <2> SUFFICES ASSUME pc = "success", quiet, ~blind,
                      request.run = request.execution, request.run \in Exec
               PROVE  Leftovers(request.run) \subseteq {<<request.run, "claim">>}
    OBVIOUS
  <2> DEFINE e == request.run
  <2>1. /\ files \subseteq Exec \X {"claim", "temp", "execution", "result", "run", "ownership"}
        /\ containers \subseteq Exec \X {"controller", "training", "serving"}
        /\ routes \subseteq Exec \X {"base", "fine_tuned"}
    BY <1>1 DEF Inv, TypeOK
  <2>2. e \in runs /\ e \in executions
    BY <1>1, CleanupAssumption DEF CompleteInv, Found, Given
  <2>3. RunIsGone(e) /\ ExecutionIsGone(e)
    BY <1>1, <2>2, RunsAreGone, ExecutionsAreGone
  <2> HIDE DEF e
  <2>4. Leftovers(e) \subseteq {<<e, "claim">>}
    BY <2>1, <2>3 DEF Leftovers, RunIsGone, ExecutionIsGone
  <2> QED
    BY <2>4 DEF e
<1>2. Inv /\ [Next]_vars => Inv'
  BY TypeStep, TargetsStep, AnchoredStep DEF Inv
<1>3. Spec => []Clean
  <2> HIDE DEF Clean
  <2> QED
    BY <1>1, <1>2, CompleteInit, CompleteStep, Invariance, PTL DEF Spec
<1> QED
  BY <1>3

=============================================================================
