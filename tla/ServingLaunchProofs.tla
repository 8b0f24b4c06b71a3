------------------------ MODULE ServingLaunchProofs ------------------------
(***************************************************************************)
(* Proofs about ServingLaunch, for every set of calls, of other containers *)
(* and of names, ports and aliases, whatever clashes among them.           *)
(***************************************************************************)
EXTENDS ServingLaunch, TLAPS

-----------------------------------------------------------------------------
(* The inductive invariant, in named parts. *)

\* Before docker run is over there is no container, and from the moment the
\* call knows one until it ends, it is its own.
Position(r) ==
  /\ pc[r] \in {"port", "name", "run"} => docker[r] = "absent"
  /\ pc[r] \in {"image", "starting", "discover", "infer_base", "infer_fine",
                "publish", "recover", "inspect", "remove"} =>
       handle[r] = r /\ docker[r] # "absent"
  /\ handle[r] \in {r, "none"}

\* The call has an outcome exactly when it is over, and removes last.
Outcome(r) ==
  /\ result[r] = "none" <=> pc[r] # "done"
  /\ removed[r] = "removed" => pc[r] = "done"

LaunchInv ==
  /\ TypeOK
  /\ \A r \in Runs : Position(r) /\ Outcome(r)
  /\ RecordedIsOwn

-----------------------------------------------------------------------------
(* Type correctness. *)

LEMMA TypeHost == TypeOK /\ Host => TypeOK'
<1> SUFFICES ASSUME TypeOK, Host PROVE TypeOK'
  OBVIOUS
<1> USE DEF TypeOK, SetState, DockerStates, call, Containers
<1>1. ASSUME NEW o \in Others, OtherStarts(o) \/ OtherStops(o) PROVE TypeOK'
  BY <1>1 DEF OtherStarts, OtherStops
<1>2. ASSUME NEW r \in Runs, Vanish(r) \/ Exit(r) \/ Restart(r) PROVE TypeOK'
  BY <1>2 DEF Vanish, Exit, Restart
<1> QED
  BY <1>1, <1>2 DEF Host

LEMMA TypeLaunch ==
  ASSUME TypeOK, NEW r \in Runs, Launch(r)
  PROVE  TypeOK'
<1> USE DEF TypeOK, SetState, DockerStates, Containers, Goto, End, Abort,
            CreateOnly, CreateAndStart
<1>1. CASE CheckPort(r)
  BY <1>1 DEF CheckPort
<1>2. CASE CheckName(r)
  BY <1>2 DEF CheckName
<1>3. CASE RunSucceeds(r)
  BY <1>3 DEF RunSucceeds
<1>4. CASE RunAmbiguous(r)
  BY <1>4 DEF RunAmbiguous
<1>5. CASE RunCutOff(r)
  BY <1>5 DEF RunCutOff
<1>6. CASE Reconcile(r)
  BY <1>6 DEF Reconcile
<1>7. CASE InspectImage(r)
  BY <1>7 DEF InspectImage
<1> QED
  BY <1>1, <1>2, <1>3, <1>4, <1>5, <1>6, <1>7 DEF Launch

LEMMA TypeManage ==
  ASSUME TypeOK, NEW r \in Runs, Manage(r) \/ Crash(r)
  PROVE  TypeOK'
<1> USE DEF TypeOK, SetState, DockerStates, Containers, Goto, End, Recover,
            WriteOperation
<1>0. ASSUME NEW status \in {"starting", "ready", "failed"}, WriteOperation(r, status)
      PROVE  operation' \in [Runs -> [status : {"missing", "starting", "ready", "failed"},
                                      container : Containers \cup {"none"}]]
  BY <1>0
<1>1. CASE RecordStarting(r)
  BY <1>0, <1>1 DEF RecordStarting
<1>2. CASE Check(r)
  <2>1. AfterCheck[pc[r]] \in {"infer_base", "infer_fine", "publish"}
    BY <1>2 DEF Check, AfterCheck
  <2> QED
    BY <1>2, <2>1 DEF Check
<1>3. CASE CheckFails(r)
  BY <1>3 DEF CheckFails
<1>4. CASE Publish(r)
  BY <1>0, <1>4 DEF Publish
<1>5. CASE RecordFailed(r)
  BY <1>5 DEF RecordFailed
<1>6. CASE InspectOwner(r)
  BY <1>6 DEF InspectOwner
<1>7. CASE Remove(r)
  BY <1>7 DEF Remove
<1>8. CASE Crash(r)
  BY <1>8 DEF Crash
<1> QED
  BY <1>1, <1>2, <1>3, <1>4, <1>5, <1>6, <1>7, <1>8 DEF Manage

LEMMA TypeStep == TypeOK /\ [Next]_vars => TypeOK'
<1>1. TypeOK /\ UNCHANGED vars => TypeOK'
  BY DEF TypeOK, vars, call
<1> QED
  BY <1>1, TypeHost, TypeLaunch, TypeManage DEF Next, Step

(* Type correctness: every file, handle and outcome of every call stays     *)
(* within what start_and_verify and the Docker host can produce.            *)
THEOREM TypeCorrect == Spec => []TypeOK
<1>1. Init => TypeOK
  BY DEF Init, TypeOK, DockerStates
<1> QED
  BY <1>1, TypeStep, PTL DEF Spec

-----------------------------------------------------------------------------
(* What one step may change. *)

\* A step of a call changes the call's own entries and its own container.
Frame(r) ==
  /\ \A s \in Runs \ {r} :
       /\ pc'[s] = pc[s] /\ handle'[s] = handle[s] /\ operation'[s] = operation[s]
       /\ answered'[s] = answered[s] /\ removed'[s] = removed[s]
       /\ result'[s] = result[s]
  /\ \A c \in Containers \ {r} : docker'[c] = docker[c]

LEMMA LaunchFrame ==
  ASSUME LaunchInv, NEW r \in Runs, Launch(r)
  PROVE  Frame(r)
<1> USE DEF LaunchInv, TypeOK, Frame, SetState, Containers, Goto, End, Abort,
            CreateOnly, CreateAndStart
<1>1. CASE CheckPort(r)
  BY <1>1 DEF CheckPort
<1>2. CASE CheckName(r)
  BY <1>2 DEF CheckName
<1>3. CASE RunSucceeds(r)
  BY <1>3 DEF RunSucceeds
<1>4. CASE RunAmbiguous(r)
  BY <1>4 DEF RunAmbiguous
<1>5. CASE RunCutOff(r)
  BY <1>5 DEF RunCutOff
<1>6. CASE Reconcile(r)
  BY <1>6 DEF Reconcile
<1>7. CASE InspectImage(r)
  BY <1>7 DEF InspectImage
<1> QED
  BY <1>1, <1>2, <1>3, <1>4, <1>5, <1>6, <1>7 DEF Launch

LEMMA ManageFrame ==
  ASSUME LaunchInv, NEW r \in Runs, Manage(r) \/ Crash(r)
  PROVE  Frame(r)
<1> USE DEF LaunchInv, TypeOK, Frame, SetState, Containers, Goto, End, Recover,
            WriteOperation
<1>1. CASE RecordStarting(r)
  BY <1>1 DEF RecordStarting
<1>2. CASE Check(r)
  BY <1>2 DEF Check
<1>3. CASE CheckFails(r)
  BY <1>3 DEF CheckFails
<1>4. CASE Publish(r)
  BY <1>4 DEF Publish
<1>5. CASE RecordFailed(r)
  BY <1>5 DEF RecordFailed
<1>6. CASE InspectOwner(r)
  BY <1>6 DEF InspectOwner
<1>7. CASE Remove(r)
  <2>1. handle[r] = r
    BY <1>7 DEF Remove, Position
  <2> QED
    BY <1>7, <2>1 DEF Remove
<1>8. CASE Crash(r)
  BY <1>8 DEF Crash
<1> QED
  BY <1>1, <1>2, <1>3, <1>4, <1>5, <1>6, <1>7, <1>8 DEF Manage

\* The rest of the host touches no call, and creates no container of a run.
LEMMA HostFrame ==
  ASSUME LaunchInv, Host
  PROVE  /\ UNCHANGED call
         /\ \A r \in Runs : \/ docker'[r] = docker[r]
                            \/ docker[r] # "absent" /\ docker'[r] # "absent"
<1> USE ConstantsAssumption DEF LaunchInv, TypeOK, SetState, Containers, Present
<1>1. ASSUME NEW o \in Others, OtherStarts(o) \/ OtherStops(o)
      PROVE  UNCHANGED call /\ \A r \in Runs : docker'[r] = docker[r]
  BY <1>1 DEF OtherStarts, OtherStops
<1>2. ASSUME NEW s \in Runs, Vanish(s) \/ Exit(s) \/ Restart(s)
      PROVE  /\ UNCHANGED call
             /\ \A r \in Runs : \/ docker'[r] = docker[r]
                                \/ docker[r] # "absent" /\ docker'[r] # "absent"
  BY <1>2 DEF Vanish, Exit, Restart
<1> QED
  BY <1>1, <1>2 DEF Host

-----------------------------------------------------------------------------
(* The invariant. *)

\* The parts of the invariant that concern one call.
CallInv(r) ==
  /\ Position(r) /\ Outcome(r)
  /\ operation[r].container \in {r, "none"}

LEMMA LaunchKeepsCall ==
  ASSUME LaunchInv, NEW r \in Runs, Launch(r)
  PROVE  CallInv(r)'
<1> USE DEF LaunchInv, CallInv, Position, Outcome, RecordedIsOwn, TypeOK, SetState,
            Containers, Goto, End, Abort, CreateOnly, CreateAndStart, Present
<1>1. CASE CheckPort(r)
  BY <1>1 DEF CheckPort
<1>2. CASE CheckName(r)
  BY <1>2 DEF CheckName
<1>3. CASE RunSucceeds(r)
  BY <1>3 DEF RunSucceeds
<1>4. CASE RunAmbiguous(r)
  BY <1>4 DEF RunAmbiguous
<1>5. CASE RunCutOff(r)
  BY <1>5 DEF RunCutOff
<1>6. CASE Reconcile(r)
  BY <1>6 DEF Reconcile
<1>7. CASE InspectImage(r)
  BY <1>7 DEF InspectImage
<1> QED
  BY <1>1, <1>2, <1>3, <1>4, <1>5, <1>6, <1>7 DEF Launch

LEMMA ManageKeepsCall ==
  ASSUME LaunchInv, NEW r \in Runs, Manage(r) \/ Crash(r)
  PROVE  CallInv(r)'
<1> USE DEF LaunchInv, CallInv, Position, Outcome, RecordedIsOwn, TypeOK, SetState,
            Containers, Goto, End, Recover, WriteOperation
<1>1. CASE RecordStarting(r)
  BY <1>1 DEF RecordStarting
<1>2. CASE Check(r)
  <2>1. AfterCheck[pc[r]] \in {"infer_base", "infer_fine", "publish"}
    BY <1>2 DEF Check, AfterCheck
  <2>2. pc[r] \in {"discover", "infer_base", "infer_fine"}
    BY <1>2 DEF Check, AfterCheck
  <2> QED
    BY <1>2, <2>1, <2>2 DEF Check
<1>3. CASE CheckFails(r)
  <2>1. pc[r] \in {"discover", "infer_base", "infer_fine"}
    BY <1>3 DEF CheckFails, AfterCheck
  <2> QED
    BY <1>3, <2>1 DEF CheckFails
<1>4. CASE Publish(r)
  BY <1>4 DEF Publish
<1>5. CASE RecordFailed(r)
  BY <1>5 DEF RecordFailed
<1>6. CASE InspectOwner(r)
  BY <1>6 DEF InspectOwner
<1>7. CASE Remove(r)
  BY <1>7 DEF Remove
<1>8. CASE Crash(r)
  BY <1>8 DEF Crash
<1> QED
  BY <1>1, <1>2, <1>3, <1>4, <1>5, <1>6, <1>7, <1>8 DEF Manage

LEMMA LaunchInvariant == Spec => []LaunchInv
<1>1. Init => LaunchInv
  BY DEF Init, LaunchInv, TypeOK, DockerStates, Containers, Position, Outcome, RecordedIsOwn
<1>2. LaunchInv /\ [Next]_vars => LaunchInv'
  <2> SUFFICES ASSUME LaunchInv, [Next]_vars, NEW s \in Runs
               PROVE  CallInv(s)'
    BY TypeStep DEF LaunchInv, CallInv, RecordedIsOwn
  <2>1. CASE UNCHANGED vars
    BY <2>1 DEF vars, call, LaunchInv, CallInv, Position, Outcome, RecordedIsOwn
  <2>2. CASE Host
    BY <2>2, HostFrame DEF call, LaunchInv, CallInv, Position, Outcome, RecordedIsOwn
  <2>3. ASSUME NEW r \in Runs, Step(r) \/ Crash(r) PROVE CallInv(s)'
    <3>1. CASE s = r
      BY <2>3, <3>1, LaunchKeepsCall, ManageKeepsCall DEF Step
    <3>2. CASE s # r
      <4>1. Frame(r)
        BY <2>3, LaunchFrame, ManageFrame DEF Step
      <4> QED
        BY <3>2, <4>1 DEF Frame, Containers, LaunchInv, CallInv, Position, Outcome,
           RecordedIsOwn
    <3> QED
      BY <3>1, <3>2
  <2> QED
    BY <2>1, <2>2, <2>3 DEF Next
<1> QED
  BY <1>1, <1>2, PTL DEF Spec

(* operation.json names the run's own container or none, although docker    *)
(* run may fail because the name belongs to another owner's container.      *)
THEOREM OperationNamesOwn == Spec => []RecordedIsOwn
BY LaunchInvariant, PTL DEF LaunchInv

(* No step of a call, ambiguous docker runs and owned removal included,     *)
(* changes the state of a container the call did not create.                *)
THEOREM OthersAreKept == Spec => OthersKeepTheirContainers
<1>1. LaunchInv /\ [Next]_vars =>
        [\A r \in Runs : call' # call /\ pc'[r] # pc[r] =>
           \A c \in Containers \ {r} : docker'[c] = docker[c]]_vars
  <2> SUFFICES ASSUME LaunchInv, Next, NEW r \in Runs, call' # call, pc'[r] # pc[r]
               PROVE  \A c \in Containers \ {r} : docker'[c] = docker[c]
    OBVIOUS
  <2>1. ~Host
    BY HostFrame
  <2>2. PICK s \in Runs : Step(s) \/ Crash(s)
    BY <2>1 DEF Next
  <2>3. Frame(s)
    BY <2>2, LaunchFrame, ManageFrame DEF Step
  <2>4. s = r
    BY <2>3 DEF Frame
  <2> QED
    BY <2>3, <2>4 DEF Frame
<1> QED
  BY <1>1, LaunchInvariant, PTL DEF Spec, OthersKeepTheirContainers

-----------------------------------------------------------------------------
(* Who answered. *)

\* The model names tell the containers apart, as "auto" names do.
AliasesAreDistinct == \A c, d \in Containers : AliasOf[c] = AliasOf[d] => c = d

AnswerInv ==
  \A r \in Runs :
    /\ answered[r] \subseteq {r}
    /\ pc[r] \in {"infer_base", "infer_fine", "publish"} \/ result[r] = "ready" =>
         r \in answered[r]

LEMMA AnswerStep ==
  ASSUME AliasesAreDistinct, LaunchInv, AnswerInv, [Next]_vars, NEW s \in Runs
  PROVE  /\ answered'[s] \subseteq {s}
         /\ pc'[s] \in {"infer_base", "infer_fine", "publish"} \/ result'[s] = "ready" =>
              s \in answered'[s]
<1>1. CASE UNCHANGED vars \/ Host
  <2>1. UNCHANGED call
    BY <1>1, HostFrame DEF vars
  <2> QED
    BY <2>1 DEF call, AnswerInv
<1>2. ASSUME NEW r \in Runs, Step(r) \/ Crash(r), s # r
      PROVE  answered'[s] = answered[s] /\ pc'[s] = pc[s] /\ result'[s] = result[s]
  BY <1>2, LaunchFrame, ManageFrame DEF Step, Frame
<1>3. ASSUME Launch(s)
      PROVE  /\ answered' = answered
             /\ pc'[s] \notin {"infer_base", "infer_fine", "publish"}
             /\ result'[s] # "ready"
  BY <1>3 DEF Launch, CheckPort, CheckName, RunSucceeds, RunAmbiguous, RunCutOff, Reconcile,
     InspectImage, Goto, End, Abort, LaunchInv, TypeOK, Outcome
<1>4. CASE Check(s)
  <2>1. PICK c \in Containers :
          Answers(c, s) /\ answered' = [answered EXCEPT ![s] = @ \cup {c}]
    BY <1>4 DEF Check
  <2>2. c = s
    BY <2>1 DEF Answers, AliasesAreDistinct, Containers
  <2> QED
    BY <2>1, <2>2 DEF AnswerInv, LaunchInv, TypeOK
<1>5. CASE Publish(s)
  BY <1>5 DEF Publish, Goto, End, Recover, AnswerInv, LaunchInv, TypeOK
<1>6. ASSUME RecordStarting(s) \/ CheckFails(s) \/ RecordFailed(s) \/ InspectOwner(s)
             \/ Remove(s) \/ Crash(s)
      PROVE  /\ answered' = answered
             /\ pc'[s] \notin {"infer_base", "infer_fine", "publish"}
             /\ result'[s] # "ready"
  BY <1>6 DEF RecordStarting, CheckFails, AfterCheck, RecordFailed, InspectOwner, Remove, Crash,
     Goto, End, Recover, LaunchInv, TypeOK, Outcome
<1> QED
  BY <1>1, <1>2, <1>3, <1>4, <1>5, <1>6 DEF AnswerInv, Next, Step, Manage

(* With model names that carry the run id, ready means that the run's own   *)
(* container answered discovery and both inferences, whoever else publishes *)
(* a server on the port.                                                    *)
THEOREM ReadyIsOwnAlways ==
  ASSUME AliasesAreDistinct
  PROVE  Spec => []ReadyIsOwn
<1>1. Init => AnswerInv
  BY DEF Init, AnswerInv
<1>2. LaunchInv /\ AnswerInv /\ [Next]_vars => AnswerInv'
  BY AnswerStep DEF AnswerInv
<1>3. AnswerInv => ReadyIsOwn
  BY DEF AnswerInv, ReadyIsOwn
<1> QED
  BY <1>1, <1>2, <1>3, LaunchInvariant, PTL DEF Spec

-----------------------------------------------------------------------------
(* The promise. *)

PromiseKept(r) == [Promise(r)!PromiseNext]_(Promise(r)!promise)

\* While docker run and its reconciliation go on, a container may appear.
LEMMA LaunchPromise ==
  ASSUME LaunchInv, NEW r \in Runs, Launch(r)
  PROVE  PromiseKept(r)
<1> USE DEF PromiseKept, Promise!PromiseNext, Promise!promise, PromisedOutcome,
            PromisedContainer, LaunchInv, TypeOK, Position, Outcome, SetState,
            Containers, Goto, End, Abort, CreateOnly, CreateAndStart, Present
<1>1. CASE CheckPort(r)
  BY <1>1 DEF CheckPort, Promise!RaiseFailed
<1>2. CASE CheckName(r)
  BY <1>2 DEF CheckName, Promise!RaiseFailed
<1>3. CASE RunSucceeds(r)
  BY <1>3 DEF RunSucceeds, Promise!Work
<1>4. CASE RunAmbiguous(r)
  BY <1>4 DEF RunAmbiguous, Promise!Work
<1>5. CASE RunCutOff(r)
  BY <1>5 DEF RunCutOff, Promise!RaiseFailed
<1>6. CASE Reconcile(r)
  BY <1>6 DEF Reconcile, Promise!RaiseFailed
<1>7. CASE InspectImage(r)
  BY <1>7 DEF InspectImage, Promise!RaiseFailed
<1> QED
  BY <1>1, <1>2, <1>3, <1>4, <1>5, <1>6, <1>7 DEF Launch

\* Later steps end the call, and only the last of them removes.
LEMMA ManagePromise ==
  ASSUME LaunchInv, NEW r \in Runs, Manage(r) \/ Crash(r)
  PROVE  PromiseKept(r)
<1> USE DEF PromiseKept, Promise!PromiseNext, Promise!promise, PromisedOutcome,
            PromisedContainer, LaunchInv, TypeOK, Position, Outcome, SetState,
            Containers, Goto, End, Recover, Present
<1>1. CASE RecordStarting(r)
  BY <1>1 DEF RecordStarting
<1>2. CASE Check(r)
  BY <1>2 DEF Check
<1>3. CASE CheckFails(r)
  BY <1>3 DEF CheckFails
<1>4. CASE Publish(r)
  BY <1>4 DEF Publish, Promise!ReturnReady, DockerStates
<1>5. CASE RecordFailed(r)
  BY <1>5 DEF RecordFailed, Promise!RaiseFailed
<1>6. CASE InspectOwner(r)
  BY <1>6 DEF InspectOwner, Promise!RaiseFailed
<1>7. CASE Remove(r)
  BY <1>7 DEF Remove, Promise!RaiseCleared, Promise!RaiseFailed, DockerStates
<1>8. CASE Crash(r)
  BY <1>8 DEF Crash
<1> QED
  BY <1>1, <1>2, <1>3, <1>4, <1>5, <1>6, <1>7, <1>8 DEF Manage

\* The rest of the host may only remove the container for good.
LEMMA HostPromise ==
  ASSUME LaunchInv, Host, NEW r \in Runs
  PROVE  PromiseKept(r)
<1>1. UNCHANGED PromisedOutcome(r)
  BY HostFrame DEF call, PromisedOutcome
<1>2. \/ PromisedContainer(r)' = PromisedContainer(r)
      \/ PromisedContainer(r) = "present" /\ PromisedContainer(r)' = "vanished"
  <2> USE ConstantsAssumption DEF LaunchInv, TypeOK, SetState, Containers, Present,
                                  PromisedContainer
  <2>1. ASSUME NEW o \in Others, OtherStarts(o) \/ OtherStops(o)
        PROVE  docker'[r] = docker[r]
    BY <2>1 DEF OtherStarts, OtherStops
  <2>2. ASSUME NEW s \in Runs, Vanish(s)
        PROVE  docker'[r] = docker[r] \/ (Present(r) /\ docker'[r] = "vanished")
    BY <2>2 DEF Vanish
  <2>3. ASSUME NEW s \in Runs, Exit(s) \/ Restart(s)
        PROVE  docker'[r] = docker[r] \/ (Present(r) /\ Present(r)')
    BY <2>3 DEF Exit, Restart
  <2> QED
    BY <2>1, <2>2, <2>3 DEF Host
<1> QED
  BY <1>1, <1>2 DEF PromiseKept, Promise!PromiseNext, Promise!promise, Promise!Vanish

(* ServingManager with VllmDockerBackend implements, for every call of any  *)
(* number that race, the promise the controller relies on: ready comes with *)
(* a container, cleared without one, and none appears once a call is over.  *)
THEOREM ImplementsPromise == Spec => KeepsPromise
<1>1. Init => \A r \in Runs : Promise(r)!PromiseInit
  BY DEF Init, Promise!PromiseInit, PromisedOutcome, PromisedContainer, Present, Containers
<1>2. LaunchInv /\ [Next]_vars =>
        [\A r \in Runs : [Promise(r)!PromiseNext]_(Promise(r)!promise)]_vars
  <2> SUFFICES ASSUME LaunchInv, Next, NEW s \in Runs PROVE PromiseKept(s)
    BY DEF PromiseKept
  <2>1. CASE Host
    BY <2>1, HostPromise
  <2>2. ASSUME NEW r \in Runs, Step(r) \/ Crash(r) PROVE PromiseKept(s)
    <3>1. CASE s = r
      BY <2>2, <3>1, LaunchPromise, ManagePromise DEF Step
    <3>2. CASE s # r
      <4>1. Frame(r)
        BY <2>2, LaunchFrame, ManageFrame DEF Step
      <4> QED
        BY <3>2, <4>1 DEF Frame, Containers, PromiseKept, Promise!promise,
           PromisedOutcome, PromisedContainer, Present
    <3> QED
      BY <3>1, <3>2
  <2> QED
    BY <2>1, <2>2 DEF Next
<1> QED
  BY <1>1, <1>2, LaunchInvariant, PTL DEF Spec, KeepsPromise

-----------------------------------------------------------------------------
(* How long a call can take: the handlers it may still enter.              *)

HandlersLeft(r) ==
  CASE pc[r] = "port" -> 13
    [] pc[r] = "name" -> 12
    [] pc[r] = "run" -> 11
    [] pc[r] = "reconcile" -> 10
    [] pc[r] = "image" -> 9
    [] pc[r] = "starting" -> 8
    [] pc[r] = "discover" -> 7
    [] pc[r] = "infer_base" -> 6
    [] pc[r] = "infer_fine" -> 5
    [] pc[r] = "publish" -> 4
    [] pc[r] = "recover" -> 3
    [] pc[r] = "inspect" -> 2
    [] pc[r] = "remove" -> 1
    [] pc[r] \in {"done", "crashed"} -> 0

LEMMA StepAdvances ==
  ASSUME TypeOK, NEW r \in Runs, Step(r)
  PROVE  HandlersLeft(r)' < HandlersLeft(r)
<1> USE DEF TypeOK, HandlersLeft, Goto, End, Abort, Recover
<1>1. CASE CheckPort(r)
  BY <1>1 DEF CheckPort
<1>2. CASE CheckName(r)
  BY <1>2 DEF CheckName
<1>3. CASE RunSucceeds(r)
  BY <1>3 DEF RunSucceeds
<1>4. CASE RunAmbiguous(r)
  BY <1>4 DEF RunAmbiguous
<1>5. CASE RunCutOff(r)
  BY <1>5 DEF RunCutOff
<1>6. CASE Reconcile(r)
  BY <1>6 DEF Reconcile
<1>7. CASE InspectImage(r)
  BY <1>7 DEF InspectImage
<1>8. CASE RecordStarting(r)
  BY <1>8 DEF RecordStarting
<1>9. CASE Check(r)
  BY <1>9 DEF Check, AfterCheck
<1>10. CASE CheckFails(r)
  BY <1>10 DEF CheckFails, AfterCheck
<1>11. CASE Publish(r)
  BY <1>11 DEF Publish
<1>12. CASE RecordFailed(r)
  BY <1>12 DEF RecordFailed
<1>13. CASE InspectOwner(r)
  BY <1>13 DEF InspectOwner
<1>14. CASE Remove(r)
  BY <1>14 DEF Remove
<1> QED
  BY <1>1, <1>2, <1>3, <1>4, <1>5, <1>6, <1>7, <1>8, <1>9, <1>10, <1>11, <1>12, <1>13, <1>14
     DEF Step, Launch, Manage

LEMMA StepIsAlone ==
  ASSUME NEW r \in Runs, Step(r) \/ Crash(r)
  PROVE  \E label : pc' = [pc EXCEPT ![r] = label]
<1> USE DEF Goto, End, Abort, Recover
<1>1. CASE Launch(r)
  BY <1>1 DEF Launch, CheckPort, CheckName, RunSucceeds, RunAmbiguous, RunCutOff,
     Reconcile, InspectImage
<1>2. CASE Manage(r)
  BY <1>2 DEF Manage, RecordStarting, Check, CheckFails, Publish, RecordFailed,
     InspectOwner, Remove
<1>3. CASE Crash(r)
  BY <1>3 DEF Crash
<1> QED
  BY <1>1, <1>2, <1>3 DEF Step

(* Whatever the host and the other calls do, a call of start_and_verify is    *)
(* over after thirteen of its own steps: each brings it nearer its end, and   *)
(* no other call, no container and no crash sends it back.                    *)
THEOREM CallIsBounded ==
  Spec => /\ [](\A r \in Runs : HandlersLeft(r) \in 0..13)
          /\ [][\A r \in Runs : IF Step(r) THEN HandlersLeft(r)' < HandlersLeft(r)
                                           ELSE HandlersLeft(r)' <= HandlersLeft(r)]_vars
<1>1. TypeOK => \A r \in Runs : HandlersLeft(r) \in 0..13
  BY DEF TypeOK, HandlersLeft
<1>2. ASSUME TypeOK, TypeOK', [Next]_vars, NEW r \in Runs
      PROVE  IF Step(r) THEN HandlersLeft(r)' < HandlersLeft(r)
                        ELSE HandlersLeft(r)' <= HandlersLeft(r)
  <2>1. CASE Step(r)
    BY <1>2, <2>1, StepAdvances
  <2>2. CASE ~Step(r)
    <3> SUFFICES HandlersLeft(r)' <= HandlersLeft(r)
      BY <2>2
    <3>1. HandlersLeft(r) \in 0..13
      BY <1>1, <1>2
    <3>2. ASSUME pc'[r] = pc[r] PROVE HandlersLeft(r)' <= HandlersLeft(r)
      <4>1. HandlersLeft(r)' = HandlersLeft(r)
        BY <1>2, <3>2 DEF HandlersLeft, TypeOK
      <4> QED
        BY <3>1, <4>1
    <3>3. CASE Host \/ UNCHANGED vars
      BY <3>2, <3>3 DEF Host, OtherStarts, OtherStops, Vanish, Exit, Restart, call, vars
    <3>4. CASE Crash(r)
      <4>1. pc'[r] = "crashed"
        BY <1>2, <3>4 DEF Crash, Goto, TypeOK
      <4>2. HandlersLeft(r)' = 0
        BY <4>1 DEF HandlersLeft
      <4> QED
        BY <3>1, <4>2
    <3>5. ASSUME NEW s \in Runs \ {r}, Step(s) \/ Crash(s)
          PROVE  HandlersLeft(r)' <= HandlersLeft(r)
      <4>1. pc'[r] = pc[r]
        BY <1>2, <3>5, StepIsAlone DEF TypeOK
      <4> QED
        BY <3>2, <4>1
    <3> QED
      BY <1>2, <2>2, <3>3, <3>4, <3>5 DEF Next
  <2> QED
    BY <2>1, <2>2
<1>3. TypeOK /\ TypeOK' /\ [Next]_vars =>
        \A r \in Runs : IF Step(r) THEN HandlersLeft(r)' < HandlersLeft(r)
                                   ELSE HandlersLeft(r)' <= HandlersLeft(r)
  BY <1>2
<1> QED
  BY <1>1, <1>3, TypeCorrect, PTL DEF Spec

=============================================================================
