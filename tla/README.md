# Formal model of the automatic LLM fine-tuning pipeline

TLA+ models of the parts of this repository in which order, failure and
concurrency decide whether the result is right: the deployment controller, the
launch of the serving container, the registration at the LiteLLM gateway, the
life of a run in its directory and the full cleanup; and of those in which the
data decide it: the admission of a GPU, the detection and conversion of a
dataset and the filter on the trainer's output.
Paths are relative to `src/fine_tuning_pipeline/` of the repository unless
they start with `scripts/` or `docs/`.

## The system

A deployment takes a YAML job to two model names answered by LiteLLM:

1. `scripts/run_pipeline.sh` builds the images, admits a GPU
   (`scripts/gpu_preflight.sh`) and starts the controller's container.
2. The controller (`orchestration/controller.py`) creates a training container,
   in which `orchestration/training_worker.py` runs `train_pipeline.py`, which
   trains by LLaMA-Factory (`trainer.py`, `console_output.py`), validates the
   artifacts and records the run in `runs/<id>/metadata.json` (`run_manager.py`).
3. The controller removes the training container and has `serving/manager.py`
   start vLLM by `docker run` and wait until it answers for both models.
4. It has `gateway/manager.py` register both at LiteLLM and verify them.
5. It writes `deployment_manifest.json`, or, after a failure, removes what
   belongs to the execution and writes a failure manifest.

### Inventory

| component | state it keeps | operations | what is hard | what makes it correct |
|---|---|---|---|---|
| gateway registration (`gateway/`) | LiteLLM's registrations, `gateway/registration.json`, `gateway_manifest.json` | preflight, create, reconcile, verify, publish, roll back | requests that act late, twice or never; listings that are not atomic with deletions; other clients; failing journal writes | nothing of the run is left behind unreported; nothing of others is touched; the journal covers every mutation |
| serving launch (`serving/`) | containers of the Docker host, `serving/operation.json`, `endpoint_manifest.json`, `health_check.json` | preflight, `docker run`, reconcile, readiness and inference checks, owned removal | ports and names taken after they were checked; commands cut off by their timeout; readiness asked of an address and not of a container | ready means this run's own container answered; only owned containers are removed |
| deployment controller (`orchestration/`) | training container, `ownership.json`, `training_result.json`, phases of `metadata.json`, `deployment_manifest.json` | one linear pass with an except block | the failure of any step, of the cleanup and of each record; a crash | trainer gone before vLLM starts; no route without a backend; manifests tell the truth |
| run lifecycle (`train_pipeline.py`, `run_manager.py`) | run directory, top-level status, phases | allocate, transition, fail | exclusive allocation, a failure after the success record | a final status is final; one directory per run |
| trainer output (`trainer.py`, `security.py`, `console_output.py`) | formatter's buffer and phase, `training.log` | redact, write, feed | chunk boundaries, which cut lines, markers and what is to be redacted | log is the output but for the masks, console is what the filter makes of the log, errors always on it |
| full cleanup (`scripts/full_cleanup.py`, `scripts/cleanup_phase1_run.py`) | containers, registrations, images, cache | discover, remove by kind | a live controller, a cleanup that stops half way | only owned resources removed; success means nothing left; repeating converges |
| GPU admission, estimates, port choice (`scripts/gpu_preflight.sh`, `resource_preflight.py`) | published environment | scan, compare, choose, publish | integer rounding, stale probes, another launch in between | what vLLM may use covers what the model needs; decisions arrive whole |
| dataset detection (`dataset_adapters/`) | registered adapters | map columns, score, select, validate, convert | ambiguity margin, a sample decides for the rest | one clear schema for all rows; no row lost or torn |
| CI job preparation (`scripts/prepare_ci_job.py`) | none | merge, validate | aliases and overrides | a prepared job is one the controller accepts |

The components meet through files (descriptor, metadata, manifests), through
Docker labels (`run-id`, `execution-id`) and through exceptions: whether the
controller removes the serving container depends on the class of the exception
the gateway raised.

## The modules

| module | models |
|---|---|
| `GatewayPromise` | what `register_and_verify` promises the controller by the way it ends |
| `GatewayRegistration` | one call of it, with `LiteLLMProvider`, against a LiteLLM with other clients |
| `MCGatewayRegistration` | the module TLC runs it from |
| `GatewayRegistrationProofs` | theorems about it |
| `ServingPromise` | what `start_and_verify` promises the controller |
| `ServingLaunch` | several calls of it, with `VllmDockerBackend`, racing on one Docker host |
| `MCServingLaunch` | names, ports and aliases for the runs |
| `ServingLaunchProofs` | theorems about it |
| `Deployment` | `PipelineController.deploy`, over the two promises |
| `DeploymentProofs` | theorems about it |
| `RunLifecycle` | `execute_training` with `RunManager`, several executions under one runs root |
| `MCRunLifecycle` | run ids and last phases for the run |
| `RunLifecycleProofs` | theorems about it |
| `FullCleanup` | `full_cleanup.py` beside the deployments it cleans up after |
| `MCFullCleanup` | executions, pipelines and command lines for the run |
| `FullCleanupProofs` | theorems about it |
| `Decimal` | non-negative numbers written with a decimal point, as the shell compares them |
| `Admission` | several launches choosing GPU, share of memory and port from resources others use too |
| `MCAdmission` | GPUs, sizes and shares for the run |
| `AdmissionProofs` | theorems about it |
| `DatasetDetection` | schemas, detection, validation, conversion as operators |
| `ConsoleOutput` | the filter as operators, and what it should show |
| `TrainingJob` | a dataset from its source to the trainer, and the trainer's output to the console |
| `MCTrainingJob` | datasets and outputs for the run |
| `RecursionLemmas` | induction on numbers, recursive functions and measures, for the proofs |
| `TrainingJobProofs` | theorems about `TrainingJob` |

`Deployment` takes the other two components as their promises (`INSTANCE ...
WITH`), and the runs `gateway_cleanup` and `serving_races` check that the
detailed modules keep these promises (`KeepsPromise`, a refinement), so what
holds of the composition does not depend on the abstraction.

### GatewayRegistration

`models` is LiteLLM's list of registrations, `issued` the ids it has used up.
A `POST /model/new` sets `pending[role]` and `copies[role]`: until `pending`
runs out or the copies are used up, `Apply` may add a registration at any time,
before or after the answer, after the client's timeout, or never (`Discard`).
`pending` counts reconciliation intervals and goes down when the provider
sleeps. Other clients register and withdraw registrations of the same alias.

`pc` follows the handler: `Preflight`, then per role `Recheck`, `Record` (the
journal write before the request), `Post`, its answers (`AnswerCreated`,
`AnswerRefused`, `AnswerLost`), `_reconcile_create` (`Reconcile*`), then
`Verify` and `Publish`. The except block is, per created role in reverse order,
`delete_owned` (`RollbackProof`, `RollbackDelete`, `RollbackCheck`, or
`NothingToDelete`), then `delete_owned_by_identity` (`Identity*`, `Confirm`) for
attempts without a usable id, and `Report` (final journal writes and the choice
of exception). A process may `Crash` between any two steps.

Each HTTP exchange whose place in the order matters is one step. A deletion is
three: the listing that proves the ownership of `target`, `POST /model/delete`,
which names only that id, and the listing that must not show it any more; a poll
by identity begins with a listing of its own (`IdentityList`), whose owned ids are
`found`, and takes them one after the other through the three. LiteLLM and its other clients act
between any two of them. Requests before the first mutation change nothing and
are one step (`Preflight`). HTTP bodies, header redaction and file layout are
left out.

### ServingLaunch

`docker[c]` is the state of every container: one for each call, as a call
issues one `docker run`, and those of others. `CheckPort` and `CheckName` are
the preflight; `RunSucceeds`, `RunAmbiguous`, `RunCutOff` the three ways the
command ends, each with what it may have done on the host; `Reconcile` finds
the container by its labels; `InspectImage` is the extra command for the record;
`RecordStarting`, `Check` (discovery and two inferences), `Publish` follow; the
except clause is `RecordFailed`, `InspectOwner`, `Remove`. Containers exit, are
restarted by their restart policy, and are removed by hand.

### Deployment

Steps of `deploy` in order, each with its failures; `pc` is the line reached and
also tells `current_phase` in the except block. `WorkerReports` and
`TrainerExits` run beside the controller. `writeFault` remembers that a write to
the run directory failed; it is a history variable that only properties read.
The module fixes `cleanup_on_failure` to its default. Serving containers removed
by hand (`ServingPromise!Vanish`) are outside it, as no step of the controller
can do anything about them.

### RunLifecycle

`memory[e]` is `RunManager._metadata`, `disk[n]` the `metadata.json` of run id
`n`: every record changes memory and then replaces the whole file (`Save`), and
when the write raises the file is still the old one while memory is not.
`Allocate` is the exclusive `mkdir` loop; `pc` follows `_prepare_run` and
`execute_training` line by line, with the write outside any handler (`Create`,
`Own`, `Begin`) told from those whose failure the except clause handles
(`RecordFailure`, `MarkFailed`). `phase` is `current_phase`. `Prepare` is one
step: its records add detail to the document and no status before the last.
`Serve` and `Register` stand for the managers of the other modules. `fault`, a
history variable, remembers that a write failed.

This is the in-process path (`train_pipeline.py` run by itself). In the
orchestrated path the same function runs in the training container without optional phases, which is
the instance `LastPhase[e] = "training"`.

### FullCleanup

Each deployment is reduced to what it makes and removes: `progress[e]` is how far
its processes have come, and `files`, `containers`, `running`, `routes`,
`shared` what exists. Launcher, controller, trainer and server of an execution
go on, end or are killed at any point beside the cleanup. Helper containers of a
launch are merged with the controller's, which they share labels with.

`pc` follows the script: `discover`, `list` and `delete` (LiteLLM), `match` and
`remove` (containers, by label), then the loops over run directories, execution
directories, claims and temporary files, images, the cache and the final
`Recheck`. Any command may fail (`Faulty`, at most `MaxFaults` times): most
failures end the attempt (`Stop`); a container whose inspection fails is passed
over (`PassOver`) and a claim that cannot be unlinked is kept (`KeepClaim`), as
in the code. After a failure the same command line may be tried again (`Start`).
`first`, `quiet` and `blind` are history variables.

### Admission

`Decimal` has the shell's numbers as sequences of digits: comparison digit by
digit after padding, and the ceiling to basis points, as `gpu_preflight.sh` does
them without floating point. `Admission` takes each launch through the estimate
(`resource_preflight.py`), the scan of the GPUs, the choice, the port and the
publication of the environment file. Free memory and ports change between any
two steps, by other launches and by processes that are none of them.

### DatasetDetection, ConsoleOutput, TrainingJob

Values are reduced to what the adapters tell apart: a good string (or list), a
blank one, and anything else; a conversation to the roles of its turns. An example
names the columns or turns its parts come from, so that a lost, torn or swapped part
shows. Output is a sequence of tokens: the two line ends, two
halves for each text, so that a chunk may end within a line and between `\r` and
`\n`, and keys such as `token=`. `TrainingJob` has an action for each step of `_prepare_training_run` that
may reject the dataset, then reads the trainer's output in chunks of any size.

`ReadChunk` redacts each chunk on its own (`Redact`, `redact_text` in
`security.py`), then appends it to the log and feeds it to the filter, as
`trainer.py:53-67` does. `Hides` says which tokens it takes to hide one: both
halves of a configured secret; or a key and what follows up to the next space, also
over the ends of lines, as the pattern's `\s*` has it. A mask takes the place of
each token hidden, so positions stay. Where a read ends in the middle of such
tokens, redaction does not see all of them: `torn`, a history variable, has these
places, and `LogIsWhole` says that the log is the output token by token, masked where
nothing was torn and nowhere else. The console is then compared with the log:
`UrgentStops` and `Lists` say by positions in the log what it should show,
without the filter's state.

## The runs

| run | checks | shows |
|---|---|---|
| `gateway_cleanup` | `TypeOK`, `RecordedBeforeSent`, `ReleasedMeansUnregistered`, `ReadyIsComplete`, `OthersKeepTheirModels`, `KeepsPromise`, `Terminates` | the controller's call, cleanup on |
| `gateway_preserve` | `AbsentStaysAbsent`, `FailureStatusMatchesRoutes` | the in-process call, which keeps registrations; requests LiteLLM may act on twice; what `registration.json` then says of each role, its open outcomes included |
| `gateway_stranded` | `FailureNeverStrandsRoutes`: **violated** | see findings |
| `serving_races` | `TypeOK`, `RecordedIsOwn`, `ReadyIsOwn`, `OthersKeepTheirContainers`, `KeepsPromise`, `EveryCallEnds` | two calls and somebody else's container compete for one port and one name |
| `serving_stolen` | `PortConflictFails`: **violated** | see findings |
| `serving_unrecorded` | `LaunchIsRecorded`: **violated** | see findings |
| `deployment_full` | `TypeOK`, `TrainerGoneBeforeServing`, `StartedIsOwned`, `RoutesHaveBackend`, `SuccessIsComplete`, `FailureManifestIsTrue`, `Ends` | the whole deployment with every failure |
| `deployment_dangling` | `VerifiedRoutesStayServed`: **violated** | see findings |
| `lifecycle` | `TypeOK`, `SuccessIsEarned`, `ReturnedIsSuccess`, `HandledFailureIsRecorded`, `RunsAreNeverOverwritten`, `FinalStatusStays` | a full execution and one that only trains start in the same second, beside older runs |
| `full_cleanup` | `TypeOK`, `AnchorFirst`, `SuccessIsComplete`, `CleanupIsOwned`, `RepetitionConverges` | a cleanup, repeated after failures, beside a live deployment of the same pipeline and finished ones |
| `admission` | `TypeOK`, `ReservationCoversServing`, `AdmissionIsWhole`, `SelectionIsBest` | two launches choose between two GPUs and two ports that others use too |
| `training_job` | `TypeOK`, `DatasetIsUnderstood`, `OutputIsWhole` | datasets of one to three rows; outputs of three lines, or two with something to redact, cut in every way |

Deadlock is not checked: each system stops when its calls are over.

### Findings

- **A failing journal write hides a failed cleanup** (`gateway_stranded`). The
  except block of `register_and_verify` writes `registration.json` before it
  raises `GatewayCleanupError`. If that write fails, the caller sees an ordinary
  error and removes the container although registrations remain. The promise
  has an outcome of its own for it (`faulted`), and `RoutesHaveBackend` excludes
  it by `~writeFault`.
- **A port conflict found by `docker run` counts as launched**
  (`serving_stolen`). The created, never started container is adopted by its
  labels, and with model names fixed in the configuration another run's server
  on that port answers its checks. With `auto` names `ReadyIsOwn` holds.
- **A launch may go unrecorded** (`serving_unrecorded`): `launch()` still runs
  `docker image inspect` after `docker run` succeeded.
- **A failed phase record undoes a successful registration**
  (`deployment_dangling`): the container is removed, the registrations stay.

### Divergences without a run

Where a document says something else than the code, which the models follow:

- `docs/supported_datasets.md:79` speaks of renaming columns; the code copies and
  keeps the source column, so that mapping
  question/answer to instruction/output leaves two schemas and detection
  rejects the dataset as ambiguous. The `training_job` run has such datasets.
- `docs/observability.md:25-30` has errors and tracebacks on the console with every
  verbosity. With `\r\n` line ends the empty record between the two characters
  ends a traceback (`console_output.py:106-109`), and its body is not shown when
  verbosity is `quiet` or `concise`. `IsBlank` and `Shuts` say what a blank
  line is meant to be; `UrgentIsShown` therefore claims the whole of a traceback
  only for a log without `\r\n`, and otherwise its first line and the errors.

### Observations

Met while modelling, part of the models, and not contradicted by any document:

- Redaction sees one chunk at a time. What a read of 4096 bytes cuts in two is masked
  in part or not at all; and after a key at the end of a line the first word of the
  next line is masked, before the filter sees it: a traceback that begins there is
  not recognised as one.
- A failure manifest may call the serving container ready although it is gone: a
  removal whose command fails after it has acted counts as failed
  (`controller.py:608-610`, `723-727`). No route is left to it
  (`FailureManifestIsTrue`).

- `--run-id` alone finds the serving container by its label and not the run's
  training container, which is labelled with the execution only. The report
  "serving/training containers remaining for run: 0" (`full_cleanup.py:477`) is
  thus about serving only; `SuccessIsComplete` claims no more for a run.
- `executions/<id>/claim.json` is read (`full_cleanup.py`) and never written.
- A `--pipeline-id` cleanup that failed half way may have removed claim and
  ownership, so that a repetition no longer finds what is left. `RepetitionConverges`
  holds for command lines with run and execution; `SuccessIsComplete` says
  what an uninterrupted attempt by pipeline reaches (`first`).
- A container that cannot be inspected is passed over, also by the last check.
- `PIPELINE_ID` defaults to `local`, which all local launches share.
- The glob `automatic-llm-*<id>*` for temporary files matches parts of
  other ids; ids in the model are distinct and no part of one another.
- Admission holds at the time of the scan only, as `docs/gpu_preflight.md` says:
  nothing is reserved, and two launches may be given the same GPU. A configured
  minimum share may exceed the free memory found.

### Bounds

- Gateway: three or four ids, of which one is hidden (LiteLLM answers without an
  id). Two roles need two, the third is left for another client, a duplicate or
  a late effect; each property concerns one role and at most two registrations
  of it. `PollAttempts = 3`, `MaxDelay = 2` is the smallest instance in which a
  request may act in each interval of the loop and the loop outlasts it.
- Serving: two calls and one other container on one port, the other container
  also with the name of the first call. A check or removal involves the call's
  container and at most one competitor at a time.
- Deployment: the program has one execution; nothing is bounded.
- Lifecycle: two executions that try the same three ids, any of which may be
  taken already. Executions meet only in the allocation loop, two at a time; three
  ids let one of them collide with an old run and with the other execution.
- Cleanup: three executions, one live and one complete of the same pipeline and one
  complete of another; command lines by run, by run and execution, by pipeline.
  A cleanup has the targets' executions and the others as its parties, and each
  target is treated alike. `MaxFaults = 1`: any one step fails and the cleanup is
  repeated; the proofs have any number.
- Admission: two launches, two GPUs, two ports; sizes small enough that sums
  and shares round up, down and not at all, for both device modes. Digits
  of one and two places meet every case of the comparison.
- Training job: `SampleSize = 2` where the code has 25, with up to three rows, so
  that a row outside the sample exists; every schema, several that match at once,
  and every adapter's kind of invalid row. Outputs of three lines, as the filter
  remembers a traceback, a phase and one bar across lines; and of two lines with a
  secret, a key and its value, or a key before the end of the line, as what is hidden
  lies within two lines. Reads of up to three tokens: what is to be hidden comes
  whole, and cut at each place.

### Fairness

`WF(Manager)`, `WF(Step(r))`, `WF(Controller)`: every step of these sequential
programs is a request or command with a timeout, a bounded sleep or a local
write. The actions are the whole program and not each handler, so that no
particular outcome is assumed to occur. `WF(TrainerExits)`: training is assumed
to end; `docker wait` has no timeout. `WF(Cleaner)` is the same for the cleanup,
and includes that its operator repeats an attempt that failed: `RepetitionConverges`
says what this is worth, not that it happens. No fairness is assumed of
LiteLLM, Docker, deployments beside the cleanup or other users. `Admission` and
`TrainingJob` have no liveness property and no fairness.

## The proofs

The seven `...Proofs` modules are checked by TLAPS for all values of the
constants; type correctness is proved in each.

Gateway. `CoreInv` (types; a role not attempted is clean; the journal covers the
attempts; the loop's position) is inductive with no assumption about LiteLLM and
gives `RecordedBeforeSent`. `SafeInv` adds what makes cleanup right: there is at
most one registration per request, the record names exactly it, verified roles
are clean, and the loops cannot end before a request is dead. It needs
`GraceSuffices` (a request acts once, within the grace period the loop waits,
under the cleanup policy): without it a request may act after the last poll.
From it follow `ReleasedIsUnregistered`, `ReadyIsCompleteAlways` and
`ImplementsPromise`. `AbsentIsAbsentForGood` needs `RefusalSettles` instead (an
error answer means no effect, and late effects come within the grace period)
and allows any number of copies. `StatusInv` (nothing registered is removed, the
second role comes after the first, what the journal says of an attempt is so, a
final status is the last thing written) gives `FailureStatusMatchesRoutes` under the
same condition. `OthersAreKept` needs no assumption. Its invariant, `DeletesOwn`, says that
an id names at most one registration and that the ids about to be deleted, of all
steps between a proof and a deletion, are ids LiteLLM has given out and are not
those of others: what another client registers in between has another id.

Serving. `LaunchInv` says, for any number of racing calls, which outcomes and
container states each position of a call allows, and that the handle a call
holds is its own container or none. `Frame` lemmas show what a step of one call
leaves alone, so that the invariant of each call is kept by the others' steps.
`RecordedIsOwn`, `OthersKeepTheirContainers` and the refinement of
`ServingPromise` follow with no assumption; `ReadyIsOwn` needs
`AliasesAreDistinct`, which the finding on fixed names shows to be necessary.

Deployment. `DeployInv` relates the line reached to the trainer, to the two
outcomes, to the phases and to the manifest (`TrainerPosition`,
`ServingPosition`, `GatewayPosition`, `PhasePosition`, `ManifestPosition`). It
needs no assumption: the components enter through their promises only.
`RoutesHaveBackend` rests on `GatewayPosition`, whose heart is that an ordinary
failure of the gateway phase without a failed write leaves no route.

Run lifecycle. `RunInv` holds for each execution the facts of its position
(`PhasePosition`, `MemoryPosition`), soundness of what memory and file say of
success and failure (`Sound`, `DiskPosition`), and ties directories to their
makers (`Placed`, `Attributed`). `StepFrame` shows that a step reaches no other
execution's directory, `LocalStep` that it keeps its own execution's facts.

Full cleanup. `Inv` adds two facts to the types. `TargetsAreAddressed`: what was
found, and what a loop has still to do, belongs to executions of the command line
(labels are unique, so a container that matches is one of them). `Anchored`: an
execution has its claim or has been addressed by the cleanup or has nothing.
From them follow `AnchorFirst` and `CleanupIsOwned`, for any number of executions,
command lines and faults, and whatever the deployments do meanwhile.
`SuccessIsComplete` needs `CompleteInv`: the targets' processes stay gone
(`TargetsAreStill`) and so make nothing any more; before the first attempt looks,
whoever has begun has its claim and whoever has a registration has a run marked
as its own (`Untouched`); so that attempt finds everybody who has left anything
(`Found`); and what each loop was given is gone when it ends and stays so (`Gone`).

Admission. The share is the requirement divided by the card's total,
rounded up to basis points; `ReservationCoversServing` is arithmetic
on that ceiling, kept in lemmas about opaque integers, and `AdmissionIsWhole` an
invariant on the order in which the decisions are made and published.
`SelectionIsBest` has two parts. Decimals: digits stand for their number, leading
zeros may be dropped, and of two normal strings the longer, or else the
lexically greater, is the greater number (`StringsCompareNumbers`). The
scan: an invariant of the shell's loop (`Best` of the lines read so far, `Named` what
its variables name) gives what the loop ends with (`LoopEnds`), and `ShareExceeds`
what a share of a card may come to. All hold for
any launches, GPUs and sizes, and for any interference between steps.

Training job. `DatasetInv` follows the dataset through mapping, detection,
validation and conversion. That a schema chosen on a sample is the clear one on
all rows rests on the scores (`ClearOnAllRows`): only the confidence of `qa_json`
depends on the rows, and it is the lowest, so what later rows change cannot bring
another schema within the margin. For conversations `AlternatingTurns` and
`EachAnswerIsAnExample` follow the two loops over the turns by induction.
`ConsoleInv` says that the log is the output but for the masks (`IsLog`), and that
the filter, fed chunk by chunk, is where it would be had it been fed the log in one
piece; `OneMoreLogged` and `FeedAllInTwo` are the step from one chunk to the next.
The former rests on `HidesFurther` (redaction does not depend on where in the output
a chunk lies) and on the fact that whatever a chunk's end tears is in `torn`. `WholeUrgent` compares the
log with the positions of its lines: at each position the buffer is the line so far,
the filter is in a traceback where the code's rule says so (`CodeInTraceback`), and what
it has shown is what `Lists` lists up to there; `CodeAgrees` compares that rule with
the intended one, `InTraceback`. All hold for any dataset, mapping, sample size and margin, and
for any output and chunks. The library's induction theorems take operators as
parameters, which the provers cannot instantiate: `RecursionLemmas` derives
from well-foundedness an induction on sets of numbers (`InductionUpTo`) and the
existence of recursive functions given by their step (`RecursionIsDefined`).

Termination. Fairness speaks of ENABLED, which the provers do not treat, so
`Terminates`, `EveryCallEnds`, `Ends` and `RepetitionConverges` are model-checked only.
What they rest on beside fairness is proved, for every value of the constants: a
measure in the natural numbers that each step of the program decreases and that nobody
else raises. It is the number of lines ahead for the deployment
(`DeploymentIsBounded`) and of handlers for a launch (`CallIsBounded`), the
stage, the polls and the requests of a poll left for the gateway (`CallIsBounded`, for
a finite set of ids), the stage and the items left in its loop for an attempt of the cleanup (`AttemptIsBounded`, for finitely many
executions). `Lexicographic` is the arithmetic of the last two. That some step can be
taken until the end is left to TLC; for the polling loops, that a poll is left
is part of the theorem. `RepetitionEndsClean` is the state `RepetitionConverges` leads to,
at whichever attempt succeeds.

## Not modelled, and the plan

| planned | of | why not yet |
|---|---|---|
| `PrepareJob` | `prepare_ci_job.py`: accepted jobs are deployable | a merge of YAML documents: little order, much data |
| phase-1 cleanup | `cleanup_phase1_run.py` | a subset of the full cleanup, of one run |
| artifact validation | `artifact_validator.py` | checks of files by name and size, without state |

Of the modelled components these parts are left out: the estimate's reading of model
configurations (its result is an input of `Admission`), launches
without the resource preflight (`GPU_MIN_FREE_MIB`), the adapters that fetch
sources, the redaction of anything but the trainer's output, and the
snapshot of the source, which is copied and then read again
(`train_pipeline.py:226-238`): the models take it as one reading.

Configuration parsing, reports, HTTP transport and file checks are
pure functions or I/O without protocol state and stay outside the models.
Deployments with `cleanup_on_failure: false` take no rollback step and are
not modelled at the level of the controller.
