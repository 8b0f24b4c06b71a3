------------------------ MODULE GatewayRegistration ------------------------
(***************************************************************************)
(* One call of GatewayManager.register_and_verify (gateway/manager.py)     *)
(* with its LiteLLMProvider (gateway/providers/litellm.py), against a      *)
(* LiteLLM server that other clients use at the same time.                 *)
(*                                                                         *)
(* Every HTTP exchange whose place in the order matters is a step of its   *)
(* own, so that LiteLLM and its other clients may act between any two of   *)
(* them; local file writes are separate steps where they guard a request.  *)
(* A POST /model/new may take effect before its answer, after the client   *)
(* gave up on the answer, or never.  Time is counted in reconciliation     *)
(* intervals (2 s in the code), which pass only when the provider sleeps.  *)
(***************************************************************************)
EXTENDS Naturals

CONSTANTS
  Ids,              \* registration ids LiteLLM can hand out
  HiddenIds,        \* ids LiteLLM keeps but shows in no answer or listing
  NoId,             \* a record without a registration id (None in the code)
  PollAttempts,     \* _poll_attempts(): grace // interval + 1
  MaxDelay,         \* intervals after which LiteLLM ignores a request
  MaxCopies,        \* how often LiteLLM may act on one request
  RefusalIsFinal,   \* an HTTP error answer means the request has no effect
  CleanupOnFailure  \* cleanup_on_failure: TRUE from the controller

ASSUME ConstantsAssumption ==
  /\ HiddenIds \subseteq Ids
  /\ NoId \notin Ids
  /\ "none" \notin Ids \cup {NoId}
  /\ PollAttempts \in Nat \ {0}
  /\ MaxDelay \in Nat \ {0}
  /\ MaxCopies \in Nat \ {0}
  /\ RefusalIsFinal \in BOOLEAN
  /\ CleanupOnFailure \in BOOLEAN

VARIABLES
  (* LiteLLM *)
  models,       \* the registrations of /model/info
  issued,       \* ids handed out so far; LiteLLM never reuses one
  pending,      \* intervals during which a creation request may still act
  copies,       \* how often it may still act
  (* the manager's memory *)
  pc,           \* where register_and_verify stands
  role,         \* the role its loop is at
  polls,        \* polls left in the running reconciliation or cleanup loop
  attempt,      \* attempts: outcome per role, "none" before it is appended
  created,      \* created: registration id per role, or "none"
  verified,     \* verified_identities
  unverified,   \* keys of cleanup_failures
  found,        \* ids an identity poll listed and has not come to yet
  target,       \* id whose deletion delete_owned_by_identity has asked for
  (* the run directory *)
  journal,      \* gateway/registration.json
  manifest,     \* gateway/gateway_manifest.json exists
  (* how the call ended *)
  result,
  journalFault  \* the except block itself died while writing the journal

litellm == <<models, issued, pending, copies>>
deletion == <<found, target>>
memory == <<attempt, created, verified, unverified, deletion>>
disk == <<journal, manifest>>
ending == <<result, journalFault>>
control == <<pc, role, polls>>
manager == <<control, memory, disk, ending>>
vars == <<litellm, manager>>

Roles == {"base", "fine_tuned"}

AttemptOutcomes == {
  "attempting", "created", "created_after_ambiguous_response",
  "absent", "conflict", "indeterminate" }

Owners == {"run", "other"}
Model == [id : Ids, role : Roles, owner : Owners]

JournalStatuses == {
  "missing", "mutation_in_progress", "partial", "ready",
  "indeterminate_failed", "registration_failed", "partial_failed",
  "verification_failed" }

-----------------------------------------------------------------------------
(* What a listing shows of one alias.  Aliases and roles correspond one to *)
(* one: resolve_gateway_config rejects equal aliases.                      *)

Listed(r) == {m \in models : m.role = r}

\* _alias_ownership_matches: run id and role label decide whose it is.
Owned(r) == {m \in Listed(r) : m.owner = "run"}
Foreign(r) == Listed(r) \ Owned(r)

Shown(m) == m.id \notin HiddenIds

\* A request for r that LiteLLM may still act on.
InFlight(r) == pending[r] > 0 /\ copies[r] > 0

Attempted == {r \in Roles : attempt[r] # "none"}
CreatedRoles == {r \in Roles : created[r] # "none"}

-----------------------------------------------------------------------------
Init ==
  /\ models = {}
  /\ issued = {}
  /\ pending = [r \in Roles |-> 0]
  /\ copies = [r \in Roles |-> 0]
  /\ pc = "preflight"
  /\ role = "base"
  /\ polls = 0
  /\ attempt = [r \in Roles |-> "none"]
  /\ created = [r \in Roles |-> "none"]
  /\ verified = {}
  /\ unverified = {}
  /\ found = {}
  /\ target = NoId
  /\ journal = [status |-> "missing", attempt |-> [r \in Roles |-> "none"]]
  /\ manifest = FALSE
  /\ result = "none"
  /\ journalFault = FALSE

-----------------------------------------------------------------------------
(* LiteLLM and its other clients. *)

AddModel(r, owner) ==
  \E id \in Ids \ issued :
    /\ models' = models \cup {[id |-> id, role |-> r, owner |-> owner]}
    /\ issued' = issued \cup {id}

\* LiteLLM acts on a creation request of this run.
Apply(r) ==
  /\ InFlight(r)
  /\ AddModel(r, "run")
  /\ copies' = [copies EXCEPT ![r] = @ - 1]
  /\ UNCHANGED <<pending, manager>>

\* A request is lost on the way, or LiteLLM drops it.
Discard(r) ==
  /\ InFlight(r)
  /\ pending' = [pending EXCEPT ![r] = 0]
  /\ UNCHANGED <<models, issued, copies, manager>>

\* Another client registers the alias, or withdraws its own registration.
OtherRegisters(r) ==
  /\ AddModel(r, "other")
  /\ UNCHANGED <<pending, copies, manager>>

OtherWithdraws(r) ==
  /\ \E m \in Foreign(r) : models' = models \ {m}
  /\ UNCHANGED <<issued, pending, copies, manager>>

Environment ==
  \E r \in Roles :
    Apply(r) \/ Discard(r) \/ OtherRegisters(r) \/ OtherWithdraws(r)

-----------------------------------------------------------------------------
(* Steps several handlers share. *)

\* Control reaches the except clause of register_and_verify.
Raise ==
  /\ pc' = IF CleanupOnFailure THEN "rollback" ELSE "report"
  /\ role' = "fine_tuned"
  /\ UNCHANGED polls

\* write_json(registration.json): the records in memory, as they will be
\* after this step, replace the file.
WriteJournal(status) ==
  journal' = [status |-> status, attempt |-> attempt']

\* One reconciliation interval passes.
Sleep == pending' = [r \in Roles |-> IF pending[r] = 0 THEN 0 ELSE pending[r] - 1]

-----------------------------------------------------------------------------
(* The try block. *)

\* provider.preflight, management_aliases and aliases.  The first disjunct
\* is a failed request or an alias that one of the two listings shows.
Preflight ==
  /\ pc = "preflight"
  /\ \/ Raise
     \/ /\ \A r \in Roles : Listed(r) = {}
        /\ pc' = "recheck"
        /\ UNCHANGED <<role, polls>>
  /\ UNCHANGED <<litellm, memory, disk, ending>>

\* The second look at management_aliases, then attempts.append.
Recheck ==
  /\ pc = "recheck"
  /\ \/ Raise /\ UNCHANGED attempt
     \/ /\ Listed(role) = {}
        /\ attempt' = [attempt EXCEPT ![role] = "attempting"]
        /\ pc' = "record"
        /\ UNCHANGED <<role, polls>>
  /\ UNCHANGED <<litellm, created, verified, unverified, deletion, disk, ending>>

\* Mutant: a failed write does not stop the request.
RecordSendAnyway ==
  /\ pc = "record"
  /\ UNCHANGED attempt
  /\ WriteJournal("mutation_in_progress") \/ UNCHANGED journal
  /\ pc' = "post"
  /\ UNCHANGED <<litellm, role, polls, created, verified, unverified, deletion, manifest, ending>>

\* The attempt is on disk before the request is sent, or it is not sent.
Record ==
  /\ pc = "record"
  /\ UNCHANGED attempt
  /\ \/ /\ WriteJournal("mutation_in_progress")
        /\ pc' = "post"
        /\ UNCHANGED <<role, polls>>
     \/ Raise /\ UNCHANGED journal
  /\ UNCHANGED <<litellm, created, verified, unverified, deletion, manifest, ending>>

\* POST /model/new leaves.
Post ==
  /\ pc = "post"
  /\ pending' = [pending EXCEPT ![role] = MaxDelay]
  /\ copies' = [copies EXCEPT ![role] = MaxCopies]
  /\ pc' = "await"
  /\ UNCHANGED <<models, issued, role, polls, memory, disk, ending>>

\* created.append and the "partial" journal, then the next role or the
\* verification; a failed write leaves the old journal and raises.
Accept(id, outcome) ==
  /\ created' = [created EXCEPT ![role] = id]
  /\ attempt' = [attempt EXCEPT ![role] = outcome]
  /\ \/ /\ WriteJournal("partial")
        /\ pc' = IF role = "base" THEN "recheck" ELSE "verify"
        /\ role' = "fine_tuned"
        /\ UNCHANGED polls
     \/ Raise /\ UNCHANGED journal
  /\ UNCHANGED <<verified, unverified, deletion, manifest, ending>>

\* The id an answer or a listing gives for a registration.
IdOf(m) == IF Shown(m) THEN m.id ELSE NoId

\* HTTP 200 or 201: LiteLLM has acted, and the answer may omit the id.
AnswerCreated ==
  /\ pc = "await"
  /\ \E m \in Owned(role) : \E id \in {IdOf(m), NoId} : Accept(id, "created")
  /\ pending' = [pending EXCEPT ![role] = 0]
  /\ UNCHANGED <<models, issued, copies>>

\* Any other HTTP status: _reconcile_registration takes one look.
AnswerRefused ==
  /\ pc = "await"
  /\ pending' = IF RefusalIsFinal THEN [pending EXCEPT ![role] = 0] ELSE pending
  /\ polls' = 1
  /\ pc' = "reconcile"
  /\ UNCHANGED <<models, issued, copies, role, memory, disk, ending>>

\* Mutant: a lost answer gets a single look, like a refusal.
AnswerLostLooksOnce ==
  /\ pc = "await"
  /\ polls' = 1
  /\ pc' = "reconcile"
  /\ UNCHANGED <<litellm, role, memory, disk, ending>>

\* No answer: _reconcile_registration looks for the whole grace period.
AnswerLost ==
  /\ pc = "await"
  /\ polls' = PollAttempts
  /\ pc' = "reconcile"
  /\ UNCHANGED <<litellm, role, memory, disk, ending>>

\* GatewayRegistrationOutcomeError.
Settle(outcome) ==
  /\ attempt' = [attempt EXCEPT ![role] = outcome]
  /\ Raise
  /\ UNCHANGED <<created, verified, unverified, deletion, disk, ending>>

\* Mutant: a foreign registration is taken to mean that ours did not happen.
ReconcileConflictIsAbsence ==
  /\ pc = "reconcile"
  /\ Foreign(role) # {}
  /\ Settle("absent")
  /\ UNCHANGED litellm

\* A look that shows a foreign registration, or several owned ones, ends
\* the reconciliation; so does exactly one owned registration.
ReconcileConflict ==
  /\ pc = "reconcile"
  /\ Foreign(role) # {}
  /\ Settle("conflict")
  /\ UNCHANGED litellm

ReconcileDuplicate ==
  /\ pc = "reconcile"
  /\ Foreign(role) = {}
  /\ \E m1, m2 \in Owned(role) : m1 # m2
  /\ Settle("indeterminate")
  /\ UNCHANGED litellm

\* Mutant: the alias alone decides, whoever registered it.
ReconcileFoundAnyOwner ==
  /\ pc = "reconcile"
  /\ \E m \in Listed(role) :
       Accept(IdOf(m), "created_after_ambiguous_response")
  /\ UNCHANGED litellm

ReconcileFound ==
  /\ pc = "reconcile"
  /\ Foreign(role) = {}
  /\ \E m \in Owned(role) :
       /\ Owned(role) = {m}
       /\ Accept(IdOf(m), "created_after_ambiguous_response")
  /\ UNCHANGED litellm

\* Mutant: the last poll does not end the loop.
ReconcileAgainUnbounded(seen) ==
  \/ /\ polls' = polls - 1
     /\ Sleep
     /\ UNCHANGED <<models, issued, copies, pc, role, memory, disk, ending>>
  \/ /\ polls = 1
     /\ Settle(IF seen THEN "absent" ELSE "indeterminate")
     /\ UNCHANGED litellm

\* A look that shows nothing, or a management API that does not answer: the
\* loop sleeps and looks again, and the last look decides the outcome.
ReconcileAgain(seen) ==
  \/ /\ polls > 1
     /\ polls' = polls - 1
     /\ Sleep
     /\ UNCHANGED <<models, issued, copies, pc, role, memory, disk, ending>>
  \/ /\ polls = 1
     /\ Settle(IF seen THEN "absent" ELSE "indeterminate")
     /\ UNCHANGED litellm

ReconcileNothing ==
  /\ pc = "reconcile"
  /\ Listed(role) = {}
  /\ ReconcileAgain(TRUE)

\* Mutant: an unavailable management API restarts the grace period.
ReconcileUnavailableRestarts ==
  /\ pc = "reconcile"
  /\ polls' = PollAttempts
  /\ Sleep
  /\ UNCHANGED <<models, issued, copies, pc, role, memory, disk, ending>>

ReconcileUnavailable ==
  /\ pc = "reconcile"
  /\ ReconcileAgain(FALSE)

\* OpenAIEndpointVerifier.verify through the gateway: both aliases must be
\* listed and answer, or it raises.
Verify ==
  /\ pc = "verify"
  /\ \/ Raise
     \/ /\ \A r \in Roles : Listed(r) # {}
        /\ pc' = "publish"
        /\ UNCHANGED <<role, polls>>
  /\ UNCHANGED <<litellm, memory, disk, ending>>

\* gateway_manifest.json, health_check.json and registration.json are
\* written in this order, and any write may fail.
Publish ==
  /\ pc = "publish"
  /\ UNCHANGED memory
  /\ \/ /\ manifest' = TRUE
        /\ WriteJournal("ready")
        /\ pc' = "done"
        /\ result' = "ready"
        /\ UNCHANGED <<role, polls>>
     \/ /\ manifest' \in {manifest, TRUE}
        /\ Raise
        /\ UNCHANGED <<journal, result>>
  /\ UNCHANGED <<litellm, journalFault>>

-----------------------------------------------------------------------------
(* The except clause. *)

\* cleanup_failures[identity] is set, or the identity is verified and any
\* failure recorded for it is popped.
MarkUnverified ==
  /\ unverified' = unverified \cup {role}
  /\ UNCHANGED verified

MarkVerified ==
  /\ verified' = verified \cup {role}
  /\ unverified' = unverified \ {role}

\* reversed(created): fine_tuned, then base, then the loop over attempts.
AfterRollback ==
  /\ role' = IF role = "fine_tuned" THEN "base" ELSE "fine_tuned"
  /\ pc' = IF role = "fine_tuned" THEN "rollback" ELSE "identity"
  /\ polls' = PollAttempts

\* The ownership proof before a deletion: a listing shows the id under this
\* run's labels.  Afterwards only the id is sent.
ProvenOwned(id) == \E m \in Owned(role) : Shown(m) /\ m.id = id

\* LiteLLM acts on POST /model/delete, which names an id and nothing else.
DeleteById(id) == models' = {m \in models : m.id # id}

\* The listing after a deletion shows the id no more, whoever holds it.
Vanished(id) == \A m \in models : Shown(m) => m.id # id

\* delete_owned for the record of a role.  Its first listing: without the
\* proof, or without an answer, nothing is deleted.
RollbackProof ==
  /\ pc = "rollback"
  /\ created[role] # "none"
  /\ \/ /\ ProvenOwned(created[role])
        /\ pc' = "rollback_delete"
        /\ UNCHANGED <<role, polls, verified, unverified>>
     \/ MarkUnverified /\ AfterRollback
  /\ UNCHANGED <<litellm, attempt, created, deletion, disk, ending>>

\* The deletion; it may fail, also after it took effect.
RollbackDelete ==
  /\ pc = "rollback_delete"
  /\ \/ /\ DeleteById(created[role])
        /\ pc' = "rollback_check"
        /\ UNCHANGED <<role, polls, verified, unverified>>
     \/ /\ DeleteById(created[role]) \/ UNCHANGED models
        /\ MarkUnverified
        /\ AfterRollback
  /\ UNCHANGED <<issued, pending, copies, attempt, created, deletion, disk, ending>>

\* The second listing.
RollbackCheck ==
  /\ pc = "rollback_check"
  /\ \/ Vanished(created[role]) /\ MarkVerified
     \/ MarkUnverified
  /\ AfterRollback
  /\ UNCHANGED <<litellm, attempt, created, deletion, disk, ending>>

NothingToDelete ==
  /\ pc = "rollback"
  /\ created[role] = "none"
  /\ AfterRollback
  /\ UNCHANGED <<litellm, memory, disk, ending>>

\* reversed(attempts): fine_tuned, then base, then the report.
AfterIdentity ==
  /\ role' = IF role = "fine_tuned" THEN "base" ELSE "fine_tuned"
  /\ pc' = IF role = "fine_tuned" THEN "identity" ELSE "report"
  /\ polls' = PollAttempts

\* Mutant: an attempt classified as absent is taken to need no cleanup.
IdentityKnownTrustsAbsent ==
  /\ pc = "identity"
  /\ role \notin Attempted \/ role \in verified \/ attempt[role] = "absent"
  /\ AfterIdentity
  /\ UNCHANGED <<litellm, memory, disk, ending>>

IdentityKnown ==
  /\ pc = "identity"
  /\ role \notin Attempted \/ role \in verified
  /\ AfterIdentity
  /\ UNCHANGED <<litellm, memory, disk, ending>>

NeedsIdentity ==
  /\ pc = "identity"
  /\ role \in Attempted \ verified

\* One poll of delete_owned_by_identity starts with a listing of its own.
IdentityList ==
  /\ NeedsIdentity
  /\ found' = {IdOf(m) : m \in Owned(role)}
  /\ pc' = "identity_items"
  /\ UNCHANGED <<litellm, role, polls, attempt, created, verified, unverified, target,
                 disk, ending>>

\* delete_owned for the next listed item, with a second listing as its proof
\* of ownership; an item that listing does not show is passed over.
IdentityProof ==
  /\ pc = "identity_items"
  /\ \E id \in found \ {NoId} :
       /\ found' = found \ {id}
       /\ target' = IF ProvenOwned(id) THEN id ELSE target
       /\ pc' = IF ProvenOwned(id) THEN "identity_delete" ELSE pc
  /\ UNCHANGED <<litellm, role, polls, attempt, created, verified, unverified, disk, ending>>

\* Mutant: cleanup deletes by alias, not by the id whose owner was proven.
IdentityDeleteAlias ==
  /\ pc = "identity_delete"
  /\ models' = models \ Listed(role)
  /\ pc' = "identity_check"
  /\ UNCHANGED <<issued, pending, copies, role, polls, memory, disk, ending>>

IdentityDelete ==
  /\ pc = "identity_delete"
  /\ DeleteById(target)
  /\ pc' = "identity_check"
  /\ UNCHANGED <<issued, pending, copies, role, polls, memory, disk, ending>>

\* The third listing confirms the deletion.
IdentityCheck ==
  /\ pc = "identity_check"
  /\ Vanished(target)
  /\ target' = NoId
  /\ pc' = "identity_items"
  /\ UNCHANGED <<litellm, role, polls, attempt, created, verified, unverified, found,
                 disk, ending>>

\* Mutant: cleanup looks once instead of for the grace period.
IdentityNextOnce ==
  /\ pc = "identity_items"
  /\ found = {}
  /\ pc' = "confirm"
  /\ UNCHANGED <<litellm, polls, role, memory, disk, ending>>

\* Every listed item is dealt with: the loop sleeps and polls again, or the
\* last poll goes on to the final listing.
IdentityNext ==
  /\ pc = "identity_items"
  /\ found = {}
  /\ \/ /\ polls > 1
        /\ polls' = polls - 1
        /\ Sleep
        /\ pc' = "identity"
     \/ /\ polls = 1
        /\ pc' = "confirm"
        /\ UNCHANGED <<polls, pending>>
  /\ UNCHANGED <<models, issued, copies, role, memory, disk, ending>>

\* One of these requests fails, the deletion also after it took effect, or
\* an item shows no id, or the deleted one is still listed: the exception
\* leaves the loop with the rest of its list undone.
IdentityFails ==
  /\ \/ NeedsIdentity
     \/ pc = "identity_items" /\ found # {}
     \/ pc \in {"identity_delete", "identity_check"}
  /\ \/ UNCHANGED models
     \/ pc = "identity_delete" /\ DeleteById(target)
  /\ MarkUnverified
  /\ AfterIdentity
  /\ found' = {} /\ target' = NoId
  /\ UNCHANGED <<issued, pending, copies, attempt, created, disk, ending>>

\* The listing after the loop.
Confirm ==
  /\ pc = "confirm"
  /\ \/ Owned(role) = {} /\ MarkVerified
     \/ MarkUnverified
  /\ AfterIdentity
  /\ UNCHANGED <<litellm, attempt, created, deletion, disk, ending>>

ReportStatus ==
  LET indeterminate == \E r \in Roles : attempt[r] = "indeterminate" IN
  CASE indeterminate -> "indeterminate_failed"
    [] ~indeterminate /\ CreatedRoles = {} -> "registration_failed"
    [] ~indeterminate /\ CreatedRoles \notin {{}, Roles} -> "partial_failed"
    [] ~indeterminate /\ CreatedRoles = Roles -> "verification_failed"

CleanupUnverified == CleanupOnFailure /\ unverified # {}

\* The journal takes the final status, with a second write when there are
\* rollback results to add; a write that fails raises its own error instead
\* of the one the handler was about to raise.
Report ==
  /\ pc = "report"
  /\ UNCHANGED memory
  /\ \/ /\ IF Attempted = {} THEN UNCHANGED journal ELSE WriteJournal(ReportStatus)
        /\ result' = IF CleanupUnverified THEN "cleanup_unverified" ELSE "failed"
        /\ UNCHANGED journalFault
     \/ /\ Attempted # {}
        /\ \/ UNCHANGED journal
           \/ WriteJournal(ReportStatus) /\ verified \cup unverified # {}
        /\ result' = "failed"
        /\ journalFault' = TRUE
  /\ pc' = "done"
  /\ UNCHANGED <<litellm, role, polls, manifest>>

\* The controller process is killed.
Crash ==
  /\ pc \notin {"done", "crashed"}
  /\ pc' = "crashed"
  /\ UNCHANGED <<litellm, role, polls, memory, disk, ending>>

-----------------------------------------------------------------------------
TryBlock ==
  \/ Preflight \/ Recheck \/ Record \/ Post
  \/ AnswerCreated \/ AnswerRefused \/ AnswerLost
  \/ ReconcileConflict \/ ReconcileDuplicate \/ ReconcileFound
  \/ ReconcileNothing \/ ReconcileUnavailable
  \/ Verify \/ Publish

ExceptBlock ==
  \/ RollbackProof \/ RollbackDelete \/ RollbackCheck \/ NothingToDelete
  \/ IdentityKnown \/ IdentityList \/ IdentityProof \/ IdentityDelete
  \/ IdentityCheck \/ IdentityNext \/ IdentityFails \/ Confirm
  \/ Report

Manager == TryBlock \/ ExceptBlock

Next == Manager \/ Crash \/ Environment

Spec == Init /\ [][Next]_vars

\* Every step of the manager is a request with a timeout, a bounded sleep
\* or a local write: while its process lives it goes on.
FairSpec == Spec /\ WF_vars(Manager)

-----------------------------------------------------------------------------
(* Properties. *)

TypeOK ==
  /\ models \in SUBSET Model
  /\ issued \in SUBSET Ids
  /\ pending \in [Roles -> 0..MaxDelay]
  /\ copies \in [Roles -> 0..MaxCopies]
  /\ pc \in {"preflight", "recheck", "record", "post", "await", "reconcile",
             "verify", "publish", "rollback", "rollback_delete", "rollback_check",
             "identity", "identity_items", "identity_delete", "identity_check",
             "confirm", "report", "done", "crashed"}
  /\ role \in Roles
  /\ polls \in 0..PollAttempts
  /\ attempt \in [Roles -> AttemptOutcomes \cup {"none"}]
  /\ created \in [Roles -> Ids \cup {NoId, "none"}]
  /\ verified \in SUBSET Roles
  /\ unverified \in SUBSET Roles
  /\ found \in SUBSET (Ids \cup {NoId})
  /\ target \in Ids \cup {NoId}
  /\ journal \in [status : JournalStatuses,
                  attempt : [Roles -> AttemptOutcomes \cup {"none"}]]
  /\ manifest \in BOOLEAN
  /\ result \in {"none", "ready", "failed", "cleanup_unverified"}
  /\ journalFault \in BOOLEAN

\* Whatever LiteLLM holds or may still come to hold under this run's label
\* is named in registration.json at every instant, so also after a crash or
\* a failed write: "every mutation attempt is recorded before it is sent".
RecordedBeforeSent ==
  \A r \in Roles :
    Owned(r) # {} \/ InFlight(r) => journal.attempt[r] # "none"

\* When register_and_verify raises anything but GatewayCleanupError under
\* the cleanup policy, LiteLLM holds nothing of this run and no creation
\* request can still take effect: the caller may remove the container the
\* registrations point to.  A fault while the journal is written in the
\* except block is excluded here.
ReleasedMeansUnregistered ==
  CleanupOnFailure /\ result = "failed" /\ ~journalFault =>
    \A r \in Roles : Owned(r) = {} /\ ~InFlight(r)

\* The same without the exclusion: the claim of the comment and message at
\* the raise of GatewayCleanupError.
FailureNeverStrandsRoutes ==
  CleanupOnFailure /\ result = "failed" =>
    \A r \in Roles : Owned(r) = {} /\ ~InFlight(r)

\* No step of the manager removes a registration of another client, although
\* others register and withdraw between a listing, the ownership proof and
\* the deletion, which names only an id: what it removes was proven to be
\* this run's, and LiteLLM gives an id to nobody else.
OthersKeepTheirModels ==
  [][manager' # manager =>
       \A m \in models : m.owner = "other" => m \in models']_vars

\* Roles whose registration exists, or may still come to exist.
Routes == {r \in Roles : Owned(r) # {} \/ InFlight(r)}

\* Roles whose attempt the journal gives one of these outcomes.
JournalSays(outcomes) == {r \in Roles : journal.attempt[r] \in outcomes}

\* Without the cleanup policy a failure keeps what was registered, and a
\* reader of registration.json can tell what that is.  A role whose attempt
\* it calls created is registered; one that is registered, or may yet be, is
\* called created, or its outcome is left open as conflict or indeterminate,
\* the latter under the status of that name only; and the other statuses
\* count the roles called created.  So registration_failed leaves no route
\* except behind an attempt in conflict.
FailureStatusMatchesRoutes ==
  LET settled == JournalSays({"created", "created_after_ambiguous_response"})
      conflict == JournalSays({"conflict"})
      indeterminate == JournalSays({"indeterminate"}) IN
  ~CleanupOnFailure /\ result = "failed" /\ ~journalFault =>
    /\ \A r \in settled : Owned(r) # {}
    /\ Routes \subseteq settled \cup conflict \cup indeterminate
    /\ indeterminate # {} <=> journal.status = "indeterminate_failed"
    /\ journal.status = "registration_failed" => Routes \subseteq conflict
    /\ journal.status = "partial_failed" => settled = {"base"}
    /\ journal.status = "verification_failed" => settled = Roles

\* A role the journal calls absent, or does not name, has no registration of
\* this run and gets none later: nobody reading the artifact after a failure
\* or a crash overlooks a live route.
AbsentStaysAbsent ==
  \A r \in Roles : journal.attempt[r] \in {"none", "absent"} =>
    Owned(r) = {} /\ ~InFlight(r)

\* A successful return means that both registrations of this very run exist,
\* that nothing is still in flight, and that the files say the same.
ReadyIsComplete ==
  result = "ready" =>
    /\ \A r \in Roles : Owned(r) # {} /\ ~InFlight(r)
    /\ \A r \in Roles : journal.attempt[r] = attempt[r]
    /\ journal.status = "ready" /\ manifest

\* The reconciliation and cleanup loops are bounded: the call returns,
\* raises, or dies with its process.
Terminates == <>(pc \in {"done", "crashed"})

\* The promise to the controller, kept by every run of the manager.
PromisedOutcome ==
  CASE result = "none" -> "working"
    [] result = "ready" -> "ready"
    [] result = "cleanup_unverified" -> "held"
    [] result = "failed" /\ journalFault -> "faulted"
    [] result = "failed" /\ ~journalFault -> "released"

Promise == INSTANCE GatewayPromise WITH outcome <- PromisedOutcome, routes <- Routes

KeepsPromise == Promise!PromiseSpec

=============================================================================
