--------------------- MODULE GatewayRegistrationProofs ----------------------
(***************************************************************************)
(* Proofs about GatewayRegistration, for every set of ids, every number of *)
(* polls and every bound on late effects.                                  *)
(***************************************************************************)
EXTENDS GatewayRegistration, RecursionLemmas, FiniteSetTheorems, TLAPS

TryPc == {"preflight", "recheck", "record", "post", "await", "reconcile",
          "verify", "publish"}

\* One poll of delete_owned_by_identity.
PollPc == {"identity", "identity_items", "identity_delete", "identity_check"}

-----------------------------------------------------------------------------
(* The inductive invariant, in named parts. *)

\* A role the manager has not attempted has left no trace at LiteLLM.
UnattemptedIsClean ==
  \A r \in Roles : attempt[r] = "none" =>
    /\ Owned(r) = {}
    /\ copies[r] = 0
    /\ journal.attempt[r] = "none"

\* What LiteLLM holds or may come to hold is in the journal; the role about
\* to be sent is there already.
JournalCovers ==
  /\ RecordedBeforeSent
  /\ pc \in {"post", "await", "reconcile"} => journal.attempt[role] # "none"

\* Where the loop over (base, fine_tuned) stands.
LoopPosition ==
  /\ pc = "preflight" => role = "base"
  /\ pc \in {"preflight", "recheck"} => attempt[role] = "none"
  /\ pc \in {"record", "post", "await", "reconcile"} => attempt[role] = "attempting"
  /\ pc \in {"record", "post"} => Owned(role) = {} /\ copies[role] = 0
  /\ pc \in TryPc /\ role = "base" => attempt["fine_tuned"] = "none"
  /\ \A r \in Roles : created[r] # "none" => attempt[r] \notin {"none", "attempting"}

CoreInv == TypeOK /\ UnattemptedIsClean /\ JournalCovers /\ LoopPosition

-----------------------------------------------------------------------------
(* Type correctness. *)

LEMMA TypeInit == Init => TypeOK
<1> SUFFICES ASSUME Init PROVE TypeOK
  OBVIOUS
<1>1. journal \in [status : JournalStatuses,
                  attempt : [Roles -> AttemptOutcomes \cup {"none"}]]
  BY DEF Init, JournalStatuses
<1>2. pending \in [Roles -> 0..MaxDelay] /\ copies \in [Roles -> 0..MaxCopies]
  BY ConstantsAssumption DEF Init
<1>3. polls \in 0..PollAttempts
  BY ConstantsAssumption DEF Init
<1> QED
  BY <1>1, <1>2, <1>3 DEF Init, TypeOK, Roles

LEMMA SleepType ==
  ASSUME TypeOK, Sleep
  PROVE  pending' \in [Roles -> 0..MaxDelay]
<1>1. ASSUME NEW r \in Roles
      PROVE  (IF pending[r] = 0 THEN 0 ELSE pending[r] - 1) \in 0..MaxDelay
  BY ConstantsAssumption DEF TypeOK
<1> QED
  BY <1>1 DEF Sleep

LEMMA TypeEnvironment == TypeOK /\ Environment => TypeOK'
<1> SUFFICES ASSUME TypeOK, NEW r \in Roles,
                    \/ Apply(r) \/ Discard(r)
                    \/ OtherRegisters(r) \/ OtherWithdraws(r)
             PROVE  TypeOK'
  BY DEF Environment
<1> USE DEF TypeOK, Model, Owners, AddModel, manager, control, memory, deletion, disk, ending
<1>1. CASE Apply(r)
  BY <1>1, ConstantsAssumption DEF Apply, InFlight
<1>2. CASE Discard(r)
  BY <1>2, ConstantsAssumption DEF Discard
<1>3. CASE OtherRegisters(r)
  BY <1>3 DEF OtherRegisters
<1>4. CASE OtherWithdraws(r)
  BY <1>4 DEF OtherWithdraws
<1> QED
  BY <1>1, <1>2, <1>3, <1>4

LEMMA ReconcileAgainType ==
  ASSUME TypeOK, NEW seen \in BOOLEAN, ReconcileAgain(seen)
  PROVE  TypeOK'
<1>1. CASE polls > 1 /\ polls' = polls - 1 /\ Sleep
           /\ UNCHANGED <<models, issued, copies, pc, role, memory, disk, ending>>
  <2>1. polls' \in 0..PollAttempts
    BY <1>1, ConstantsAssumption DEF TypeOK
  <2> QED
    BY <1>1, <2>1, SleepType DEF TypeOK, memory, deletion, disk, ending
<1>2. CASE Settle(IF seen THEN "absent" ELSE "indeterminate") /\ UNCHANGED litellm
  BY <1>2 DEF TypeOK, Settle, Raise, litellm, deletion, disk, ending, Roles, AttemptOutcomes
<1> QED
  BY <1>1, <1>2 DEF ReconcileAgain

LEMMA TypeTry == TypeOK /\ TryBlock => TypeOK'
<1> SUFFICES ASSUME TypeOK, TryBlock PROVE TypeOK'
  OBVIOUS
<1> USE ConstantsAssumption
    DEF TypeOK, litellm, control, memory, deletion, disk, ending, Raise, WriteJournal,
        JournalStatuses, AttemptOutcomes, Roles
<1>1. CASE Preflight
  BY <1>1 DEF Preflight
<1>2. CASE Recheck
  BY <1>2 DEF Recheck
<1>3. CASE Record
  BY <1>3 DEF Record
<1>4. CASE Post
  BY <1>4 DEF Post
<1>5. CASE AnswerCreated
  BY <1>5 DEF AnswerCreated, Accept, IdOf, Owned, Listed, Model
<1>6. CASE AnswerRefused
  BY <1>6 DEF AnswerRefused
<1>7. CASE AnswerLost
  BY <1>7 DEF AnswerLost
<1>8. CASE ReconcileConflict
  BY <1>8 DEF ReconcileConflict, Settle
<1>9. CASE ReconcileDuplicate
  BY <1>9 DEF ReconcileDuplicate, Settle
<1>10. CASE ReconcileFound
  BY <1>10 DEF ReconcileFound, Accept, IdOf, Owned, Listed, Model
<1>11. CASE ReconcileNothing
  BY <1>11, ReconcileAgainType DEF ReconcileNothing
<1>12. CASE ReconcileUnavailable
  BY <1>12, ReconcileAgainType DEF ReconcileUnavailable
<1>13. CASE Verify
  BY <1>13 DEF Verify
<1>14. CASE Publish
  <2>1. journal' \in [status : JournalStatuses,
                     attempt : [Roles -> AttemptOutcomes \cup {"none"}]]
    <3>1. CASE UNCHANGED journal
      BY <3>1
    <3>2. CASE journal' = [status |-> "ready", attempt |-> attempt]
      BY <3>2
    <3> QED
      BY <1>14, <3>1, <3>2 DEF Publish
  <2>2. result' \in {"none", "ready", "failed", "cleanup_unverified"}
        /\ manifest' \in BOOLEAN
    BY <1>14 DEF Publish
  <2> QED
    BY <1>14, <2>1, <2>2 DEF Publish
<1> QED
  BY <1>1, <1>2, <1>3, <1>4, <1>5, <1>6, <1>7, <1>8, <1>9, <1>10, <1>11, <1>12, <1>13, <1>14 DEF TryBlock

LEMMA TypeExcept == TypeOK /\ (ExceptBlock \/ Crash) => TypeOK'
<1> SUFFICES ASSUME TypeOK, ExceptBlock \/ Crash PROVE TypeOK'
  OBVIOUS
<1> USE ConstantsAssumption
    DEF TypeOK, litellm, memory, deletion, disk, ending, Roles,
        MarkVerified, MarkUnverified, AfterRollback, AfterIdentity
<1>1. CASE RollbackProof
  <2>1. verified' \in SUBSET Roles /\ unverified' \in SUBSET Roles
    BY <1>1 DEF RollbackProof
  <2>2. role' \in Roles /\ polls' \in 0..PollAttempts
    BY <1>1 DEF RollbackProof
  <2> QED
    BY <1>1, <2>1, <2>2 DEF RollbackProof
<1>2. CASE NothingToDelete
  BY <1>2 DEF NothingToDelete
<1>3. CASE IdentityKnown
  BY <1>3 DEF IdentityKnown
<1>4. CASE IdentityNext
  BY <1>4 DEF IdentityNext, Sleep
<1>5. CASE IdentityFails
  BY <1>5 DEF IdentityFails, NeedsIdentity, DeleteById
<1>6. CASE Confirm
  <2>1. verified' \in SUBSET Roles /\ unverified' \in SUBSET Roles
    BY <1>6 DEF Confirm
  <2> QED
    BY <1>6, <2>1 DEF Confirm
<1>7. CASE Report
  <2>1. ReportStatus \in JournalStatuses
    BY DEF ReportStatus, JournalStatuses
  <2>2. attempt' \in [Roles -> AttemptOutcomes \cup {"none"}]
    BY <1>7 DEF Report
  <2>3. journal' \in [status : JournalStatuses,
                     attempt : [Roles -> AttemptOutcomes \cup {"none"}]]
    BY <1>7, <2>1, <2>2 DEF Report, WriteJournal
  <2>4. result' \in {"none", "ready", "failed", "cleanup_unverified"}
        /\ journalFault' \in BOOLEAN
    BY <1>7 DEF Report
  <2> QED
    BY <1>7, <2>3, <2>4 DEF Report
<1>8. CASE Crash
  BY <1>8 DEF Crash
<1>9. CASE RollbackDelete
  <2>1. verified' \in SUBSET Roles /\ unverified' \in SUBSET Roles
    BY <1>9 DEF RollbackDelete
  <2>2. role' \in Roles /\ polls' \in 0..PollAttempts
    BY <1>9 DEF RollbackDelete
  <2> QED
    BY <1>9, <2>1, <2>2 DEF RollbackDelete, DeleteById
<1>10. CASE RollbackCheck
  <2>1. verified' \in SUBSET Roles /\ unverified' \in SUBSET Roles
    BY <1>10 DEF RollbackCheck
  <2>2. role' \in Roles /\ polls' \in 0..PollAttempts
    BY <1>10 DEF RollbackCheck
  <2> QED
    BY <1>10, <2>1, <2>2 DEF RollbackCheck
<1>11. CASE IdentityList
  <2>1. \A m \in models : IdOf(m) \in Ids \cup {NoId}
    BY DEF IdOf, Model
  <2>2. found' \in SUBSET (Ids \cup {NoId})
    BY <1>11, <2>1 DEF IdentityList, Owned, Listed
  <2> QED
    BY <1>11, <2>2 DEF IdentityList
<1>12. CASE IdentityProof
  BY <1>12 DEF IdentityProof
<1>13. CASE IdentityDelete
  BY <1>13 DEF IdentityDelete, DeleteById
<1>14. CASE IdentityCheck
  BY <1>14 DEF IdentityCheck
<1> QED
  BY <1>1, <1>2, <1>3, <1>4, <1>5, <1>6, <1>7, <1>8, <1>9, <1>10, <1>11, <1>12, <1>13, <1>14
     DEF ExceptBlock

LEMMA TypeStutter == TypeOK /\ UNCHANGED vars => TypeOK'
BY DEF TypeOK, vars, litellm, manager, control, memory, deletion, disk, ending

(* The variables keep their types: the model never leaves the states the   *)
(* code's own data structures have.                                        *)
THEOREM TypeCorrect == Spec => []TypeOK
<1>1. TypeOK /\ [Next]_vars => TypeOK'
  BY TypeEnvironment, TypeTry, TypeExcept, TypeStutter DEF Next, Manager
<1> QED
  BY <1>1, TypeInit, PTL DEF Spec

-----------------------------------------------------------------------------
(* The journal covers what may be registered. *)

LEMMA CoverTry == CoreInv /\ (TryBlock) => (UnattemptedIsClean /\ JournalCovers)'
<1> SUFFICES ASSUME CoreInv, TryBlock PROVE (UnattemptedIsClean /\ JournalCovers)'
  OBVIOUS
<1> USE ConstantsAssumption
    DEF CoreInv, TypeOK, litellm, control, memory, deletion, disk, ending, Raise,
        WriteJournal, UnattemptedIsClean, JournalCovers, RecordedBeforeSent,
        InFlight, Roles, Owned, Listed
<1> USE DEF LoopPosition
<1>1. CASE Preflight
  BY <1>1 DEF Preflight
<1>2. CASE Recheck
  BY <1>2 DEF Recheck
<1>3. CASE Record
  BY <1>3 DEF Record
<1>4. CASE Post
  BY <1>4 DEF Post
<1>5. CASE AnswerCreated
  BY <1>5 DEF AnswerCreated, Accept
<1>6. CASE AnswerRefused
  BY <1>6 DEF AnswerRefused
<1>7. CASE AnswerLost
  BY <1>7 DEF AnswerLost
<1>8. CASE ReconcileConflict
  BY <1>8 DEF ReconcileConflict, Settle
<1>9. CASE ReconcileDuplicate
  BY <1>9 DEF ReconcileDuplicate, Settle
<1>10. CASE ReconcileFound
  BY <1>10 DEF ReconcileFound, Accept
<1>11. CASE ReconcileNothing
  BY <1>11 DEF ReconcileNothing, ReconcileAgain, Settle, Sleep
<1>12. CASE ReconcileUnavailable
  BY <1>12 DEF ReconcileUnavailable, ReconcileAgain, Settle, Sleep
<1>13. CASE Verify
  BY <1>13 DEF Verify
<1>14. CASE Publish
  <2>1. CASE UNCHANGED journal
    BY <1>14, <2>1 DEF Publish
  <2>2. CASE journal' = [status |-> "ready", attempt |-> attempt]
    BY <1>14, <2>2 DEF Publish
  <2> QED
    BY <1>14, <2>1, <2>2 DEF Publish
<1> QED
  BY <1>1, <1>2, <1>3, <1>4, <1>5, <1>6, <1>7, <1>8, <1>9, <1>10, <1>11, <1>12, <1>13, <1>14 DEF TryBlock, ExceptBlock

LEMMA LoopTry == CoreInv /\ (TryBlock) => LoopPosition'
<1> SUFFICES ASSUME CoreInv, TryBlock PROVE LoopPosition'
  OBVIOUS
<1> USE ConstantsAssumption
    DEF CoreInv, TypeOK, litellm, control, memory, deletion, disk, ending, Raise,
        WriteJournal, UnattemptedIsClean, JournalCovers, RecordedBeforeSent,
        InFlight, Roles, Owned, Listed
<1> USE DEF LoopPosition, TryPc
<1>1. CASE Preflight
  BY <1>1 DEF Preflight
<1>2. CASE Recheck
  BY <1>2 DEF Recheck
<1>3. CASE Record
  BY <1>3 DEF Record
<1>4. CASE Post
  BY <1>4 DEF Post
<1>5. CASE AnswerCreated
  BY <1>5 DEF AnswerCreated, Accept
<1>6. CASE AnswerRefused
  BY <1>6 DEF AnswerRefused
<1>7. CASE AnswerLost
  BY <1>7 DEF AnswerLost
<1>8. CASE ReconcileConflict
  BY <1>8 DEF ReconcileConflict, Settle
<1>9. CASE ReconcileDuplicate
  BY <1>9 DEF ReconcileDuplicate, Settle
<1>10. CASE ReconcileFound
  BY <1>10 DEF ReconcileFound, Accept
<1>11. CASE ReconcileNothing
  BY <1>11 DEF ReconcileNothing, ReconcileAgain, Settle, Sleep
<1>12. CASE ReconcileUnavailable
  BY <1>12 DEF ReconcileUnavailable, ReconcileAgain, Settle, Sleep
<1>13. CASE Verify
  BY <1>13 DEF Verify
<1>14. CASE Publish
  BY <1>14 DEF Publish
<1> QED
  BY <1>1, <1>2, <1>3, <1>4, <1>5, <1>6, <1>7, <1>8, <1>9, <1>10, <1>11, <1>12, <1>13, <1>14 DEF TryBlock, ExceptBlock

LEMMA CoreExcept == CoreInv /\ (ExceptBlock \/ Crash) => (UnattemptedIsClean /\ JournalCovers /\ LoopPosition)'
<1> SUFFICES ASSUME CoreInv, ExceptBlock \/ Crash
             PROVE  (UnattemptedIsClean /\ JournalCovers /\ LoopPosition)'
  OBVIOUS
<1> USE ConstantsAssumption
    DEF CoreInv, TypeOK, litellm, memory, deletion, disk, ending,
        UnattemptedIsClean, JournalCovers, RecordedBeforeSent, LoopPosition,
        TryPc, InFlight, Roles, Owned, Listed,
        MarkVerified, MarkUnverified, AfterRollback, AfterIdentity
<1>1. CASE RollbackProof
  BY <1>1 DEF RollbackProof
<1>2. CASE NothingToDelete
  BY <1>2 DEF NothingToDelete
<1>3. CASE IdentityKnown
  BY <1>3 DEF IdentityKnown
<1>4. CASE IdentityNext
  BY <1>4 DEF IdentityNext, Sleep
<1>5. CASE IdentityFails
  BY <1>5 DEF IdentityFails, NeedsIdentity, DeleteById
<1>6. CASE Confirm
  BY <1>6 DEF Confirm
<1>7. CASE Report
  <2>1. journal' = journal \/ journal'.attempt = attempt
    BY <1>7 DEF Report, WriteJournal
  <2>2. UNCHANGED <<litellm, attempt, created>> /\ pc' = "done"
    BY <1>7 DEF Report
  <2> QED
    BY <2>1, <2>2
<1>8. CASE Crash
  BY <1>8 DEF Crash
<1>9. CASE RollbackDelete
  BY <1>9 DEF RollbackDelete, DeleteById
<1>10. CASE RollbackCheck
  BY <1>10 DEF RollbackCheck
<1>11. CASE IdentityList
  BY <1>11 DEF IdentityList, NeedsIdentity
<1>12. CASE IdentityProof
  BY <1>12 DEF IdentityProof
<1>13. CASE IdentityDelete
  BY <1>13 DEF IdentityDelete, DeleteById
<1>14. CASE IdentityCheck
  BY <1>14 DEF IdentityCheck
<1> QED
  BY <1>1, <1>2, <1>3, <1>4, <1>5, <1>6, <1>7, <1>8, <1>9, <1>10, <1>11, <1>12, <1>13, <1>14
     DEF ExceptBlock

LEMMA CoreEnvironment == CoreInv /\ Environment => (UnattemptedIsClean /\ JournalCovers /\ LoopPosition)'
<1> SUFFICES ASSUME CoreInv, NEW r \in Roles,
                    \/ Apply(r) \/ Discard(r)
                    \/ OtherRegisters(r) \/ OtherWithdraws(r)
             PROVE  (UnattemptedIsClean /\ JournalCovers /\ LoopPosition)'
  BY DEF Environment
<1> USE ConstantsAssumption
    DEF CoreInv, TypeOK, manager, control, memory, deletion, disk, ending, AddModel,
        UnattemptedIsClean, JournalCovers, RecordedBeforeSent, LoopPosition,
        TryPc, InFlight, Roles, Owned, Listed, Foreign
<1>1. CASE Apply(r)
  BY <1>1 DEF Apply
<1>2. CASE Discard(r)
  BY <1>2 DEF Discard
<1>3. CASE OtherRegisters(r)
  BY <1>3 DEF OtherRegisters
<1>4. CASE OtherWithdraws(r)
  BY <1>4 DEF OtherWithdraws
<1> QED
  BY <1>1, <1>2, <1>3, <1>4

LEMMA CoreInvariant == Spec => []CoreInv
<1>1. Init => CoreInv
  BY TypeInit DEF Init, CoreInv, UnattemptedIsClean, JournalCovers,
     RecordedBeforeSent, LoopPosition, TryPc, InFlight, Roles, Owned, Listed
<1>2. CoreInv /\ [Next]_vars => CoreInv'
  <2> SUFFICES ASSUME CoreInv, [Next]_vars PROVE CoreInv'
    OBVIOUS
  <2>1. TypeOK'
    BY TypeEnvironment, TypeTry, TypeExcept, TypeStutter DEF CoreInv, Next, Manager
  <2>2. CASE UNCHANGED vars
    BY <2>2 DEF CoreInv, TypeOK, UnattemptedIsClean, JournalCovers, RecordedBeforeSent,
       LoopPosition, InFlight, Owned, Listed,
       vars, litellm, manager, control, memory, deletion, disk, ending
  <2>3. CASE Next
    BY <2>1, <2>3, CoverTry, LoopTry, CoreExcept, CoreEnvironment DEF CoreInv, Next, Manager
  <2> QED
    BY <2>2, <2>3
<1> QED
  BY <1>1, <1>2, PTL DEF Spec

(* "Every mutation attempt is recorded before it is sent": at every        *)
(* instant, and so wherever the process dies, registration.json names each *)
(* role that LiteLLM holds or may still register for this run.             *)
THEOREM AttemptsAreRecorded == Spec => []RecordedBeforeSent
BY CoreInvariant, PTL DEF CoreInv, JournalCovers

-----------------------------------------------------------------------------
(* What a failed call leaves behind, when LiteLLM acts on a request at most *)
(* once and within the grace period the cleanup loop waits.                *)

GraceSuffices == MaxCopies = 1 /\ MaxDelay < PollAttempts /\ CleanupOnFailure

\* One request, one registration.
OneModel ==
  \A r \in Roles :
    /\ copies[r] > 0 => Owned(r) = {}
    /\ \A m1, m2 \in Owned(r) : m1 = m2

\* A record stands for the only registration there will ever be, and its
\* id, if it has one, is that registration's.
RecordIsExact ==
  \A r \in Roles : created[r] # "none" =>
    /\ copies[r] = 0
    /\ created[r] \in Ids => \A m \in Owned(r) : m.id = created[r]

VerifiedIsClean == \A r \in verified : Owned(r) = {} /\ ~InFlight(r)

\* How far the except block has come.
CleanupPosition ==
  /\ pc \in TryPc => verified = {} /\ unverified = {}
  /\ pc \in {"rollback_delete", "rollback_check"} => created[role] \in Ids \ HiddenIds
  /\ pc \in PollPc => pending[role] < polls
  /\ pc = "confirm" => pending[role] = 0
  /\ pc \in PollPc \cup {"confirm"} /\ role = "base" =>
       Attempted \ {"base"} \subseteq verified \cup unverified
  /\ pc = "report" => Attempted \subseteq verified \cup unverified
  /\ result = "failed" /\ ~journalFault => Attempted \subseteq verified
  /\ result # "none" => pc = "done"

\* What the try block has registered stays registered.
RegisteredSoFar ==
  /\ pc \in TryPc /\ role = "fine_tuned" => Owned("base") # {} /\ created["base"] # "none"
  /\ pc \in {"verify", "publish"} => Owned("fine_tuned") # {} /\ created["fine_tuned"] # "none"
  /\ ReadyIsComplete

SafeInv ==
  /\ CoreInv
  /\ OneModel
  /\ RecordIsExact
  /\ VerifiedIsClean
  /\ CleanupPosition
  /\ RegisteredSoFar

LEMMA OneModelTry == GraceSuffices /\ SafeInv /\ TryBlock => OneModel'
<1> SUFFICES ASSUME GraceSuffices, SafeInv, TryBlock PROVE OneModel'
  OBVIOUS
<1> USE ConstantsAssumption
    DEF GraceSuffices, SafeInv, CoreInv, TypeOK, litellm, manager, control, memory, deletion,
        disk, ending, UnattemptedIsClean, LoopPosition, TryPc, InFlight, Roles,
        Owned, Listed, Raise, WriteJournal, OneModel
<1>1. CASE Preflight
  BY <1>1 DEF Preflight
<1>2. CASE Recheck
  BY <1>2 DEF Recheck
<1>3. CASE Record
  BY <1>3 DEF Record
<1>4. CASE Post
  BY <1>4 DEF Post
<1>5. CASE AnswerCreated
  BY <1>5 DEF AnswerCreated, Accept
<1>6. CASE AnswerRefused
  BY <1>6 DEF AnswerRefused
<1>7. CASE AnswerLost
  BY <1>7 DEF AnswerLost
<1>8. CASE ReconcileConflict
  BY <1>8 DEF ReconcileConflict, Settle
<1>9. CASE ReconcileDuplicate
  BY <1>9 DEF ReconcileDuplicate, Settle
<1>10. CASE ReconcileFound
  BY <1>10 DEF ReconcileFound, Accept
<1>11. CASE ReconcileNothing
  BY <1>11 DEF ReconcileNothing, ReconcileAgain, Settle, Sleep
<1>12. CASE ReconcileUnavailable
  BY <1>12 DEF ReconcileUnavailable, ReconcileAgain, Settle, Sleep
<1>13. CASE Verify
  BY <1>13 DEF Verify
<1>14. CASE Publish
  BY <1>14 DEF Publish
<1> QED
  BY <1>1, <1>2, <1>3, <1>4, <1>5, <1>6, <1>7, <1>8, <1>9, <1>10, <1>11, <1>12, <1>13, <1>14 DEF TryBlock

LEMMA OneModelExcept == GraceSuffices /\ SafeInv /\ (ExceptBlock \/ Crash) => OneModel'
<1> SUFFICES ASSUME GraceSuffices, SafeInv, ExceptBlock \/ Crash PROVE OneModel'
  OBVIOUS
<1> USE ConstantsAssumption
    DEF GraceSuffices, SafeInv, CoreInv, TypeOK, litellm, manager, control, memory, deletion,
        disk, ending, UnattemptedIsClean, LoopPosition, TryPc, InFlight, Roles,
        Owned, Listed, AfterRollback, AfterIdentity,
        MarkVerified, MarkUnverified, OneModel
<1>1. CASE RollbackProof
  BY <1>1 DEF RollbackProof
<1>2. CASE NothingToDelete
  BY <1>2 DEF NothingToDelete
<1>3. CASE IdentityKnown
  BY <1>3 DEF IdentityKnown
<1>4. CASE IdentityNext
  BY <1>4 DEF IdentityNext, Sleep
<1>5. CASE IdentityFails
  BY <1>5 DEF IdentityFails, NeedsIdentity, DeleteById
<1>6. CASE Confirm
  BY <1>6 DEF Confirm
<1>7. CASE Report
  BY <1>7 DEF Report
<1>8. CASE Crash
  BY <1>8 DEF Crash
<1>9. CASE RollbackDelete
  BY <1>9 DEF RollbackDelete, DeleteById
<1>10. CASE RollbackCheck
  BY <1>10 DEF RollbackCheck
<1>11. CASE IdentityList
  BY <1>11 DEF IdentityList, NeedsIdentity
<1>12. CASE IdentityProof
  BY <1>12 DEF IdentityProof
<1>13. CASE IdentityDelete
  BY <1>13 DEF IdentityDelete, DeleteById
<1>14. CASE IdentityCheck
  BY <1>14 DEF IdentityCheck
<1> QED
  BY <1>1, <1>2, <1>3, <1>4, <1>5, <1>6, <1>7, <1>8, <1>9, <1>10, <1>11, <1>12, <1>13, <1>14
     DEF ExceptBlock

LEMMA OneModelEnvironment == GraceSuffices /\ SafeInv /\ Environment => OneModel'
<1> SUFFICES ASSUME GraceSuffices, SafeInv, NEW r \in Roles,
                    \/ Apply(r) \/ Discard(r)
                    \/ OtherRegisters(r) \/ OtherWithdraws(r)
             PROVE  OneModel'
  BY DEF Environment
<1> USE ConstantsAssumption
    DEF GraceSuffices, SafeInv, CoreInv, TypeOK, litellm, manager, control, memory, deletion,
        disk, ending, UnattemptedIsClean, LoopPosition, TryPc, InFlight, Roles,
        Owned, Listed, Foreign, AddModel,
        OneModel
<1>1. CASE Apply(r)
  BY <1>1 DEF Apply
<1>2. CASE Discard(r)
  BY <1>2 DEF Discard
<1>3. CASE OtherRegisters(r)
  BY <1>3 DEF OtherRegisters
<1>4. CASE OtherWithdraws(r)
  BY <1>4 DEF OtherWithdraws
<1> QED
  BY <1>1, <1>2, <1>3, <1>4

LEMMA RecordIsExactTry == GraceSuffices /\ SafeInv /\ TryBlock => RecordIsExact'
<1> SUFFICES ASSUME GraceSuffices, SafeInv, TryBlock PROVE RecordIsExact'
  OBVIOUS
<1> USE ConstantsAssumption
    DEF GraceSuffices, SafeInv, CoreInv, TypeOK, litellm, manager, control, memory, deletion,
        disk, ending, UnattemptedIsClean, LoopPosition, TryPc, InFlight, Roles,
        Owned, Listed, Raise, WriteJournal, RecordIsExact, OneModel, IdOf, Shown
<1>1. CASE Preflight
  BY <1>1 DEF Preflight
<1>2. CASE Recheck
  BY <1>2 DEF Recheck
<1>3. CASE Record
  BY <1>3 DEF Record
<1>4. CASE Post
  BY <1>4 DEF Post
<1>5. CASE AnswerCreated
  BY <1>5 DEF AnswerCreated, Accept
<1>6. CASE AnswerRefused
  BY <1>6 DEF AnswerRefused
<1>7. CASE AnswerLost
  BY <1>7 DEF AnswerLost
<1>8. CASE ReconcileConflict
  BY <1>8 DEF ReconcileConflict, Settle
<1>9. CASE ReconcileDuplicate
  BY <1>9 DEF ReconcileDuplicate, Settle
<1>10. CASE ReconcileFound
  BY <1>10 DEF ReconcileFound, Accept
<1>11. CASE ReconcileNothing
  BY <1>11 DEF ReconcileNothing, ReconcileAgain, Settle, Sleep
<1>12. CASE ReconcileUnavailable
  BY <1>12 DEF ReconcileUnavailable, ReconcileAgain, Settle, Sleep
<1>13. CASE Verify
  BY <1>13 DEF Verify
<1>14. CASE Publish
  BY <1>14 DEF Publish
<1> QED
  BY <1>1, <1>2, <1>3, <1>4, <1>5, <1>6, <1>7, <1>8, <1>9, <1>10, <1>11, <1>12, <1>13, <1>14 DEF TryBlock

LEMMA RecordIsExactExcept == GraceSuffices /\ SafeInv /\ (ExceptBlock \/ Crash) => RecordIsExact'
<1> SUFFICES ASSUME GraceSuffices, SafeInv, ExceptBlock \/ Crash PROVE RecordIsExact'
  OBVIOUS
<1> USE ConstantsAssumption
    DEF GraceSuffices, SafeInv, CoreInv, TypeOK, litellm, manager, control, memory, deletion,
        disk, ending, UnattemptedIsClean, LoopPosition, TryPc, InFlight, Roles,
        Owned, Listed, AfterRollback, AfterIdentity,
        MarkVerified, MarkUnverified, RecordIsExact, OneModel, IdOf, Shown
<1>1. CASE RollbackProof
  BY <1>1 DEF RollbackProof
<1>2. CASE NothingToDelete
  BY <1>2 DEF NothingToDelete
<1>3. CASE IdentityKnown
  BY <1>3 DEF IdentityKnown
<1>4. CASE IdentityNext
  BY <1>4 DEF IdentityNext, Sleep
<1>5. CASE IdentityFails
  BY <1>5 DEF IdentityFails, NeedsIdentity, DeleteById
<1>6. CASE Confirm
  BY <1>6 DEF Confirm
<1>7. CASE Report
  BY <1>7 DEF Report
<1>8. CASE Crash
  BY <1>8 DEF Crash
<1>9. CASE RollbackDelete
  BY <1>9 DEF RollbackDelete, DeleteById
<1>10. CASE RollbackCheck
  BY <1>10 DEF RollbackCheck
<1>11. CASE IdentityList
  BY <1>11 DEF IdentityList, NeedsIdentity
<1>12. CASE IdentityProof
  BY <1>12 DEF IdentityProof
<1>13. CASE IdentityDelete
  BY <1>13 DEF IdentityDelete, DeleteById
<1>14. CASE IdentityCheck
  BY <1>14 DEF IdentityCheck
<1> QED
  BY <1>1, <1>2, <1>3, <1>4, <1>5, <1>6, <1>7, <1>8, <1>9, <1>10, <1>11, <1>12, <1>13, <1>14
     DEF ExceptBlock

LEMMA RecordIsExactEnvironment == GraceSuffices /\ SafeInv /\ Environment => RecordIsExact'
<1> SUFFICES ASSUME GraceSuffices, SafeInv, NEW r \in Roles,
                    \/ Apply(r) \/ Discard(r)
                    \/ OtherRegisters(r) \/ OtherWithdraws(r)
             PROVE  RecordIsExact'
  BY DEF Environment
<1> USE ConstantsAssumption
    DEF GraceSuffices, SafeInv, CoreInv, TypeOK, litellm, manager, control, memory, deletion,
        disk, ending, UnattemptedIsClean, LoopPosition, TryPc, InFlight, Roles,
        Owned, Listed, Foreign, AddModel,
        RecordIsExact, OneModel, IdOf, Shown
<1>1. CASE Apply(r)
  BY <1>1 DEF Apply
<1>2. CASE Discard(r)
  BY <1>2 DEF Discard
<1>3. CASE OtherRegisters(r)
  BY <1>3 DEF OtherRegisters
<1>4. CASE OtherWithdraws(r)
  BY <1>4 DEF OtherWithdraws
<1> QED
  BY <1>1, <1>2, <1>3, <1>4

LEMMA VerifiedIsCleanTry == GraceSuffices /\ SafeInv /\ TryBlock => VerifiedIsClean'
<1> SUFFICES ASSUME GraceSuffices, SafeInv, TryBlock PROVE VerifiedIsClean'
  OBVIOUS
<1> USE ConstantsAssumption
    DEF GraceSuffices, SafeInv, CoreInv, TypeOK, litellm, manager, control, memory, deletion,
        disk, ending, UnattemptedIsClean, LoopPosition, TryPc, InFlight, Roles,
        Owned, Listed, Raise, WriteJournal, VerifiedIsClean, CleanupPosition, PollPc, OneModel, RecordIsExact, Shown
<1>1. CASE Preflight
  BY <1>1 DEF Preflight
<1>2. CASE Recheck
  BY <1>2 DEF Recheck
<1>3. CASE Record
  BY <1>3 DEF Record
<1>4. CASE Post
  BY <1>4 DEF Post
<1>5. CASE AnswerCreated
  BY <1>5 DEF AnswerCreated, Accept
<1>6. CASE AnswerRefused
  BY <1>6 DEF AnswerRefused
<1>7. CASE AnswerLost
  BY <1>7 DEF AnswerLost
<1>8. CASE ReconcileConflict
  BY <1>8 DEF ReconcileConflict, Settle
<1>9. CASE ReconcileDuplicate
  BY <1>9 DEF ReconcileDuplicate, Settle
<1>10. CASE ReconcileFound
  BY <1>10 DEF ReconcileFound, Accept
<1>11. CASE ReconcileNothing
  BY <1>11 DEF ReconcileNothing, ReconcileAgain, Settle, Sleep
<1>12. CASE ReconcileUnavailable
  BY <1>12 DEF ReconcileUnavailable, ReconcileAgain, Settle, Sleep
<1>13. CASE Verify
  BY <1>13 DEF Verify
<1>14. CASE Publish
  BY <1>14 DEF Publish
<1> QED
  BY <1>1, <1>2, <1>3, <1>4, <1>5, <1>6, <1>7, <1>8, <1>9, <1>10, <1>11, <1>12, <1>13, <1>14 DEF TryBlock

LEMMA VerifiedIsCleanExcept == GraceSuffices /\ SafeInv /\ (ExceptBlock \/ Crash) => VerifiedIsClean'
<1> SUFFICES ASSUME GraceSuffices, SafeInv, ExceptBlock \/ Crash PROVE VerifiedIsClean'
  OBVIOUS
<1> USE ConstantsAssumption
    DEF GraceSuffices, SafeInv, CoreInv, TypeOK, litellm, manager, control, memory, deletion,
        disk, ending, UnattemptedIsClean, LoopPosition, TryPc, InFlight, Roles,
        Owned, Listed, AfterRollback, AfterIdentity,
        MarkVerified, MarkUnverified, VerifiedIsClean, CleanupPosition, PollPc, OneModel, RecordIsExact, Shown
<1>1. CASE RollbackProof
  <2>1. UNCHANGED <<litellm, verified>>
    BY <1>1 DEF RollbackProof
  <2> QED
    BY <2>1
<1>2. CASE NothingToDelete
  BY <1>2 DEF NothingToDelete
<1>3. CASE IdentityKnown
  BY <1>3 DEF IdentityKnown
<1>4. CASE IdentityNext
  BY <1>4 DEF IdentityNext, Sleep
<1>5. CASE IdentityFails
  BY <1>5 DEF IdentityFails, NeedsIdentity, DeleteById
<1>6. CASE Confirm
  <2>1. UNCHANGED litellm /\ pc = "confirm"
    BY <1>6 DEF Confirm
  <2>2. verified' = verified \/ (Owned(role) = {} /\ verified' = verified \cup {role})
    BY <1>6 DEF Confirm
  <2>3. \A r \in Roles : Owned(r)' = Owned(r) /\ (InFlight(r)' <=> InFlight(r))
    BY <2>1
  <2>4. ~InFlight(role) /\ \A r \in verified : Owned(r) = {} /\ ~InFlight(r)
    BY <2>1
  <2>5. ASSUME NEW r \in verified'
        PROVE  Owned(r)' = {} /\ ~InFlight(r)'
    <3>1. r \in Roles /\ Owned(r) = {} /\ ~InFlight(r)
      <4>1. r \in Roles
        BY TypeExcept, <1>6 DEF ExceptBlock
      <4>2. CASE r \in verified
        BY <2>4, <4>1, <4>2
      <4>3. CASE r = role /\ Owned(role) = {}
        BY <2>4, <4>1, <4>3
      <4> QED
        BY <2>2, <4>2, <4>3
    <3> QED
      BY <2>3, <3>1
  <2> QED
    BY <2>5
<1>7. CASE Report
  BY <1>7 DEF Report
<1>8. CASE Crash
  BY <1>8 DEF Crash
<1>9. CASE RollbackDelete
  <2>1. models' \subseteq models /\ UNCHANGED <<pending, copies, verified>>
    BY <1>9 DEF RollbackDelete, DeleteById
  <2>2. \A r \in Roles : Owned(r)' \subseteq Owned(r)
    BY <2>1
  <2> QED
    BY <2>1, <2>2
<1>10. CASE RollbackCheck
  <2>1. UNCHANGED <<litellm, created>> /\ pc = "rollback_check"
    BY <1>10 DEF RollbackCheck
  <2>2. verified' = verified \/ (Vanished(created[role]) /\ verified' = verified \cup {role})
    BY <1>10 DEF RollbackCheck
  <2>3. Vanished(created[role]) => Owned(role) = {} /\ ~InFlight(role)
    <3>1. created[role] \in Ids \ HiddenIds /\ created[role] # "none"
      BY <2>1
    <3>2. copies[role] = 0 /\ \A m \in Owned(role) : m.id = created[role]
      BY <3>1
    <3> QED
      BY <3>1, <3>2 DEF Vanished
  <2>4. \A r \in Roles : Owned(r)' = Owned(r) /\ (InFlight(r)' <=> InFlight(r))
    BY <2>1
  <2>5. ASSUME NEW r \in verified' PROVE Owned(r)' = {} /\ ~InFlight(r)'
    <3>1. r \in Roles
      BY TypeExcept, <1>10 DEF ExceptBlock
    <3>2. CASE r \in verified
      BY <2>4, <3>1, <3>2
    <3>3. CASE r = role /\ Vanished(created[role])
      BY <2>3, <2>4, <3>1, <3>3
    <3> QED
      BY <2>2, <3>2, <3>3
  <2> QED
    BY <2>5
<1>11. CASE IdentityList
  BY <1>11 DEF IdentityList, NeedsIdentity
<1>12. CASE IdentityProof
  BY <1>12 DEF IdentityProof
<1>13. CASE IdentityDelete
  BY <1>13 DEF IdentityDelete, DeleteById
<1>14. CASE IdentityCheck
  BY <1>14 DEF IdentityCheck
<1> QED
  BY <1>1, <1>2, <1>3, <1>4, <1>5, <1>6, <1>7, <1>8, <1>9, <1>10, <1>11, <1>12, <1>13, <1>14
     DEF ExceptBlock

LEMMA VerifiedIsCleanEnvironment == GraceSuffices /\ SafeInv /\ Environment => VerifiedIsClean'
<1> SUFFICES ASSUME GraceSuffices, SafeInv, NEW r \in Roles,
                    \/ Apply(r) \/ Discard(r)
                    \/ OtherRegisters(r) \/ OtherWithdraws(r)
             PROVE  VerifiedIsClean'
  BY DEF Environment
<1> USE ConstantsAssumption
    DEF GraceSuffices, SafeInv, CoreInv, TypeOK, litellm, manager, control, memory, deletion,
        disk, ending, UnattemptedIsClean, LoopPosition, TryPc, InFlight, Roles,
        Owned, Listed, Foreign, AddModel,
        VerifiedIsClean, CleanupPosition, PollPc, OneModel, RecordIsExact, Shown
<1>1. CASE Apply(r)
  BY <1>1 DEF Apply
<1>2. CASE Discard(r)
  BY <1>2 DEF Discard
<1>3. CASE OtherRegisters(r)
  BY <1>3 DEF OtherRegisters
<1>4. CASE OtherWithdraws(r)
  BY <1>4 DEF OtherWithdraws
<1> QED
  BY <1>1, <1>2, <1>3, <1>4

LEMMA CleanupPositionTry == GraceSuffices /\ SafeInv /\ TryBlock => CleanupPosition'
<1> SUFFICES ASSUME GraceSuffices, SafeInv, TryBlock PROVE CleanupPosition'
  OBVIOUS
<1> USE ConstantsAssumption
    DEF GraceSuffices, SafeInv, CoreInv, TypeOK, litellm, manager, control, memory, deletion,
        disk, ending, UnattemptedIsClean, LoopPosition, TryPc, InFlight, Roles,
        Owned, Listed, Raise, WriteJournal, CleanupPosition, PollPc, Attempted
<1>1. CASE Preflight
  BY <1>1 DEF Preflight
<1>2. CASE Recheck
  BY <1>2 DEF Recheck
<1>3. CASE Record
  BY <1>3 DEF Record
<1>4. CASE Post
  BY <1>4 DEF Post
<1>5. CASE AnswerCreated
  BY <1>5 DEF AnswerCreated, Accept
<1>6. CASE AnswerRefused
  BY <1>6 DEF AnswerRefused
<1>7. CASE AnswerLost
  BY <1>7 DEF AnswerLost
<1>8. CASE ReconcileConflict
  BY <1>8 DEF ReconcileConflict, Settle
<1>9. CASE ReconcileDuplicate
  BY <1>9 DEF ReconcileDuplicate, Settle
<1>10. CASE ReconcileFound
  BY <1>10 DEF ReconcileFound, Accept
<1>11. CASE ReconcileNothing
  BY <1>11 DEF ReconcileNothing, ReconcileAgain, Settle, Sleep
<1>12. CASE ReconcileUnavailable
  BY <1>12 DEF ReconcileUnavailable, ReconcileAgain, Settle, Sleep
<1>13. CASE Verify
  BY <1>13 DEF Verify
<1>14. CASE Publish
  BY <1>14 DEF Publish
<1> QED
  BY <1>1, <1>2, <1>3, <1>4, <1>5, <1>6, <1>7, <1>8, <1>9, <1>10, <1>11, <1>12, <1>13, <1>14 DEF TryBlock

LEMMA CleanupPositionExcept == GraceSuffices /\ SafeInv /\ (ExceptBlock \/ Crash) => CleanupPosition'
<1> SUFFICES ASSUME GraceSuffices, SafeInv, ExceptBlock \/ Crash PROVE CleanupPosition'
  OBVIOUS
<1> USE ConstantsAssumption
    DEF GraceSuffices, SafeInv, CoreInv, TypeOK, litellm, manager, control, memory, deletion,
        disk, ending, UnattemptedIsClean, LoopPosition, TryPc, InFlight, Roles,
        Owned, Listed, AfterRollback, AfterIdentity,
        MarkVerified, MarkUnverified, CleanupPosition, PollPc, Attempted
<1>1. CASE RollbackProof
  BY <1>1 DEF RollbackProof, ProvenOwned, Shown, Model
<1>2. CASE NothingToDelete
  BY <1>2 DEF NothingToDelete
<1>3. CASE IdentityKnown
  BY <1>3 DEF IdentityKnown
<1>4. CASE IdentityNext
  BY <1>4 DEF IdentityNext, Sleep
<1>5. CASE IdentityFails
  BY <1>5 DEF IdentityFails, NeedsIdentity, DeleteById
<1>6. CASE Confirm
  BY <1>6 DEF Confirm
<1>7. CASE Report
  <2>1. pc = "report" /\ pc' = "done" /\ UNCHANGED memory
    BY <1>7 DEF Report
  <2>2. result' = "failed" /\ ~journalFault' => unverified = {}
    BY <1>7 DEF Report, CleanupUnverified
  <2> QED
    BY <2>1, <2>2
<1>8. CASE Crash
  BY <1>8 DEF Crash
<1>9. CASE RollbackDelete
  BY <1>9 DEF RollbackDelete, DeleteById
<1>10. CASE RollbackCheck
  BY <1>10 DEF RollbackCheck
<1>11. CASE IdentityList
  BY <1>11 DEF IdentityList, NeedsIdentity
<1>12. CASE IdentityProof
  BY <1>12 DEF IdentityProof
<1>13. CASE IdentityDelete
  BY <1>13 DEF IdentityDelete, DeleteById
<1>14. CASE IdentityCheck
  BY <1>14 DEF IdentityCheck
<1> QED
  BY <1>1, <1>2, <1>3, <1>4, <1>5, <1>6, <1>7, <1>8, <1>9, <1>10, <1>11, <1>12, <1>13, <1>14
     DEF ExceptBlock

LEMMA CleanupPositionEnvironment == GraceSuffices /\ SafeInv /\ Environment => CleanupPosition'
<1> SUFFICES ASSUME GraceSuffices, SafeInv, NEW r \in Roles,
                    \/ Apply(r) \/ Discard(r)
                    \/ OtherRegisters(r) \/ OtherWithdraws(r)
             PROVE  CleanupPosition'
  BY DEF Environment
<1> USE ConstantsAssumption
    DEF GraceSuffices, SafeInv, CoreInv, TypeOK, litellm, manager, control, memory, deletion,
        disk, ending, UnattemptedIsClean, LoopPosition, TryPc, InFlight, Roles,
        Owned, Listed, Foreign, AddModel,
        CleanupPosition, PollPc, Attempted
<1>1. CASE Apply(r)
  BY <1>1 DEF Apply
<1>2. CASE Discard(r)
  BY <1>2 DEF Discard
<1>3. CASE OtherRegisters(r)
  BY <1>3 DEF OtherRegisters
<1>4. CASE OtherWithdraws(r)
  BY <1>4 DEF OtherWithdraws
<1> QED
  BY <1>1, <1>2, <1>3, <1>4

LEMMA RegisteredSoFarTry == GraceSuffices /\ SafeInv /\ TryBlock => RegisteredSoFar'
<1> SUFFICES ASSUME GraceSuffices, SafeInv, TryBlock PROVE RegisteredSoFar'
  OBVIOUS
<1> USE ConstantsAssumption
    DEF GraceSuffices, SafeInv, CoreInv, TypeOK, litellm, manager, control, memory, deletion,
        disk, ending, UnattemptedIsClean, LoopPosition, TryPc, InFlight, Roles,
        Owned, Listed, Raise, WriteJournal, RegisteredSoFar, ReadyIsComplete, OneModel, RecordIsExact, CleanupPosition, PollPc
<1>1. CASE Preflight
  BY <1>1 DEF Preflight
<1>2. CASE Recheck
  BY <1>2 DEF Recheck
<1>3. CASE Record
  BY <1>3 DEF Record
<1>4. CASE Post
  BY <1>4 DEF Post
<1>5. CASE AnswerCreated
  <2>1. UNCHANGED <<models, copies, result>> /\ pc = "await" /\ Owned(role) # {}
    BY <1>5 DEF AnswerCreated, Accept
  <2>2. PICK id \in Ids \cup {NoId} : Accept(id, "created")
    BY <1>5 DEF AnswerCreated, IdOf, Model
  <2>3. created' = [created EXCEPT ![role] = id] /\ id # "none"
    BY <2>2 DEF Accept
  <2>4. \/ pc' = (IF role = "base" THEN "recheck" ELSE "verify") /\ role' = "fine_tuned"
        \/ pc' \in {"rollback", "report"}
    BY <2>2 DEF Accept
  <2> QED
    BY <2>1, <2>2, <2>3, <2>4
<1>6. CASE AnswerRefused
  BY <1>6 DEF AnswerRefused
<1>7. CASE AnswerLost
  BY <1>7 DEF AnswerLost
<1>8. CASE ReconcileConflict
  BY <1>8 DEF ReconcileConflict, Settle
<1>9. CASE ReconcileDuplicate
  BY <1>9 DEF ReconcileDuplicate, Settle
<1>10. CASE ReconcileFound
  <2>1. UNCHANGED <<models, copies, result>> /\ pc = "reconcile"
    BY <1>10 DEF ReconcileFound, Accept
  <2>2. PICK m \in Owned(role) : Accept(IdOf(m), "created_after_ambiguous_response")
    BY <1>10 DEF ReconcileFound
  <2>3. created' = [created EXCEPT ![role] = IdOf(m)] /\ IdOf(m) # "none"
    BY <2>2 DEF Accept, IdOf, Model
  <2>4. \/ pc' = (IF role = "base" THEN "recheck" ELSE "verify") /\ role' = "fine_tuned"
        \/ pc' \in {"rollback", "report"}
    BY <2>2 DEF Accept
  <2> QED
    BY <2>1, <2>2, <2>3, <2>4
<1>11. CASE ReconcileNothing
  BY <1>11 DEF ReconcileNothing, ReconcileAgain, Settle, Sleep
<1>12. CASE ReconcileUnavailable
  BY <1>12 DEF ReconcileUnavailable, ReconcileAgain, Settle, Sleep
<1>13. CASE Verify
  BY <1>13 DEF Verify
<1>14. CASE Publish
  <2>1. CASE result' = "ready"
    <3>1. journal' = [status |-> "ready", attempt |-> attempt] /\ manifest' = TRUE
          /\ UNCHANGED <<attempt, created, models, pending, copies>> /\ pc = "publish"
          /\ pc' = "done"
      BY <1>14, <2>1 DEF Publish
    <3>2. \A r \in Roles : Owned(r) # {} /\ copies[r] = 0
      BY <3>1
    <3> QED
      BY <3>1, <3>2
  <2>2. CASE result' # "ready"
    BY <1>14, <2>2 DEF Publish
  <2> QED
    BY <2>1, <2>2
<1> QED
  BY <1>1, <1>2, <1>3, <1>4, <1>5, <1>6, <1>7, <1>8, <1>9, <1>10, <1>11, <1>12, <1>13, <1>14 DEF TryBlock

LEMMA RegisteredSoFarExcept == GraceSuffices /\ SafeInv /\ (ExceptBlock \/ Crash) => RegisteredSoFar'
<1> SUFFICES ASSUME GraceSuffices, SafeInv, ExceptBlock \/ Crash PROVE RegisteredSoFar'
  OBVIOUS
<1> USE ConstantsAssumption
    DEF GraceSuffices, SafeInv, CoreInv, TypeOK, litellm, manager, control, memory, deletion,
        disk, ending, UnattemptedIsClean, LoopPosition, TryPc, InFlight, Roles,
        Owned, Listed, AfterRollback, AfterIdentity,
        MarkVerified, MarkUnverified, RegisteredSoFar, ReadyIsComplete, OneModel, RecordIsExact, CleanupPosition, PollPc
<1>1. CASE RollbackProof
  BY <1>1 DEF RollbackProof
<1>2. CASE NothingToDelete
  BY <1>2 DEF NothingToDelete
<1>3. CASE IdentityKnown
  BY <1>3 DEF IdentityKnown
<1>4. CASE IdentityNext
  BY <1>4 DEF IdentityNext, Sleep
<1>5. CASE IdentityFails
  BY <1>5 DEF IdentityFails, NeedsIdentity, DeleteById
<1>6. CASE Confirm
  BY <1>6 DEF Confirm
<1>7. CASE Report
  BY <1>7 DEF Report
<1>8. CASE Crash
  BY <1>8 DEF Crash
<1>9. CASE RollbackDelete
  BY <1>9 DEF RollbackDelete, DeleteById
<1>10. CASE RollbackCheck
  BY <1>10 DEF RollbackCheck
<1>11. CASE IdentityList
  BY <1>11 DEF IdentityList, NeedsIdentity
<1>12. CASE IdentityProof
  BY <1>12 DEF IdentityProof
<1>13. CASE IdentityDelete
  BY <1>13 DEF IdentityDelete, DeleteById
<1>14. CASE IdentityCheck
  BY <1>14 DEF IdentityCheck
<1> QED
  BY <1>1, <1>2, <1>3, <1>4, <1>5, <1>6, <1>7, <1>8, <1>9, <1>10, <1>11, <1>12, <1>13, <1>14
     DEF ExceptBlock

LEMMA RegisteredSoFarEnvironment == GraceSuffices /\ SafeInv /\ Environment => RegisteredSoFar'
<1> SUFFICES ASSUME GraceSuffices, SafeInv, NEW r \in Roles,
                    \/ Apply(r) \/ Discard(r)
                    \/ OtherRegisters(r) \/ OtherWithdraws(r)
             PROVE  RegisteredSoFar'
  BY DEF Environment
<1> USE ConstantsAssumption
    DEF GraceSuffices, SafeInv, CoreInv, TypeOK, litellm, manager, control, memory, deletion,
        disk, ending, UnattemptedIsClean, LoopPosition, TryPc, InFlight, Roles,
        Owned, Listed, Foreign, AddModel,
        RegisteredSoFar, ReadyIsComplete, OneModel, RecordIsExact, CleanupPosition, PollPc
<1>1. CASE Apply(r)
  BY <1>1 DEF Apply
<1>2. CASE Discard(r)
  BY <1>2 DEF Discard
<1>3. CASE OtherRegisters(r)
  BY <1>3 DEF OtherRegisters
<1>4. CASE OtherWithdraws(r)
  BY <1>4 DEF OtherWithdraws
<1> QED
  BY <1>1, <1>2, <1>3, <1>4

LEMMA SafeInit == GraceSuffices /\ Init => SafeInv
BY TypeInit, ConstantsAssumption
   DEF Init, SafeInv, CoreInv, UnattemptedIsClean, JournalCovers, RecordedBeforeSent,
       LoopPosition, TryPc, InFlight, Roles, Owned, Listed, OneModel, RecordIsExact,
       VerifiedIsClean, CleanupPosition, PollPc, RegisteredSoFar, ReadyIsComplete

LEMMA SafeStep == GraceSuffices /\ SafeInv /\ CoreInv' /\ [Next]_vars => SafeInv'
<1> SUFFICES ASSUME GraceSuffices, SafeInv, CoreInv', [Next]_vars PROVE SafeInv'
  OBVIOUS
<1>1. CASE UNCHANGED vars
  BY <1>1 DEF SafeInv, OneModel, RecordIsExact, VerifiedIsClean, CleanupPosition,
     RegisteredSoFar, ReadyIsComplete, InFlight, Owned, Listed, Attempted,
     vars, litellm, manager, control, memory, deletion, disk, ending
<1>2. CASE TryBlock
  BY <1>2, OneModelTry, RecordIsExactTry, VerifiedIsCleanTry, CleanupPositionTry,
     RegisteredSoFarTry DEF SafeInv
<1>3. CASE ExceptBlock \/ Crash
  BY <1>3, OneModelExcept, RecordIsExactExcept, VerifiedIsCleanExcept,
     CleanupPositionExcept, RegisteredSoFarExcept DEF SafeInv
<1>4. CASE Environment
  BY <1>4, OneModelEnvironment, RecordIsExactEnvironment, VerifiedIsCleanEnvironment,
     CleanupPositionEnvironment, RegisteredSoFarEnvironment DEF SafeInv
<1> QED
  BY <1>1, <1>2, <1>3, <1>4 DEF Next, Manager

LEMMA SafeInvariant == ASSUME GraceSuffices PROVE Spec => []SafeInv
<1>1. Init => SafeInv
  BY SafeInit
<1>2. SafeInv /\ CoreInv /\ CoreInv' /\ [Next]_vars => SafeInv'
  BY SafeStep
<1> QED
  BY <1>1, <1>2, CoreInvariant, PTL DEF Spec

(* When register_and_verify raises an ordinary error under the cleanup     *)
(* policy, this run has no registration left and none can still appear:    *)
(* the controller may remove the serving container.  It holds for every    *)
(* poll count that outlasts LiteLLM's latest action on a request.          *)
THEOREM ReleasedIsUnregistered ==
  ASSUME GraceSuffices
  PROVE  Spec => []ReleasedMeansUnregistered
<1>1. SafeInv => ReleasedMeansUnregistered
  <2> SUFFICES ASSUME SafeInv, result = "failed", ~journalFault, NEW r \in Roles
               PROVE  Owned(r) = {} /\ ~InFlight(r)
    BY DEF ReleasedMeansUnregistered
  <2>1. CASE r \in verified
    BY <2>1 DEF SafeInv, VerifiedIsClean
  <2>2. CASE attempt[r] = "none"
    BY <2>2 DEF SafeInv, CoreInv, UnattemptedIsClean, InFlight
  <2> QED
    BY <2>1, <2>2 DEF SafeInv, CleanupPosition, PollPc, Attempted
<1> QED
  BY <1>1, SafeInvariant, PTL

(* A successful return has both registrations of this run in place, no     *)
(* request in flight, and the artifacts on disk in agreement.              *)
THEOREM ReadyIsCompleteAlways ==
  ASSUME GraceSuffices
  PROVE  Spec => []ReadyIsComplete
<1>1. SafeInv => ReadyIsComplete
  BY DEF SafeInv, RegisteredSoFar
<1> QED
  BY <1>1, SafeInvariant, PTL

\* What delete_owned is about to delete by its id is this run's, whatever
\* others registered and withdrew since the listing that proved it.
AboutToDelete ==
  CASE pc = "rollback_delete" -> {created[role]}
    [] pc = "identity_delete" -> {target}
    [] OTHER -> {}

DeletesOwn ==
  /\ \A m \in models : m.id \in issued
  /\ \A m1, m2 \in models : m1.id = m2.id => m1 = m2
  /\ AboutToDelete \subseteq issued
  /\ \A m \in models : m.id \in AboutToDelete => m.owner = "run"

LEMMA DeletesOwnManager == TypeOK /\ DeletesOwn /\ (Manager \/ Crash) => DeletesOwn'
<1> SUFFICES ASSUME TypeOK, DeletesOwn, Manager \/ Crash PROVE DeletesOwn'
  OBVIOUS
<1>1. models' \subseteq models /\ UNCHANGED issued
  BY DEF Manager, TryBlock, ExceptBlock, Crash, Preflight, Recheck, Record, Post, AnswerCreated,
     AnswerRefused, AnswerLost, ReconcileConflict, ReconcileDuplicate, ReconcileFound,
     ReconcileNothing, ReconcileUnavailable, ReconcileAgain, Settle, Verify, Publish,
     RollbackProof, RollbackDelete, RollbackCheck, NothingToDelete, IdentityKnown, IdentityList,
     IdentityProof, IdentityDelete, IdentityCheck, IdentityNext, IdentityFails, Confirm, Report,
     DeleteById, litellm
<1>2. CASE RollbackProof
  <2>1. CASE pc' = "rollback_delete"
    <3>1. ProvenOwned(created[role]) /\ UNCHANGED <<created, role>>
      BY <1>2, <2>1 DEF RollbackProof, AfterRollback
    <3>2. PICK m \in models : m.owner = "run" /\ m.id = created[role]
      BY <3>1 DEF ProvenOwned, Owned, Listed
    <3>3. AboutToDelete' = {created[role]}
      BY <2>1, <3>1 DEF AboutToDelete
    <3> QED
      BY <1>1, <3>2, <3>3 DEF DeletesOwn
  <2>2. CASE pc' # "rollback_delete"
    <3>1. AboutToDelete' = {}
      BY <1>2, <2>2 DEF RollbackProof, AfterRollback, AboutToDelete
    <3> QED
      BY <1>1, <3>1 DEF DeletesOwn
  <2> QED
    BY <2>1, <2>2
<1>3. CASE IdentityProof
  <2>1. PICK id \in found \ {NoId} : /\ target' = IF ProvenOwned(id) THEN id ELSE target
                                     /\ pc' = IF ProvenOwned(id) THEN "identity_delete" ELSE pc
    BY <1>3 DEF IdentityProof
  <2>2. CASE ProvenOwned(id)
    <3>1. PICK m \in models : m.owner = "run" /\ m.id = id
      BY <2>2 DEF ProvenOwned, Owned, Listed
    <3>2. AboutToDelete' = {id}
      BY <2>1, <2>2 DEF AboutToDelete
    <3> QED
      BY <1>1, <3>1, <3>2 DEF DeletesOwn
  <2>3. CASE ~ProvenOwned(id)
    <3>1. AboutToDelete' = {}
      BY <1>3, <2>1, <2>3 DEF IdentityProof, AboutToDelete
    <3> QED
      BY <1>1, <3>1 DEF DeletesOwn
  <2> QED
    BY <2>2, <2>3
<1>4. CASE ~RollbackProof /\ ~IdentityProof
  <2>1. pc' \notin {"rollback_delete", "identity_delete"}
    BY <1>4 DEF Manager, TryBlock, ExceptBlock, Crash, Preflight, Recheck, Record, Post,
       AnswerCreated, AnswerRefused, AnswerLost, ReconcileConflict, ReconcileDuplicate,
       ReconcileFound, ReconcileNothing, ReconcileUnavailable, ReconcileAgain, Settle, Accept,
       Raise, Verify, Publish, RollbackDelete, RollbackCheck, NothingToDelete, IdentityKnown,
       IdentityList, IdentityDelete, IdentityCheck, IdentityNext, IdentityFails, Confirm, Report,
       AfterRollback, AfterIdentity
  <2>2. AboutToDelete' = {}
    BY <2>1 DEF AboutToDelete
  <2> QED
    BY <1>1, <2>2 DEF DeletesOwn
<1> QED
  BY <1>2, <1>3, <1>4

LEMMA DeletesOwnEnvironment == TypeOK /\ DeletesOwn /\ Environment => DeletesOwn'
<1> SUFFICES ASSUME TypeOK, DeletesOwn, Environment PROVE DeletesOwn'
  OBVIOUS
<1>1. AboutToDelete' = AboutToDelete
  BY DEF Environment, Apply, Discard, OtherRegisters, OtherWithdraws, manager, control, memory,
     deletion, AboutToDelete
<1>2. \/ models' \subseteq models /\ UNCHANGED issued
      \/ \E r \in Roles, owner \in Owners : AddModel(r, owner)
  BY DEF Environment, Apply, Discard, OtherRegisters, OtherWithdraws, Owners
<1>3. CASE models' \subseteq models /\ UNCHANGED issued
  BY <1>1, <1>3 DEF DeletesOwn
<1>4. ASSUME NEW r \in Roles, NEW owner \in Owners, AddModel(r, owner)
      PROVE  DeletesOwn'
  <2>1. PICK id \in Ids \ issued : /\ models' = models \cup {[id |-> id, role |-> r, owner |-> owner]}
                                  /\ issued' = issued \cup {id}
    BY <1>4 DEF AddModel
  <2> QED
    BY <1>1, <2>1 DEF DeletesOwn
<1> QED
  BY <1>2, <1>3, <1>4

(* Other clients' registrations are never deleted, for every policy and    *)
(* every timing of their requests between the provider's listings and its  *)
(* deletions: the id a deletion names was proven to be this run's, and an  *)
(* id never comes to stand for anything else.                              *)
THEOREM OthersAreKept == Spec => OthersKeepTheirModels
<1>1. Init => DeletesOwn
  BY DEF Init, DeletesOwn, AboutToDelete
<1>2. TypeOK /\ DeletesOwn /\ [Next]_vars => DeletesOwn'
  <2>1. DeletesOwn /\ UNCHANGED vars => DeletesOwn'
    BY DEF DeletesOwn, AboutToDelete, vars, litellm, manager, control, memory, deletion
  <2> QED
    BY <2>1, DeletesOwnManager, DeletesOwnEnvironment DEF Next
<1>3. DeletesOwn /\ [Next]_vars => [manager' # manager =>
         \A m \in models : m.owner = "other" => m \in models']_vars
  <2> SUFFICES ASSUME DeletesOwn, Next, manager' # manager, NEW m \in models, m.owner = "other"
               PROVE  m \in models'
    OBVIOUS
  <2>1. CASE TryBlock \/ Crash
    BY <2>1 DEF TryBlock, Crash, Preflight, Recheck, Record, Post, AnswerCreated,
       AnswerRefused, AnswerLost, ReconcileConflict, ReconcileDuplicate, ReconcileFound,
       ReconcileNothing, ReconcileUnavailable, ReconcileAgain, Settle, Verify, Publish,
       litellm
  <2>2. CASE ExceptBlock
    <3>1. \/ UNCHANGED models
          \/ pc = "rollback_delete" /\ DeleteById(created[role])
          \/ pc = "identity_delete" /\ DeleteById(target)
      BY <2>2 DEF ExceptBlock, RollbackProof, RollbackDelete, RollbackCheck, NothingToDelete,
         IdentityKnown, IdentityList, IdentityProof, IdentityDelete, IdentityCheck, IdentityNext,
         IdentityFails, Confirm, Report, litellm
    <3>2. \/ UNCHANGED models
          \/ \E id \in AboutToDelete : DeleteById(id)
      BY <3>1 DEF AboutToDelete
    <3> QED
      BY <3>2 DEF DeletesOwn, DeleteById
  <2>3. CASE Environment
    BY <2>3 DEF Environment, Apply, Discard, OtherRegisters, OtherWithdraws
  <2> QED
    BY <2>1, <2>2, <2>3 DEF Next, Manager
<1>4. Spec => []DeletesOwn
  BY <1>1, <1>2, TypeCorrect, PTL DEF Spec
<1> QED
  BY <1>3, <1>4, PTL DEF Spec, OthersKeepTheirModels

-----------------------------------------------------------------------------
(* Refinement of GatewayPromise. *)

LEMMA EnvironmentAddsNoRoute ==
  ASSUME TypeOK, Environment
  PROVE  Routes' \subseteq Routes /\ UNCHANGED PromisedOutcome
<1>1. PICK r \in Roles : \/ Apply(r) \/ Discard(r)
                         \/ OtherRegisters(r) \/ OtherWithdraws(r)
  BY DEF Environment
<1>2. UNCHANGED <<result, journalFault>>
  BY <1>1 DEF Apply, Discard, OtherRegisters, OtherWithdraws, manager, ending
<1>3. ASSUME NEW q \in Roles, Owned(q)' # {} \/ InFlight(q)'
      PROVE  Owned(q) # {} \/ InFlight(q)
  <2> USE <1>3 DEF Owned, Listed, InFlight, TypeOK, AddModel
  <2>1. CASE Apply(r)
    BY <2>1 DEF Apply
  <2>2. CASE Discard(r)
    BY <2>2 DEF Discard
  <2>3. CASE OtherRegisters(r)
    BY <2>3 DEF OtherRegisters
  <2>4. CASE OtherWithdraws(r)
    BY <2>4 DEF OtherWithdraws, Foreign
  <2> QED
    BY <1>1, <2>1, <2>2, <2>3, <2>4
<1> QED
  BY <1>2, <1>3 DEF PromisedOutcome, Routes

LEMMA EndingKeepsRoutes ==
  ASSUME SafeInv, SafeInv', [Next]_vars, result = "none", result' # "none"
  PROVE  Routes' = Routes
<1>1. Publish \/ Report
  BY DEF Next, Manager, TryBlock, ExceptBlock, Crash, Environment, vars, manager, disk,
     control, memory, deletion, ending, Preflight, Recheck, Record, Post, AnswerCreated,
     AnswerRefused, AnswerLost, ReconcileConflict, ReconcileDuplicate, ReconcileFound,
     ReconcileNothing, ReconcileUnavailable, ReconcileAgain, Settle, Accept, Verify,
     RollbackProof, RollbackDelete, RollbackCheck, NothingToDelete, IdentityKnown,
     IdentityList, IdentityProof, IdentityDelete, IdentityCheck, IdentityNext, IdentityFails, Confirm,
     Apply, Discard, OtherRegisters, OtherWithdraws
<1>2. UNCHANGED litellm
  BY <1>1 DEF Publish, Report
<1> QED
  BY <1>2 DEF litellm, Routes, Owned, Listed, InFlight

LEMMA AfterTheEnd ==
  ASSUME SafeInv, Next, result # "none"
  PROVE  Environment
<1>1. pc = "done"
  BY DEF SafeInv, CleanupPosition
<1> QED
  BY <1>1 DEF Next, Manager, TryBlock, ExceptBlock, Crash, Preflight, Recheck, Record, Post,
     AnswerCreated, AnswerRefused, AnswerLost, ReconcileConflict, ReconcileDuplicate,
     ReconcileFound, ReconcileNothing, ReconcileUnavailable, Verify, Publish, NeedsIdentity,
     RollbackProof, RollbackDelete, RollbackCheck, NothingToDelete, IdentityKnown, IdentityList,
     IdentityProof, IdentityDelete, IdentityCheck, IdentityNext, IdentityFails, Confirm,
     Report

LEMMA RoutesAtTheEnd ==
  ASSUME GraceSuffices, SafeInv
  PROVE  /\ PromisedOutcome = "ready" => Routes = Roles
         /\ PromisedOutcome = "released" => Routes = {}
<1>1. CASE result = "ready"
  BY <1>1 DEF SafeInv, RegisteredSoFar, ReadyIsComplete, Routes, PromisedOutcome
<1>2. CASE result = "failed" /\ ~journalFault
  <2>1. \A r \in Roles : Owned(r) = {} /\ ~InFlight(r)
    BY <1>2 DEF SafeInv, CleanupPosition, VerifiedIsClean, Attempted, CoreInv,
       UnattemptedIsClean, InFlight
  <2> QED
    BY <1>2, <2>1 DEF Routes, PromisedOutcome
<1> QED
  BY <1>1, <1>2 DEF SafeInv, CoreInv, TypeOK, PromisedOutcome

LEMMA PromiseStep ==
  ASSUME GraceSuffices, SafeInv, SafeInv', [Next]_vars
  PROVE  [Promise!PromiseNext]_(Promise!promise)
<1> USE DEF Promise!PromiseNext, Promise!promise
<1>0. Routes' \in SUBSET Promise!Role
  BY DEF Routes, Roles, Promise!Role
<1>1. CASE UNCHANGED vars
  BY <1>1 DEF vars, litellm, manager, control, memory, deletion, disk, ending, Routes,
     PromisedOutcome, Owned, Listed, InFlight
<1>2. CASE result = "none" /\ result' = "none"
  BY <1>0, <1>2 DEF PromisedOutcome, Promise!Work
<1>3. CASE result = "none" /\ result' # "none"
  <2>1. Routes' = Routes /\ PromisedOutcome = "working"
    BY <1>3, EndingKeepsRoutes DEF PromisedOutcome
  <2>2. /\ PromisedOutcome' = "ready" => Routes = Promise!Role
        /\ PromisedOutcome' = "released" => Routes = {}
    <3>1. /\ PromisedOutcome' = "ready" => Routes' = Roles
          /\ PromisedOutcome' = "released" => Routes' = {}
      <4>1. result' \in {"ready", "failed", "cleanup_unverified"}
        BY <1>3 DEF SafeInv, CoreInv, TypeOK
      <4>2. CASE result' = "ready"
        BY <4>2 DEF SafeInv, RegisteredSoFar, ReadyIsComplete, Routes, PromisedOutcome
      <4>3. CASE result' = "failed" /\ ~journalFault'
        <5>1. \A r \in Roles : Owned(r)' = {} /\ ~InFlight(r)'
          BY <4>3 DEF SafeInv, CleanupPosition, VerifiedIsClean, Attempted, CoreInv,
             UnattemptedIsClean, InFlight
        <5> QED
          BY <4>3, <5>1 DEF Routes, PromisedOutcome
      <4> QED
        BY <4>1, <4>2, <4>3 DEF PromisedOutcome
    <3> QED
      BY <2>1, <3>1 DEF Roles, Promise!Role
  <2>3. PromisedOutcome' \in {"ready", "released", "held", "faulted"}
    BY <1>3 DEF SafeInv, CoreInv, TypeOK, PromisedOutcome
  <2> QED
    BY <2>1, <2>2, <2>3 DEF Promise!ReturnReady, Promise!RaiseReleased, Promise!RaiseHeld,
       Promise!RaiseFaulted
<1>4. CASE result # "none" /\ Next
  <2>1. Routes' \subseteq Routes /\ UNCHANGED PromisedOutcome
    BY <1>4, AfterTheEnd, EnvironmentAddsNoRoute DEF SafeInv, CoreInv
  <2>2. PromisedOutcome \in {"ready", "released", "held", "faulted"}
    BY <1>4 DEF SafeInv, CoreInv, TypeOK, PromisedOutcome
  <2>3. CASE PromisedOutcome \in {"held", "faulted"}
    BY <2>1, <2>3 DEF Promise!Fade
  <2>4. CASE PromisedOutcome = "released"
    BY <2>1, <2>4, RoutesAtTheEnd
  <2>5. CASE PromisedOutcome = "ready"
    <3>1. result = "ready" /\ result' = "ready"
      BY <1>4, <2>5, AfterTheEnd DEF PromisedOutcome, SafeInv, CoreInv, TypeOK, Environment,
         Apply, Discard, OtherRegisters, OtherWithdraws, manager, ending
    <3>2. Routes = Roles /\ Routes' = Roles
      BY <3>1 DEF SafeInv, RegisteredSoFar, ReadyIsComplete, Routes
    <3> QED
      BY <2>1, <3>2
  <2> QED
    BY <2>2, <2>3, <2>4, <2>5
<1> QED
  BY <1>1, <1>2, <1>3, <1>4

(* GatewayManager with LiteLLMProvider implements the promise the          *)
(* controller relies on: ready means both routes, released means none, and *)
(* no route appears after the call has ended.                              *)
THEOREM ImplementsPromise ==
  ASSUME GraceSuffices
  PROVE  Spec => KeepsPromise
<1>1. Init => Promise!PromiseInit
  BY DEF Init, Promise!PromiseInit, Routes, PromisedOutcome, Owned, Listed, InFlight
<1>2. SafeInv /\ SafeInv' /\ [Next]_vars => [Promise!PromiseNext]_(Promise!promise)
  BY PromiseStep
<1> QED
  BY <1>1, <1>2, SafeInvariant, PTL DEF Spec, KeepsPromise, Promise!PromiseSpec

-----------------------------------------------------------------------------
(* What "absent" in the journal is worth. *)

AbsentInv ==
  /\ CoreInv
  /\ pc = "reconcile" => pending[role] < polls
  /\ \A r \in Roles : attempt[r] = "absent" => Owned(r) = {} /\ ~InFlight(r)
  /\ \A r \in Roles : journal.attempt[r] = "absent" => attempt[r] = "absent"

RefusalSettles == RefusalIsFinal /\ MaxDelay < PollAttempts

LEMMA AbsentTry == RefusalSettles /\ AbsentInv /\ CoreInv' /\ (TryBlock) => AbsentInv'
<1> SUFFICES ASSUME RefusalSettles, AbsentInv, CoreInv', TryBlock PROVE AbsentInv'
  OBVIOUS
<1> USE ConstantsAssumption
    DEF RefusalSettles, AbsentInv, CoreInv, TypeOK, litellm, manager, control,
        memory, deletion, disk, ending, LoopPosition, UnattemptedIsClean, InFlight, Roles,
        Owned, Listed, Raise, WriteJournal, Foreign
<1>1. CASE Preflight
  BY <1>1 DEF Preflight
<1>2. CASE Recheck
  BY <1>2 DEF Recheck
<1>3. CASE Record
  BY <1>3 DEF Record
<1>4. CASE Post
  BY <1>4 DEF Post
<1>5. CASE AnswerCreated
  BY <1>5 DEF AnswerCreated, Accept
<1>6. CASE AnswerRefused
  BY <1>6 DEF AnswerRefused
<1>7. CASE AnswerLost
  BY <1>7 DEF AnswerLost
<1>8. CASE ReconcileConflict
  BY <1>8 DEF ReconcileConflict, Settle
<1>9. CASE ReconcileDuplicate
  BY <1>9 DEF ReconcileDuplicate, Settle
<1>10. CASE ReconcileFound
  BY <1>10 DEF ReconcileFound, Accept
<1>11. CASE ReconcileNothing
  BY <1>11 DEF ReconcileNothing, ReconcileAgain, Settle, Sleep
<1>12. CASE ReconcileUnavailable
  BY <1>12 DEF ReconcileUnavailable, ReconcileAgain, Settle, Sleep
<1>13. CASE Verify
  BY <1>13 DEF Verify
<1>14. CASE Publish
  <2>1. journal' = journal \/ journal'.attempt = attempt
    <3>1. CASE UNCHANGED journal
      BY <3>1
    <3>2. CASE journal' = [status |-> "ready", attempt |-> attempt]
      BY <3>2
    <3> QED
      BY <1>14, <3>1, <3>2 DEF Publish
  <2>2. UNCHANGED <<litellm, memory>> /\ pc' # "reconcile"
    BY <1>14 DEF Publish
  <2> QED
    BY <2>1, <2>2
<1> QED
  BY <1>1, <1>2, <1>3, <1>4, <1>5, <1>6, <1>7, <1>8, <1>9, <1>10, <1>11, <1>12, <1>13, <1>14 DEF TryBlock, ExceptBlock

LEMMA AbsentExcept == RefusalSettles /\ AbsentInv /\ CoreInv' /\ (ExceptBlock \/ Crash) => AbsentInv'
<1> SUFFICES ASSUME RefusalSettles, AbsentInv, CoreInv', ExceptBlock \/ Crash PROVE AbsentInv'
  OBVIOUS
<1> USE ConstantsAssumption
    DEF RefusalSettles, AbsentInv, CoreInv, TypeOK, litellm, manager, control,
        memory, deletion, disk, ending, LoopPosition, UnattemptedIsClean, InFlight, Roles,
        Owned, Listed, AfterRollback, AfterIdentity
<1>1. CASE RollbackProof
  BY <1>1 DEF RollbackProof
<1>2. CASE NothingToDelete
  BY <1>2 DEF NothingToDelete
<1>3. CASE IdentityKnown
  BY <1>3 DEF IdentityKnown
<1>4. CASE IdentityNext
  BY <1>4 DEF IdentityNext, Sleep
<1>5. CASE IdentityFails
  BY <1>5 DEF IdentityFails, NeedsIdentity, DeleteById
<1>6. CASE Confirm
  BY <1>6 DEF Confirm
<1>7. CASE Report
  <2>1. journal' = journal \/ journal'.attempt = attempt
    BY <1>7 DEF Report, WriteJournal
  <2>2. UNCHANGED <<litellm, memory>> /\ pc' = "done"
    BY <1>7 DEF Report
  <2> QED
    BY <2>1, <2>2
<1>8. CASE Crash
  BY <1>8 DEF Crash
<1>9. CASE RollbackDelete
  BY <1>9 DEF RollbackDelete, DeleteById
<1>10. CASE RollbackCheck
  BY <1>10 DEF RollbackCheck
<1>11. CASE IdentityList
  BY <1>11 DEF IdentityList, NeedsIdentity
<1>12. CASE IdentityProof
  BY <1>12 DEF IdentityProof
<1>13. CASE IdentityDelete
  BY <1>13 DEF IdentityDelete, DeleteById
<1>14. CASE IdentityCheck
  BY <1>14 DEF IdentityCheck
<1> QED
  BY <1>1, <1>2, <1>3, <1>4, <1>5, <1>6, <1>7, <1>8, <1>9, <1>10, <1>11, <1>12, <1>13, <1>14
     DEF ExceptBlock

LEMMA AbsentEnvironment == RefusalSettles /\ AbsentInv /\ CoreInv' /\ Environment => AbsentInv'
<1> SUFFICES ASSUME RefusalSettles, AbsentInv, CoreInv', NEW r \in Roles,
                    \/ Apply(r) \/ Discard(r)
                    \/ OtherRegisters(r) \/ OtherWithdraws(r)
             PROVE  AbsentInv'
  BY DEF Environment
<1> USE ConstantsAssumption
    DEF RefusalSettles, AbsentInv, CoreInv, TypeOK, litellm, manager, control,
        memory, deletion, disk, ending, LoopPosition, UnattemptedIsClean, InFlight, Roles,
        Owned, Listed, Foreign, AddModel
<1>1. CASE Apply(r)
  BY <1>1 DEF Apply
<1>2. CASE Discard(r)
  BY <1>2 DEF Discard
<1>3. CASE OtherRegisters(r)
  BY <1>3 DEF OtherRegisters
<1>4. CASE OtherWithdraws(r)
  BY <1>4 DEF OtherWithdraws
<1> QED
  BY <1>1, <1>2, <1>3, <1>4

LEMMA AbsentInvariant == ASSUME RefusalSettles PROVE Spec => []AbsentInv
<1>1. Init => AbsentInv
  BY TypeInit DEF Init, AbsentInv, CoreInv, UnattemptedIsClean, JournalCovers,
     RecordedBeforeSent, LoopPosition, TryPc, InFlight, Roles, Owned, Listed
<1>2. AbsentInv /\ CoreInv' /\ [Next]_vars => AbsentInv'
  <2>1. AbsentInv /\ CoreInv' /\ UNCHANGED vars => AbsentInv'
    BY DEF AbsentInv, InFlight, Owned, Listed, vars, litellm, manager, control, memory,
       disk, ending
  <2> QED
    BY <2>1, AbsentTry, AbsentExcept, AbsentEnvironment DEF Next, Manager
<1> QED
  BY <1>1, <1>2, CoreInvariant, PTL DEF Spec

(* When an HTTP error answer is final and LiteLLM acts within the grace    *)
(* period, a role that registration.json calls absent, or does not name,   *)
(* stays without a registration of this run, whatever the policy and       *)
(* however often LiteLLM acts on one request.                              *)
THEOREM AbsentIsAbsentForGood ==
  ASSUME RefusalSettles
  PROVE  Spec => []AbsentStaysAbsent
<1>1. AbsentInv => AbsentStaysAbsent
  BY DEF AbsentInv, AbsentStaysAbsent, CoreInv, JournalCovers, RecordedBeforeSent
<1> QED
  BY <1>1, AbsentInvariant, PTL

-----------------------------------------------------------------------------
(* What the status of a failure is worth without the cleanup policy.       *)

\* Nothing registered is removed again.
RegisteredStays ==
  /\ pc \in TryPc \cup {"report", "done", "crashed"}
  /\ \A r \in Roles : created[r] # "none" => Owned(r) # {}

\* The loop reaches the second role only with the first one registered.
BaseFirst ==
  /\ created["base"] = "none" =>
       /\ attempt["fine_tuned"] = "none" /\ created["fine_tuned"] = "none"
       /\ pc \in TryPc => role = "base"
  /\ pc \in {"verify", "publish"} => role = "fine_tuned"

SettledOutcomes == {"created", "created_after_ambiguous_response"}

\* The records are the attempts that settled; one that was never sent has
\* left nothing at LiteLLM.
AttemptsAreTrue ==
  /\ \A r \in Roles : created[r] # "none" <=> attempt[r] \in SettledOutcomes
  /\ pc \notin {"await", "reconcile", "crashed"} =>
       \A r \in Roles : attempt[r] = "attempting" => Owned(r) = {} /\ copies[r] = 0

\* A failed call has written its attempts, and a status that counts them.
StatusPosition ==
  /\ Attempted = {} => journal.status = "missing"
  /\ result = "failed" => pc = "done"
  /\ result = "failed" /\ ~journalFault =>
       /\ Attempted # {} => journal.status = ReportStatus
       /\ \A r \in Roles : journal.attempt[r] = attempt[r]

StatusInv == RegisteredStays /\ BaseFirst /\ AttemptsAreTrue /\ StatusPosition

LEMMA StatusTry == ~CleanupOnFailure /\ CoreInv /\ StatusInv /\ TryBlock => StatusInv'
<1> SUFFICES ASSUME ~CleanupOnFailure, CoreInv, StatusInv, TryBlock PROVE StatusInv'
  OBVIOUS
<1> USE ConstantsAssumption
    DEF StatusInv, RegisteredStays, BaseFirst, AttemptsAreTrue, SettledOutcomes, StatusPosition, CoreInv,
        TypeOK, UnattemptedIsClean, LoopPosition, TryPc, litellm, manager, control, memory, deletion, disk,
        ending, Roles, Owned, Listed, Attempted, Raise, WriteJournal
<1>1. CASE Preflight
  BY <1>1 DEF Preflight
<1>2. CASE Recheck
  BY <1>2 DEF Recheck
<1>3. CASE Record
  BY <1>3 DEF Record
<1>4. CASE Post
  BY <1>4 DEF Post
<1>5. ASSUME UNCHANGED <<models, copies>>, pc \in {"await", "reconcile"}, Owned(role) # {},
             NEW id \in Ids \cup {NoId}, NEW outcome \in SettledOutcomes, Accept(id, outcome)
      PROVE  StatusInv'
  <2>1. /\ created' = [created EXCEPT ![role] = id] /\ id # "none"
        /\ attempt' = [attempt EXCEPT ![role] = outcome]
    BY <1>5 DEF Accept
  <2>2. result # "failed" /\ UNCHANGED result
    BY <1>5 DEF Accept
  <2>3. pc' \in {"recheck", "verify", "report"} /\ role' = "fine_tuned"
    BY <1>5 DEF Accept
  <2>4. RegisteredStays'
    BY <1>5, <2>1, <2>3
  <2>5. BaseFirst'
    BY <1>5, <2>1, <2>3
  <2>6. AttemptsAreTrue'
    BY <1>5, <2>1, <2>3
  <2>7. StatusPosition'
    BY <1>5, <2>1, <2>2
  <2> QED
    BY <2>4, <2>5, <2>6, <2>7
<1>6. CASE AnswerCreated
  <2>1. PICK m \in Owned(role) : \E id \in {IdOf(m), NoId} : Accept(id, "created")
    BY <1>6 DEF AnswerCreated
  <2>2. m.id \in Ids
    BY <2>1 DEF Model
  <2> QED
    BY <1>5, <1>6, <2>1, <2>2 DEF AnswerCreated, IdOf
<1>7. CASE AnswerRefused \/ AnswerLost
  BY <1>7 DEF AnswerRefused, AnswerLost
<1>8. ASSUME UNCHANGED <<models, copies>>, pc = "reconcile",
             NEW outcome \in {"conflict", "indeterminate", "absent"}, Settle(outcome)
      PROVE  StatusInv'
  BY <1>8 DEF Settle
<1>9. CASE ReconcileConflict
  BY <1>8, <1>9 DEF ReconcileConflict
<1>10. CASE ReconcileDuplicate
  BY <1>8, <1>10 DEF ReconcileDuplicate
<1>11. CASE ReconcileFound
  <2>1. PICK m \in Owned(role) : Accept(IdOf(m), "created_after_ambiguous_response")
    BY <1>11 DEF ReconcileFound
  <2>2. IdOf(m) \in Ids \cup {NoId}
    BY <2>1 DEF Model, IdOf
  <2> QED
    BY <1>5, <1>11, <2>1, <2>2 DEF ReconcileFound
<1>12. CASE ReconcileNothing \/ ReconcileUnavailable
  BY <1>8, <1>12 DEF ReconcileNothing, ReconcileUnavailable, ReconcileAgain
<1>13. CASE Verify
  BY <1>13 DEF Verify
<1>14. CASE Publish
  <2>1. UNCHANGED <<models, copies, attempt, created>> /\ pc' \in {"done", "report"} /\ pc = "publish"
    BY <1>14 DEF Publish
  <2>2. result # "failed" /\ result' # "failed"
    BY <1>14 DEF Publish
  <2>3. created["base"] # "none" /\ attempt["base"] # "none"
    BY <2>1
  <2> QED
    BY <2>1, <2>2, <2>3
<1> QED
  BY <1>1, <1>2, <1>3, <1>4, <1>6, <1>7, <1>9, <1>10, <1>11, <1>12, <1>13, <1>14 DEF TryBlock

LEMMA StatusExcept == CoreInv /\ StatusInv /\ (ExceptBlock \/ Crash) => StatusInv'
<1> SUFFICES ASSUME CoreInv, StatusInv, ExceptBlock \/ Crash PROVE StatusInv'
  OBVIOUS
<1> USE DEF StatusInv, RegisteredStays, BaseFirst, AttemptsAreTrue, StatusPosition, CoreInv, TypeOK, TryPc,
            UnattemptedIsClean, litellm, memory, deletion, disk, ending, Roles, Owned, Listed, Attempted
<1>1. CASE Report
  <2>1. UNCHANGED <<litellm, attempt, created>> /\ pc = "report" /\ pc' = "done"
    BY <1>1 DEF Report
  <2>2. Attempted' = Attempted /\ ReportStatus' = ReportStatus
    BY <2>1 DEF ReportStatus, CreatedRoles
  <2>3. Attempted = {} => UNCHANGED journal
    BY <1>1 DEF Report
  <2>4. ~journalFault' /\ Attempted # {} => journal' = [status |-> ReportStatus, attempt |-> attempt]
    BY <1>1, <2>1 DEF Report, WriteJournal
  <2>5. StatusPosition'
    BY <2>1, <2>2, <2>3, <2>4
  <2> QED
    BY <2>1, <2>5
<1>2. CASE Crash
  <2>1. UNCHANGED <<litellm, memory, disk, ending>> /\ pc' = "crashed" /\ result # "failed"
    BY <1>2 DEF Crash
  <2> QED
    BY <2>1
<1> QED
  BY <1>1, <1>2 DEF ExceptBlock, RollbackProof, RollbackDelete, RollbackCheck, NothingToDelete,
     IdentityKnown, NeedsIdentity, IdentityList, IdentityProof, IdentityDelete, IdentityCheck,
     IdentityNext, IdentityFails, Confirm

LEMMA StatusEnvironment == CoreInv /\ StatusInv /\ Environment => StatusInv'
<1> SUFFICES ASSUME CoreInv, StatusInv, Environment PROVE StatusInv'
  OBVIOUS
<1>1. \A m \in models : m \in models' \/ m.owner # "run"
  BY DEF Environment, Apply, Discard, OtherRegisters, OtherWithdraws, AddModel, Foreign, Listed, Owned
<1>2. UNCHANGED manager
  BY DEF Environment, Apply, Discard, OtherRegisters, OtherWithdraws
<1>3. \A r \in Roles : Owned(r) \subseteq Owned(r)'
  BY <1>1 DEF Owned, Listed
<1>4. \A r \in Roles : Owned(r) = {} /\ copies[r] = 0 => Owned(r)' = {} /\ copies'[r] = 0
  BY DEF Environment, Apply, Discard, OtherRegisters, OtherWithdraws, AddModel, Foreign, InFlight, Owned,
         Listed, CoreInv, TypeOK
<1>5. Attempted' = Attempted /\ ReportStatus' = ReportStatus
  BY <1>2 DEF Attempted, ReportStatus, CreatedRoles, manager, memory
<1> QED
  BY <1>2, <1>3, <1>4, <1>5
     DEF StatusInv, RegisteredStays, BaseFirst, AttemptsAreTrue, StatusPosition, manager, control, memory,
         disk, ending

LEMMA StatusInvariant == ASSUME ~CleanupOnFailure PROVE Spec => []StatusInv
<1>1. Init => StatusInv
  BY DEF Init, StatusInv, RegisteredStays, BaseFirst, AttemptsAreTrue, SettledOutcomes, StatusPosition,
         TryPc, Roles
<1>2. CoreInv /\ StatusInv /\ UNCHANGED vars => StatusInv'
  <2> SUFFICES ASSUME StatusInv, UNCHANGED vars PROVE StatusInv'
    OBVIOUS
  <2>1. Attempted' = Attempted /\ ReportStatus' = ReportStatus
    BY DEF Attempted, ReportStatus, CreatedRoles, vars, manager, memory
  <2> QED
    BY <2>1 DEF StatusInv, RegisteredStays, BaseFirst, AttemptsAreTrue, StatusPosition, vars, litellm,
       manager, control, memory, disk, ending, Owned, Listed
<1>3. CoreInv /\ StatusInv /\ [Next]_vars => StatusInv'
  BY <1>2, StatusTry, StatusExcept, StatusEnvironment DEF Next, Manager
<1> QED
  BY <1>1, <1>3, CoreInvariant, PTL DEF Spec

(* When an error answer is final and LiteLLM acts within the grace period, a *)
(* failed call without the cleanup policy leaves a registration.json that    *)
(* accounts for both roles: what it calls created is registered, nothing     *)
(* else is registered or in flight except behind an attempt it calls         *)
(* conflict or indeterminate, and its status counts them accordingly.        *)
THEOREM StatusTellsRoutes ==
  ASSUME RefusalSettles
  PROVE  Spec => []FailureStatusMatchesRoutes
<1>1. CASE CleanupOnFailure
  <2>1. FailureStatusMatchesRoutes
    BY <1>1 DEF FailureStatusMatchesRoutes
  <2> QED
    BY <2>1, PTL
<1>2. CASE ~CleanupOnFailure
  <2>1. AbsentInv /\ StatusInv => FailureStatusMatchesRoutes
    <3> SUFFICES ASSUME AbsentInv, StatusInv, result = "failed", ~journalFault
                 PROVE  FailureStatusMatchesRoutes
      BY DEF FailureStatusMatchesRoutes
    <3>1. \A r \in Roles : journal.attempt[r] = attempt[r] /\ attempt[r] \in AttemptOutcomes \cup {"none"}
      BY DEF StatusInv, StatusPosition, AbsentInv, CoreInv, TypeOK
    <3>2. \A r \in Roles : attempt[r] \in SettledOutcomes <=> created[r] # "none"
      BY DEF StatusInv, AttemptsAreTrue
    <3>3. \A r \in Roles : created[r] # "none" => Owned(r) # {}
      BY DEF StatusInv, RegisteredStays
    <3>4. ASSUME NEW r \in Routes
          PROVE  attempt[r] \in SettledOutcomes \cup {"conflict", "indeterminate"}
      <4>1. attempt[r] # "none" /\ attempt[r] # "absent"
        BY <3>4 DEF Routes, AbsentInv, CoreInv, UnattemptedIsClean, InFlight
      <4>2. attempt[r] # "attempting"
        BY <3>4 DEF Routes, StatusInv, StatusPosition, AttemptsAreTrue, InFlight
      <4> QED
        BY <3>1, <4>1, <4>2, <3>4 DEF Routes, AttemptOutcomes, SettledOutcomes
    <3>5. IF Attempted = {} THEN journal.status = "missing" ELSE journal.status = ReportStatus
      BY DEF StatusInv, StatusPosition
    <3>6. created["fine_tuned"] # "none" => created["base"] # "none"
      BY DEF StatusInv, BaseFirst
    <3>7. /\ journal.status = "indeterminate_failed" <=> \E r \in Roles : attempt[r] = "indeterminate"
          /\ journal.status = "registration_failed" => \A r \in Roles : created[r] = "none"
          /\ journal.status = "partial_failed" => created["base"] # "none" /\ created["fine_tuned"] = "none"
          /\ journal.status = "verification_failed" => \A r \in Roles : created[r] # "none"
      <4>1. CASE Attempted = {}
        BY <3>5, <4>1 DEF Attempted
      <4>2. CASE \E r \in Roles : attempt[r] = "indeterminate"
        BY <3>5, <4>2 DEF Attempted, ReportStatus
      <4>3. CASE Attempted # {} /\ ~\E r \in Roles : attempt[r] = "indeterminate"
        <5>1. CASE CreatedRoles = {}
          <6>1. journal.status = "registration_failed"
            BY <3>5, <4>3, <5>1 DEF ReportStatus, Roles
          <6> QED
            BY <4>3, <5>1, <6>1 DEF CreatedRoles
        <5>2. CASE CreatedRoles = Roles
          <6>1. journal.status = "verification_failed"
            BY <3>5, <4>3, <5>2 DEF ReportStatus, Roles
          <6> QED
            BY <4>3, <5>2, <6>1 DEF CreatedRoles
        <5>3. CASE CreatedRoles \notin {{}, Roles}
          <6>1. journal.status = "partial_failed"
            BY <3>5, <4>3, <5>3 DEF ReportStatus
          <6> QED
            BY <3>6, <4>3, <5>3, <6>1 DEF CreatedRoles, Roles
        <5> QED
          BY <5>1, <5>2, <5>3
      <4> QED
        BY <4>1, <4>2, <4>3
    <3> HIDE DEF Routes
    <3>8. Routes \subseteq Roles
      BY DEF Routes
    <3> QED
      BY <3>1, <3>2, <3>3, <3>4, <3>7, <3>8 DEF FailureStatusMatchesRoutes, JournalSays, SettledOutcomes, Roles
  <2> QED
    BY <1>2, <2>1, AbsentInvariant, StatusInvariant, PTL
<1> QED
  BY <1>1, <1>2

-----------------------------------------------------------------------------
(* How long a call can take.  The stages of register_and_verify in the     *)
(* order of the code, within a stage that polls the polls left, and within *)
(* a poll of the cleanup the requests left for what it listed.             *)

Stage ==
  CASE pc = "preflight" -> 24
    [] pc = "recheck" -> IF role = "base" THEN 23 ELSE 18
    [] pc = "record" -> IF role = "base" THEN 22 ELSE 17
    [] pc = "post" -> IF role = "base" THEN 21 ELSE 16
    [] pc = "await" -> IF role = "base" THEN 20 ELSE 15
    [] pc = "reconcile" -> IF role = "base" THEN 19 ELSE 14
    [] pc = "verify" -> 13
    [] pc = "publish" -> 12
    [] pc = "rollback" -> IF role = "fine_tuned" THEN 11 ELSE 8
    [] pc = "rollback_delete" -> IF role = "fine_tuned" THEN 10 ELSE 7
    [] pc = "rollback_check" -> IF role = "fine_tuned" THEN 9 ELSE 6
    [] pc \in PollPc -> IF role = "fine_tuned" THEN 5 ELSE 3
    [] pc = "confirm" -> IF role = "fine_tuned" THEN 4 ELSE 2
    [] pc = "report" -> 1
    [] pc \in {"done", "crashed"} -> 0

PollingPc == PollPc \cup {"reconcile"}

RoundsLeft == Stage * (PollAttempts + 1) + (IF pc \in PollingPc THEN polls ELSE 0)

\* A poll lists at most this many different ids, and an id takes three
\* requests: listing, deletion, listing.
ListedAtMost == Cardinality(Ids \cup {NoId})
PollAtMost == 3 * ListedAtMost + 3

RequestsLeft ==
  CASE pc = "identity" -> PollAtMost
    [] pc = "identity_items" -> 3 * Cardinality(found)
    [] pc = "identity_delete" -> 3 * Cardinality(found) + 2
    [] pc = "identity_check" -> 3 * Cardinality(found) + 1
    [] OTHER -> 0

StepsLeft == RoundsLeft * (PollAtMost + 1) + RequestsLeft

PollsLast == pc \in PollingPc \cup {"confirm"} => polls > 0

LaterStage == Stage' < Stage
NextPoll == Stage' = Stage /\ pc \in PollingPc /\ pc' \in PollingPc /\ polls' < polls
NextRequest ==
  Stage' = Stage /\ pc \in PollPc /\ pc' \in PollPc /\ polls' = polls /\ RequestsLeft' < RequestsLeft

FiniteIds == IsFiniteSet(Ids)

LEMMA Counted ==
  ASSUME FiniteIds, NEW S \in SUBSET (Ids \cup {NoId})
  PROVE  /\ IsFiniteSet(S) /\ Cardinality(S) \in Nat
         /\ ListedAtMost \in Nat /\ Cardinality(S) <= ListedAtMost
<1>1. IsFiniteSet(Ids \cup {NoId})
  BY FS_AddElement DEF FiniteIds
<1> QED
  BY <1>1, FS_Subset, FS_CardinalityType DEF ListedAtMost

LEMMA StageIsNat == TypeOK => Stage \in 0..24 /\ (pc \in PollingPc => Stage \in 0..19)
BY DEF TypeOK, Stage, Roles, PollingPc, PollPc

LEMMA RoundsAreNat ==
  ASSUME TypeOK
  PROVE  /\ RoundsLeft \in Nat /\ RoundsLeft <= 24 * (PollAttempts + 1)
         /\ pc \in PollPc => RoundsLeft < 24 * (PollAttempts + 1)
<1>1. Stage \in 0..24 /\ (pc \in PollingPc => Stage \in 0..19)
  BY StageIsNat
<1>2. polls \in 0..PollAttempts /\ PollAttempts \in Nat
  BY ConstantsAssumption DEF TypeOK
<1> HIDE DEF Stage
<1> QED
  BY <1>1, <1>2 DEF RoundsLeft, PollingPc

LEMMA RequestsAreNat ==
  ASSUME TypeOK, FiniteIds
  PROVE  PollAtMost \in Nat /\ RequestsLeft \in 0..PollAtMost
<1>1. Cardinality(found) \in Nat /\ ListedAtMost \in Nat /\ Cardinality(found) <= ListedAtMost
  BY Counted DEF TypeOK
<1> QED
  BY <1>1 DEF PollAtMost, RequestsLeft

LEMMA StepsAreNat ==
  ASSUME TypeOK, FiniteIds
  PROVE  StepsLeft \in 0..24 * (PollAttempts + 1) * (PollAtMost + 1)
<1>1. RoundsLeft \in Nat /\ PollAtMost \in Nat /\ RequestsLeft \in 0..PollAtMost /\ PollAttempts \in Nat
  BY RoundsAreNat, RequestsAreNat, ConstantsAssumption
<1>2. 24 * (PollAttempts + 1) \in Nat
  BY <1>1
<1>3. CASE RoundsLeft < 24 * (PollAttempts + 1)
  BY <1>1, <1>2, <1>3, Lexicographic DEF StepsLeft
<1>4. CASE RoundsLeft = 24 * (PollAttempts + 1)
  <2>1. pc \notin PollPc
    BY <1>4, RoundsAreNat
  <2>2. RequestsLeft = 0
    BY <2>1 DEF RequestsLeft, PollPc
  <2> QED
    BY <1>1, <1>4, <2>2 DEF StepsLeft
<1> QED
  BY <1>1, <1>2, <1>3, <1>4, RoundsAreNat

LEMMA StageDescends ==
  ASSUME TypeOK, TypeOK', FiniteIds, LaterStage \/ NextPoll \/ NextRequest
  PROVE  StepsLeft' < StepsLeft
<1> DEFINE L == IF pc \in PollingPc THEN polls ELSE 0
<1>1. Stage \in Nat /\ Stage' \in Nat
  <2>1. Stage' \in 0..24
    BY DEF TypeOK, Stage, Roles, PollPc
  <2> QED
    BY <2>1, StageIsNat
<1>2. L \in 0..PollAttempts /\ L' \in 0..PollAttempts /\ PollAttempts \in Nat
  BY ConstantsAssumption DEF TypeOK
<1>3. RoundsLeft = Stage * (PollAttempts + 1) + L /\ RoundsLeft' = Stage' * (PollAttempts + 1) + L'
  BY DEF RoundsLeft
<1>4. RoundsLeft \in Nat /\ RoundsLeft' \in Nat
  <2> HIDE DEF L
  <2>0. \A a, b \in Nat : a * (b + 1) \in Nat
    OBVIOUS
  <2>1. Stage * (PollAttempts + 1) \in Nat /\ Stage' * (PollAttempts + 1) \in Nat
    BY <1>1, <1>2, <2>0, Zenon
  <2> QED
    BY <1>2, <1>3, <2>1
<1>5. PollAtMost \in Nat /\ PollAtMost' = PollAtMost /\ RequestsLeft \in 0..PollAtMost
      /\ RequestsLeft' \in 0..PollAtMost
  <2>1. Cardinality(found') \in Nat /\ ListedAtMost \in Nat /\ Cardinality(found') <= ListedAtMost
    BY Counted DEF TypeOK
  <2>2. RequestsLeft' \in 0..PollAtMost
    BY <2>1 DEF PollAtMost, RequestsLeft
  <2> QED
    BY <2>2, RequestsAreNat DEF PollAtMost, ListedAtMost
<1>6. ASSUME RoundsLeft' < RoundsLeft PROVE StepsLeft' < StepsLeft
  <2>0. RequestsLeft \in Nat
    BY <1>5
  <2>1. RoundsLeft' * (PollAtMost + 1) + RequestsLeft' < RoundsLeft * (PollAtMost + 1) + RequestsLeft
    BY <2>0, <1>4, <1>5, <1>6, Lexicographic, ZenonT(30)
  <2> QED
    BY <1>5, <2>1 DEF StepsLeft
<1>7. CASE LaterStage
  <2> HIDE DEF L
  <2>1. Stage' < Stage /\ L \in Nat
    BY <1>2, <1>7 DEF LaterStage
  <2>2. RoundsLeft' < RoundsLeft
    BY <1>1, <1>2, <1>3, <2>1, Lexicographic, ZenonT(30)
  <2> QED
    BY <1>6, <2>2
<1>8. CASE NextPoll
  <2>1. L' < L /\ Stage' = Stage /\ Stage * (PollAttempts + 1) \in Nat
    BY <1>1, <1>2, <1>8 DEF NextPoll
  <2> HIDE DEF L
  <2>2. RoundsLeft' < RoundsLeft
    BY <1>2, <1>3, <2>1
  <2> QED
    BY <1>6, <2>2
<1>9. CASE NextRequest
  <2>1. L' = L /\ Stage' = Stage /\ RequestsLeft' < RequestsLeft
    BY <1>9 DEF NextRequest, PollingPc
  <2> HIDE DEF L
  <2>2. RoundsLeft' = RoundsLeft /\ RoundsLeft * (PollAtMost + 1) \in Nat
    BY <1>3, <1>4, <1>5, <2>1
  <2> QED
    BY <1>5, <2>1, <2>2 DEF StepsLeft
<1> QED
  BY <1>7, <1>8, <1>9

LEMMA TryAdvances == CoreInv /\ TryBlock => (LaterStage \/ NextPoll) /\ (PollsLast => PollsLast')
<1> SUFFICES ASSUME CoreInv, TryBlock PROVE (LaterStage \/ NextPoll) /\ (PollsLast => PollsLast')
  OBVIOUS
<1> USE ConstantsAssumption
    DEF CoreInv, LaterStage, NextPoll, PollsLast, Stage, PollPc, PollingPc, Raise, Roles
<1>0. role \in Roles /\ polls \in 0..PollAttempts
  BY DEF TypeOK
<1>1. CASE Preflight
  BY <1>0, <1>1 DEF Preflight
<1>2. CASE Recheck
  BY <1>0, <1>2 DEF Recheck
<1>3. CASE Record
  BY <1>0, <1>3 DEF Record
<1>4. CASE Post
  BY <1>0, <1>4 DEF Post
<1>5. CASE AnswerCreated
  BY <1>0, <1>5 DEF AnswerCreated, Accept
<1>6. CASE AnswerRefused
  BY <1>0, <1>6 DEF AnswerRefused
<1>7. CASE AnswerLost
  BY <1>0, <1>7 DEF AnswerLost
<1>8. CASE ReconcileConflict
  BY <1>0, <1>8 DEF ReconcileConflict, Settle
<1>9. CASE ReconcileDuplicate
  BY <1>0, <1>9 DEF ReconcileDuplicate, Settle
<1>10. CASE ReconcileFound
  BY <1>0, <1>10 DEF ReconcileFound, Accept
<1>11. CASE ReconcileNothing
  BY <1>0, <1>11 DEF ReconcileNothing, ReconcileAgain, Settle
<1>12. CASE ReconcileUnavailable
  BY <1>0, <1>12 DEF ReconcileUnavailable, ReconcileAgain, Settle
<1>13. CASE Verify
  BY <1>0, <1>13 DEF Verify
<1>14. CASE Publish
  <2>1. pc = "publish" /\ UNCHANGED polls
    BY <1>14 DEF Publish
  <2>2. pc' = "done" \/ pc' = "report" \/ (pc' = "rollback" /\ role' = "fine_tuned")
    BY <1>14 DEF Publish
  <2> QED
    BY <2>1, <2>2
<1> QED
  BY <1>1, <1>2, <1>3, <1>4, <1>5, <1>6, <1>7, <1>8, <1>9, <1>10, <1>11, <1>12, <1>13, <1>14
     DEF TryBlock

LEMMA ExceptAdvances ==
  TypeOK /\ FiniteIds /\ ExceptBlock => (LaterStage \/ NextPoll \/ NextRequest) /\ (PollsLast => PollsLast')
<1> SUFFICES ASSUME TypeOK, FiniteIds, ExceptBlock
             PROVE  (LaterStage \/ NextPoll \/ NextRequest) /\ (PollsLast => PollsLast')
  OBVIOUS
<1> USE ConstantsAssumption
    DEF LaterStage, NextPoll, PollsLast, Stage, PollPc, PollingPc, Roles, AfterRollback, AfterIdentity
<1>0. role \in Roles /\ polls \in 0..PollAttempts
  BY DEF TypeOK
<1>1. CASE RollbackProof
  BY <1>0, <1>1 DEF RollbackProof
<1>2. CASE NothingToDelete
  BY <1>0, <1>2 DEF NothingToDelete
<1>3. CASE IdentityKnown
  BY <1>0, <1>3 DEF IdentityKnown
<1>4. CASE IdentityNext
  BY <1>0, <1>4 DEF IdentityNext
<1>5. CASE IdentityFails
  BY <1>0, <1>5 DEF IdentityFails, NeedsIdentity
<1>6. CASE Confirm
  BY <1>0, <1>6 DEF Confirm
<1>7. CASE Report
  BY <1>0, <1>7 DEF Report
<1>8. CASE RollbackDelete
  BY <1>0, <1>8 DEF RollbackDelete
<1>9. CASE RollbackCheck
  BY <1>0, <1>9 DEF RollbackCheck
<1>10. CASE IdentityList
  <2>1. pc = "identity" /\ pc' = "identity_items" /\ UNCHANGED <<role, polls>>
    BY <1>10 DEF IdentityList, NeedsIdentity
  <2>2. found' \in SUBSET (Ids \cup {NoId})
    BY <1>10 DEF IdentityList, IdOf, TypeOK, Model, Owned, Listed
  <2>3. Cardinality(found') \in Nat /\ ListedAtMost \in Nat /\ Cardinality(found') <= ListedAtMost
    BY <2>2, Counted
  <2>4. RequestsLeft = PollAtMost /\ RequestsLeft' = 3 * Cardinality(found')
    BY <2>1 DEF RequestsLeft
  <2>5. RequestsLeft' < RequestsLeft
    BY <2>3, <2>4 DEF PollAtMost
  <2> QED
    BY <2>1, <2>5 DEF NextRequest
<1>11. CASE IdentityProof
  <2>1. PICK id \in found \ {NoId} : found' = found \ {id}
    BY <1>11 DEF IdentityProof
  <2>2. pc = "identity_items" /\ pc' \in {"identity_items", "identity_delete"} /\ UNCHANGED <<role, polls>>
    BY <1>11 DEF IdentityProof
  <2>3. IsFiniteSet(found) /\ Cardinality(found) \in Nat
    BY Counted DEF TypeOK
  <2>4. Cardinality(found') = Cardinality(found) - 1
    BY <2>1, <2>3, FS_RemoveElement
  <2>5. RequestsLeft = 3 * Cardinality(found)
        /\ RequestsLeft' \in {3 * Cardinality(found'), 3 * Cardinality(found') + 2}
    BY <2>2 DEF RequestsLeft
  <2>6. RequestsLeft' < RequestsLeft
    BY <2>3, <2>4, <2>5
  <2> QED
    BY <2>2, <2>6 DEF NextRequest
<1>12. CASE IdentityDelete
  <2>1. pc = "identity_delete" /\ pc' = "identity_check" /\ UNCHANGED <<role, polls, found>>
    BY <1>12 DEF IdentityDelete, memory, deletion
  <2>2. Cardinality(found) \in Nat
    BY Counted DEF TypeOK
  <2>3. RequestsLeft = 3 * Cardinality(found) + 2 /\ RequestsLeft' = 3 * Cardinality(found) + 1
    BY <2>1 DEF RequestsLeft
  <2> QED
    BY <2>1, <2>2, <2>3 DEF NextRequest
<1>13. CASE IdentityCheck
  <2>1. pc = "identity_check" /\ pc' = "identity_items" /\ UNCHANGED <<role, polls, found>>
    BY <1>13 DEF IdentityCheck
  <2>2. Cardinality(found) \in Nat
    BY Counted DEF TypeOK
  <2>3. RequestsLeft = 3 * Cardinality(found) + 1 /\ RequestsLeft' = 3 * Cardinality(found)
    BY <2>1 DEF RequestsLeft
  <2> QED
    BY <2>1, <2>2, <2>3 DEF NextRequest
<1> QED
  BY <1>1, <1>2, <1>3, <1>4, <1>5, <1>6, <1>7, <1>8, <1>9, <1>10, <1>11, <1>12, <1>13 DEF ExceptBlock

\* LiteLLM, its other clients and a crash give the manager nothing more to do.
LEMMA OthersAddNoSteps ==
  ASSUME TypeOK, FiniteIds, Crash \/ Environment \/ UNCHANGED vars
  PROVE  StepsLeft' <= StepsLeft /\ (PollsLast => PollsLast')
<1>1. StepsLeft \in Nat
  <2>1. PollAtMost \in Nat /\ PollAttempts \in Nat
    BY RequestsAreNat, ConstantsAssumption
  <2>2. 24 * (PollAttempts + 1) * (PollAtMost + 1) \in Nat
    BY <2>1
  <2> QED
    BY <2>2, StepsAreNat
<1>2. CASE Crash
  <2>1. pc' = "crashed" /\ PollsLast'
    BY <1>2 DEF Crash, PollsLast, PollingPc, PollPc
  <2>2. Stage' = 0 /\ RequestsLeft' = 0 /\ RoundsLeft' = 0 * (PollAttempts + 1) + 0
    BY <2>1 DEF Stage, PollPc, PollingPc, RequestsLeft, RoundsLeft
  <2>3. PollAtMost \in Nat /\ PollAttempts \in Nat /\ PollAtMost' = PollAtMost
    BY RequestsAreNat, ConstantsAssumption DEF PollAtMost, ListedAtMost
  <2>4. StepsLeft' = 0
    BY <2>2, <2>3 DEF StepsLeft
  <2> QED
    BY <1>1, <2>1, <2>4
<1>3. CASE Environment \/ UNCHANGED vars
  <2>1. UNCHANGED <<control, found>>
    BY <1>3 DEF Environment, Apply, Discard, OtherRegisters, OtherWithdraws, vars, manager, memory, deletion
  <2>2. StepsLeft' = StepsLeft /\ (PollsLast => PollsLast')
    BY <2>1 DEF control, StepsLeft, RoundsLeft, RequestsLeft, PollAtMost, ListedAtMost, Stage, PollsLast
  <2> QED
    BY <1>1, <2>2
<1> QED
  BY <1>2, <1>3

(* Nothing LiteLLM answers, and nothing its other clients do, keeps           *)
(* register_and_verify going for ever: every request, poll, write and         *)
(* deletion brings the call nearer its end, by a measure that starts at 24    *)
(* stages of PollAttempts polls of three requests for each id a poll may      *)
(* list, and that nobody else raises; and a polling loop always has a last    *)
(* poll left that decides its outcome.                                        *)
THEOREM CallIsBounded ==
  ASSUME FiniteIds
  PROVE  Spec => /\ [](StepsLeft \in 0..24 * (PollAttempts + 1) * (PollAtMost + 1))
                 /\ [](pc \in PollingPc \cup {"confirm"} => polls > 0)
                 /\ [][IF Manager THEN StepsLeft' < StepsLeft ELSE StepsLeft' <= StepsLeft]_vars
<1>1. CoreInv => StepsLeft \in 0..24 * (PollAttempts + 1) * (PollAtMost + 1)
  BY StepsAreNat DEF CoreInv
<1>2. Init => PollsLast
  BY DEF Init, PollsLast, PollingPc, PollPc
<1>3. CoreInv /\ CoreInv' /\ [Next]_vars => /\ PollsLast => PollsLast'
                                       /\ IF Manager THEN StepsLeft' < StepsLeft
                                                     ELSE StepsLeft' <= StepsLeft
  <2> SUFFICES ASSUME CoreInv, CoreInv', [Next]_vars
               PROVE  /\ PollsLast => PollsLast'
                      /\ IF Manager THEN StepsLeft' < StepsLeft ELSE StepsLeft' <= StepsLeft
    OBVIOUS
  <2>1. TypeOK /\ TypeOK'
    BY DEF CoreInv
  <2>2. CASE Manager
    <3>1. (LaterStage \/ NextPoll \/ NextRequest) /\ (PollsLast => PollsLast')
      BY <2>1, <2>2, TryAdvances, ExceptAdvances DEF Manager
    <3> QED
      BY <2>1, <2>2, <3>1, StageDescends
  <2>3. CASE ~Manager
    <3>1. Crash \/ Environment \/ UNCHANGED vars
      BY <2>3 DEF Next
    <3> QED
      BY <2>1, <2>3, <3>1, OthersAddNoSteps
  <2> QED
    BY <2>2, <2>3
<1>4. PollsLast <=> (pc \in PollingPc \cup {"confirm"} => polls > 0)
  BY DEF PollsLast
<1> QED
  BY <1>1, <1>2, <1>3, <1>4, CoreInvariant, PTL DEF Spec

=============================================================================
