------------------------ MODULE DeliveryController_types ------------------------
(***************************************************************************)
(* Type correctness of the delivery controller: no sequence of sessions,    *)
(* crashes, runs and pushes takes a variable out of the domain that the     *)
(* normalisers of the code accept.                                          *)
(***************************************************************************)
EXTENDS DeliveryController, DeliveryState_proofs

(* The type invariant by groups of variables.                                *)

GithubOK ==
  /\ remoteHead \in Heads /\ lastHead \in Heads
  /\ headRisk \in [Heads -> Profiles]
  /\ base \in Bases /\ controlPlane \in ControlPlanes
RunsOK == worker \in Worker /\ audit \in AuditRun /\ hygiene \in HygieneRun
StatusOK == commitStatus \in [Heads -> CommitStatuses]
CommentOK == persistent \in Delivery /\ persistentBase \in Bases /\ controller \in Controller
IdentityOK ==
  /\ session \in Sessions /\ expectedBase \in Bases /\ prBase \in Bases
  /\ planRisk \in Profiles /\ checkout \in ControlPlanes /\ confirmed \in PullRequest
MemoryOK == IdentityOK /\ pc \in Pcs /\ delivery \in Delivery
HistoryOK ==
  /\ bootstrapAttempts \in Nat \ {0}
  /\ greenOn \in [Heads -> SUBSET Bases] /\ approvedOn \in [Heads -> SUBSET Bases]
  /\ workerLaunches \in Nat /\ auditLaunches \in Nat

\* The groups make up the invariant.
LEMMA TypeGroups ==
  TypeOK <=> GithubOK /\ RunsOK /\ StatusOK /\ CommentOK /\ MemoryOK /\ HistoryOK
BY DEF TypeOK, GithubOK, RunsOK, StatusOK, CommentOK, MemoryOK, IdentityOK, HistoryOK

\* The groups make up the invariant in the next state too.
LEMMA TypeGroupsNext ==
  GithubOK' /\ RunsOK' /\ StatusOK' /\ CommentOK' /\ MemoryOK' /\ HistoryOK' => TypeOK'
BY DEF TypeOK, GithubOK, RunsOK, StatusOK, CommentOK, MemoryOK, IdentityOK, HistoryOK

\* A group whose variables do not change stays well typed.
LEMMA UnchangedGroups ==
  /\ GithubOK /\ UNCHANGED github => GithubOK'
  /\ RunsOK /\ UNCHANGED runs => RunsOK'
  /\ StatusOK /\ UNCHANGED commitStatus => StatusOK'
  /\ CommentOK /\ UNCHANGED comment => CommentOK'
  /\ IdentityOK /\ UNCHANGED identity => IdentityOK'
  /\ MemoryOK /\ UNCHANGED memory => MemoryOK'
  /\ HistoryOK /\ UNCHANGED history => HistoryOK'
BY DEF GithubOK, RunsOK, StatusOK, CommentOK, IdentityOK, MemoryOK, HistoryOK, github, runs,
   comment, identity, memory, history, launches

\* The bounded domains contain what Init and an ended session put there.
LEMMA DomainTypes ==
  /\ 1 \in Heads /\ Heads \subseteq HeadOrNone /\ Heads \subseteq Nat /\ Bases \subseteq Nat
  /\ 0 \in Bases /\ 0 \in ControlPlanes
  /\ NoWorker \in Worker /\ NoAuditRun \in AuditRun /\ NoHygieneRun \in HygieneRun
BY MaxHeadAssumption, BoundsAssumption, EmptyTypes
DEF Heads, HeadOrNone, Bases, ControlPlanes, NoWorker, Worker, WorkerPhases, NoAuditRun,
    AuditRun, AuditVerdicts, NoHygieneRun, HygieneRun, HygieneResults

\* No delivery is a delivery, no metadata is metadata, and no pull request is one.
LEMMA NothingTypes ==
  NoDelivery \in Delivery /\ NoController \in Controller /\ NoPullRequest \in PullRequest
<1>1. NoDelivery \in Delivery
  BY CreateDeliveryStateType, EmptyTypes DEF NoDelivery, Profiles
<1>2. NoController \in Controller
  BY EmptyTypes, DomainTypes DEF NoController, Controller, NextActions, RunRefs
<1>3. NoPullRequest \in PullRequest
  BY EmptyTypes, DomainTypes DEF NoPullRequest, PullRequest
<1> QED
  BY <1>1, <1>2, <1>3

-----------------------------------------------------------------------------
(* The helpers.                                                              *)

\* What Persist writes is well typed.
LEMMA PersistType ==
  ASSUME NEW d \in Delivery, NEW b \in Bases, NEW c \in Controller, Persist(d, b, c)
  PROVE  CommentOK'
BY PersistenceTypes DEF Persist, CommentOK

\* An ended session holds nothing.
LEMMA EndSessionType == ASSUME EndSession PROVE MemoryOK'
BY NothingTypes, DomainTypes DEF EndSession, MemoryOK, IdentityOK, Sessions, Pcs, Profiles

\* Publishing a status keeps the statuses well typed.
LEMMA SetStatusType ==
  ASSUME StatusOK, NEW h, NEW s \in CommitStatuses, SetStatus(h, s)
  PROVE  StatusOK'
BY DEF StatusOK, SetStatus

\* The metadata has the fields of the comment.
LEMMA ControllerFields ==
  ASSUME NEW c \in Controller
  PROVE  /\ c.nextAction \in NextActions /\ c.workerRun \in RunRefs /\ c.auditRun \in RunRefs
         /\ c.hygieneRun \in RunRefs /\ c.remediationContext \in BOOLEAN
         /\ c.recoveredAt \in ControlPlanes /\ c.technicalHygiene \in Hygiene
BY DEF Controller

\* A hygiene result labelled with the head of a delivery is one.
LEMMA HygieneForType ==
  ASSUME NEW d \in Delivery, NEW examined \in HeadOrNone, NEW result \in HygieneResults
  PROVE  HygieneFor(d, examined, result) \in Hygiene
BY DeliveryFields DEF HygieneFor, Hygiene

\* Accepting a material stores or keeps well-typed state.
LEMMA AcceptMaterialType ==
  ASSUME CommentOK, StatusOK, NEW d \in Delivery, NEW b \in Bases, AcceptMaterial(d, b)
  PROVE  CommentOK' /\ StatusOK' /\ delivery' \in Delivery /\ pc' \in Pcs
<1>1. controller \in Controller /\ d.technicalHygiene \in Hygiene
  BY DeliveryFields DEF CommentOK
<1>2. NewMaterialMetadata(d) \in Controller
  BY <1>1 DEF NewMaterialMetadata, Controller, NextActions, RunRefs
<1>3. delivery' \in Delivery /\ pc' \in Pcs
  BY DEF AcceptMaterial, Pcs
<1>4. CASE d.technicalHygiene.promotionRequired
  BY <1>3, <1>4, UnchangedGroups DEF AcceptMaterial
<1>5. CASE ~d.technicalHygiene.promotionRequired
  <2>1. CommentOK'
    BY <1>2, <1>5, PersistType DEF AcceptMaterial
  <2>2. StatusOK'
    BY <1>5, SetStatusType, UnchangedGroups DEF AcceptMaterial, CommitStatuses
  <2> QED
    BY <1>3, <2>1, <2>2
<1> QED
  BY <1>4, <1>5

-----------------------------------------------------------------------------
(* The initial states and the environment.                                   *)

\* Init satisfies the type invariant.
LEMMA InitType == Init => TypeOK
<1> SUFFICES ASSUME Init PROVE TypeOK
  OBVIOUS
<1>1. GithubOK
  <2>1. PICK risk \in PlanRisks : headRisk = [h \in Heads |-> risk]
    BY DEF Init
  <2> QED
    BY <2>1, DomainTypes, PlanRisksAssumption DEF Init, GithubOK
<1>2. RunsOK
  <2>1. PICK r \in HygieneResults :
          worker = [phase |-> "material", head |-> 1, hygiene |-> r, controlPlane |-> 0]
    BY DEF Init
  <2>2. worker \in Worker
    BY <2>1, DomainTypes DEF Worker, WorkerPhases
  <2> QED
    BY <2>2, DomainTypes DEF Init, RunsOK
<1>3. StatusOK
  BY DEF Init, StatusOK, CommitStatuses
<1>4. CommentOK
  BY NothingTypes, DomainTypes DEF Init, CommentOK
<1>5. MemoryOK
  BY NothingTypes, DomainTypes DEF Init, MemoryOK, IdentityOK, Sessions, Pcs, Profiles
<1>6. HistoryOK
  <2>1. PICK issueRisk \in PlanRisks :
          bootstrapAttempts \in 1..MaxImplementationAttempts[issueRisk]
    BY DEF Init
  <2>2. MaxImplementationAttempts[issueRisk] \in Nat
    BY PlanRisksAssumption, ImplementationLimitAssumption
  <2>3. bootstrapAttempts \in Nat \ {0}
    BY <2>1, <2>2
  <2> QED
    BY <2>3 DEF Init, HistoryOK
<1> QED
  BY <1>1, <1>2, <1>3, <1>4, <1>5, <1>6, TypeGroups

\* A push creates the next head and gives it a risk.
LEMMA PushType ==
  ASSUME GithubOK, Push, UNCHANGED <<base, controlPlane>>
  PROVE  GithubOK' /\ NewHead \in Heads
<1>1. NewHead \in Heads
  BY MaxHeadAssumption DEF GithubOK, Push, NewHead, Heads
<1>2. headRisk' \in [Heads -> Profiles]
  BY <1>1, PlanRisksAssumption DEF GithubOK, Push
<1> QED
  BY <1>1, <1>2 DEF GithubOK, Push

\* The environment keeps the types.
LEMMA EnvironmentType == ASSUME TypeOK, Environment PROVE TypeOK'
<1>1. CASE ExternalPush
  BY <1>1, TypeGroups, TypeGroupsNext, PushType, UnchangedGroups DEF ExternalPush
<1>2. CASE BaseAdvance
  <2>1. GithubOK'
    BY <1>2, BoundsAssumption, TypeGroups DEF BaseAdvance, GithubOK, Bases
  <2> QED
    BY <1>2, <2>1, TypeGroups, TypeGroupsNext, UnchangedGroups DEF BaseAdvance
<1>3. CASE ControlPlaneRelease
  <2>1. GithubOK'
    BY <1>3, BoundsAssumption, TypeGroups DEF ControlPlaneRelease, GithubOK, ControlPlanes
  <2> QED
    BY <1>3, <2>1, TypeGroups, TypeGroupsNext, UnchangedGroups DEF ControlPlaneRelease
<1> QED
  BY <1>1, <1>2, <1>3 DEF Environment

\* A worker that ends keeps the types.
LEMMA WorkerRunsType == ASSUME TypeOK, WorkerRuns PROVE TypeOK'
<1>0. worker \in Worker
  BY TypeGroups DEF RunsOK
<1>1. CASE WorkerPushes
  <2>1. GithubOK' /\ NewHead \in HeadOrNone
    BY <1>1, TypeGroups, PushType, DomainTypes DEF WorkerPushes
  <2>2. ASSUME NEW r \in HygieneResults
        PROVE  [worker EXCEPT !.phase = "material", !.head = NewHead, !.hygiene = r] \in Worker
    BY <1>0, <2>1 DEF Worker, WorkerPhases
  <2>3. [worker EXCEPT !.phase = "failed", !.head = NewHead] \in Worker
    BY <1>0, <2>1 DEF Worker, WorkerPhases
  <2>4. RunsOK'
    BY <1>1, <2>2, <2>3, TypeGroups DEF WorkerPushes, RunsOK
  <2> QED
    BY <1>1, <2>1, <2>4, TypeGroups, TypeGroupsNext, UnchangedGroups DEF WorkerPushes
<1>2. CASE WorkerEndsWithoutPush
  <2>1. ASSUME NEW r \in HygieneResults
        PROVE  [worker EXCEPT !.phase = "claimed", !.hygiene = r] \in Worker
    BY <1>0 DEF Worker, WorkerPhases
  <2>2. ASSUME NEW phase \in {"no-material", "failed"}
        PROVE  [worker EXCEPT !.phase = phase] \in Worker
    BY <1>0 DEF Worker, WorkerPhases
  <2>3. RunsOK'
    BY <1>2, <2>1, <2>2, TypeGroups DEF WorkerEndsWithoutPush, RunsOK
  <2> QED
    BY <1>2, <2>3, TypeGroups, TypeGroupsNext, UnchangedGroups DEF WorkerEndsWithoutPush
<1> QED
  BY <1>1, <1>2 DEF WorkerRuns

-----------------------------------------------------------------------------
(* Sessions that end without storing anything but, perhaps, a status.         *)

\* A step that only ends the session keeps the types.
LEMMA EndedType ==
  ASSUME TypeOK, EndSession, UNCHANGED <<github, runs, commitStatus, comment, history>>
  PROVE  TypeOK'
BY TypeGroups, TypeGroupsNext, EndSessionType, UnchangedGroups

\* A step that stores a state and ends the session keeps the types.
LEMMA EndedWithCommentType ==
  ASSUME TypeOK, EndSession, CommentOK', StatusOK', UNCHANGED <<github, runs, history>>
  PROVE  TypeOK'
BY TypeGroups, TypeGroupsNext, EndSessionType, UnchangedGroups

\* A step that stores a state and goes on keeps the types.
LEMMA StoredType ==
  ASSUME TypeOK, CommentOK', delivery' \in Delivery, pc' \in Pcs, IdentityOK',
         UNCHANGED <<github, commitStatus, history>>, RunsOK'
  PROVE  TypeOK'
BY TypeGroups, TypeGroupsNext, UnchangedGroups DEF MemoryOK

\* What the steps below use of the type invariant.
LEMMA Held ==
  ASSUME TypeOK
  PROVE  /\ delivery \in Delivery /\ persistent \in Delivery /\ controller \in Controller
         /\ remoteHead \in Heads /\ remoteHead \in HeadOrNone
         /\ headRisk[remoteHead] \in Profiles
         /\ base \in Bases /\ prBase \in Bases /\ expectedBase \in Bases
         /\ persistentBase \in Bases /\ pc \in Pcs /\ planRisk \in Profiles
         /\ delivery.status \in NextActions /\ delivery.materialHeadSha \in HeadOrNone
         /\ worker \in Worker /\ worker.head \in HeadOrNone /\ worker.hygiene \in HygieneResults
         /\ audit \in AuditRun /\ hygiene \in HygieneRun
         /\ hygiene.examined \in HeadOrNone
         /\ checkout \in ControlPlanes /\ controlPlane \in ControlPlanes
<1>1. delivery.status \in NextActions
  BY DeliveryFields DEF TypeOK, NextActions
<1>2. headRisk[remoteHead] \in Profiles /\ remoteHead \in HeadOrNone
  BY DomainTypes DEF TypeOK
<1>3. worker.head \in HeadOrNone /\ worker.hygiene \in HygieneResults
  BY DEF TypeOK, Worker
<1>4. hygiene.examined \in HeadOrNone
  BY DEF TypeOK, HygieneRun
<1> QED
  BY <1>1, <1>2, <1>3, <1>4, DeliveryFields DEF TypeOK

-----------------------------------------------------------------------------
(* The steps of a session.                                                   *)

\* Assessing, refusing and promoting material keeps the types.
LEMMA MaterialStepType == ASSUME TypeOK, MaterialStep PROVE TypeOK'
<1>0. /\ GithubOK /\ RunsOK /\ StatusOK /\ CommentOK /\ MemoryOK /\ IdentityOK /\ HistoryOK
  BY TypeGroups DEF MemoryOK
<1>1. CASE DiscoverMaterial
  <2> DEFINE created == CreateOperationalDelivery(headRisk[remoteHead], remoteHead)
  <2>1. created \in Delivery
    BY Held, CreateOperationalDeliveryType
  <2> HIDE DEF created
  <2>2. [created EXCEPT !.implementationAttempts = bootstrapAttempts] \in Delivery
    BY <1>0, <2>1 DEF HistoryOK, Delivery
  <2>3. MemoryOK'
    BY <1>0, <1>1, <2>2, Held DEF DiscoverMaterial, MemoryOK, IdentityOK, Pcs, created
  <2> QED
    BY <1>0, <1>1, <2>3, UnchangedGroups, TypeGroupsNext DEF DiscoverMaterial
<1>2. CASE AssessMaterial
  <2>1. AssessedMaterial \in Delivery
    BY Held, HygieneForType, ApplyHygieneType DEF AssessedMaterial
  <2>2. CommentOK' /\ StatusOK' /\ delivery' \in Delivery /\ pc' \in Pcs
    BY <1>0, <1>2, <2>1, Held, AcceptMaterialType DEF AssessMaterial
  <2> QED
    BY <1>0, <1>2, <2>2, UnchangedGroups, TypeGroupsNext DEF AssessMaterial, MemoryOK
<1>3. CASE MaterialUnstorable
  <2>1. StatusOK'
    BY <1>0, <1>3, SetStatusType, UnchangedGroups DEF MaterialUnstorable, CommitStatuses
  <2> QED
    BY <1>0, <1>3, <2>1, EndedWithCommentType, UnchangedGroups DEF MaterialUnstorable
<1>4. CASE ReservePromotion
  <2>1. PromotedRisk \in Profiles /\ Promoted \in Delivery
    BY Held, PromoteRiskType DEF PromotedRisk, Promoted, Profiles
  <2> DEFINE kept == IF Pending THEN NoHygiene ELSE controller.technicalHygiene
  <2>2. kept \in Hygiene
    BY Held, ControllerFields, EmptyTypes
  <2> HIDE DEF kept
  <2>3. [controller EXCEPT !.nextAction = "dispatch-technical-hygiene",
                           !.hygieneRun = "reserved", !.technicalHygiene = kept] \in Controller
    BY <2>2, Held DEF Controller, NextActions, RunRefs
  <2>4. CommentOK'
    BY <1>4, <2>1, <2>3, Held, PersistType DEF ReservePromotion, kept
  <2>5. RunsOK'
    BY <1>0, <1>4, DomainTypes DEF ReservePromotion, RunsOK
  <2>6. IdentityOK' /\ delivery' \in Delivery /\ pc' \in Pcs
    BY <1>0, <1>4, <2>1 DEF ReservePromotion, IdentityOK, Pcs
  <2> QED
    BY <1>0, <1>4, <2>4, <2>5, <2>6, StoredType DEF ReservePromotion
<1>5. CASE PromotionFailed
  BY <1>5, EndedType DEF PromotionFailed
<1>6. ASSUME PromotionHolds PROVE PromotionResult \in Delivery
  <2>1. hygiene.result \in HygieneResults
    BY <1>6, Held DEF PromotionHolds, HygieneRun
  <2> QED
    BY <2>1, Held, HygieneForType, ApplyHygieneType DEF PromotionResult
<1>7. CASE MaterialPromoted
  <2>1. CommentOK' /\ StatusOK' /\ delivery' \in Delivery /\ pc' \in Pcs
    BY <1>0, <1>6, <1>7, Held, AcceptMaterialType DEF MaterialPromoted
  <2> QED
    BY <1>0, <1>7, <2>1, UnchangedGroups, TypeGroupsNext DEF MaterialPromoted, MemoryOK
<1>8. CASE PendingPromoted
  <2>1. PromotionResult \in Delivery
    BY <1>6, <1>8 DEF PendingPromoted
  <2>2. [controller EXCEPT !.technicalHygiene = PromotionResult.technicalHygiene] \in Controller
    BY <2>1, Held, DeliveryFields DEF Controller
  <2>3. CommentOK'
    BY <1>8, <2>1, <2>2, Held, PersistType DEF PendingPromoted
  <2> QED
    BY <1>0, <1>8, <2>1, <2>3, StoredType, UnchangedGroups DEF PendingPromoted, Pcs
<1> QED
  BY <1>1, <1>2, <1>3, <1>4, <1>5, <1>7, <1>8 DEF MaterialStep

\* Changing only the next action keeps the metadata well typed.
LEMMA NextActionType ==
  ASSUME NEW c \in Controller, NEW a \in NextActions
  PROVE  [c EXCEPT !.nextAction = a] \in Controller
BY DEF Controller

\* Storing a state with another next action keeps the comment well typed.
LEMMA PersistNextActionType ==
  ASSUME TypeOK, NEW d \in Delivery, NEW b \in Bases, NEW a \in NextActions,
         Persist(d, b, [controller EXCEPT !.nextAction = a])
  PROVE  CommentOK'
BY Held, NextActionType, PersistType

\* Observing the required check keeps the types.
LEMMA CiStepType == ASSUME TypeOK, CiStep PROVE TypeOK'
<1>0. /\ GithubOK /\ RunsOK /\ StatusOK /\ CommentOK /\ MemoryOK /\ IdentityOK /\ HistoryOK
  BY TypeGroups DEF MemoryOK
<1>1. CASE InitialObservesDrift
  <2> DEFINE d == Classify(RecordHeadDrift(delivery, remoteHead), headRisk[remoteHead])
             c == [controller EXCEPT
                     !.nextAction = "external-head-drift-requires-controller-resume",
                     !.technicalHygiene = NoHygiene]
  <2>1. d \in Delivery
    BY Held, RecordHeadDriftType, ClassifyType
  <2>2. c \in Controller
    BY Held, EmptyTypes DEF Controller, NextActions
  <2>3. Persist(d, base, c) \/ UNCHANGED comment
    BY <1>1 DEF InitialObservesDrift
  <2> HIDE DEF d, c
  <2>4. CommentOK'
    BY <1>0, <2>1, <2>2, <2>3, Held, PersistType, UnchangedGroups
  <2> QED
    BY <1>0, <1>1, <2>4, EndedWithCommentType, UnchangedGroups DEF InitialObservesDrift
<1>2. CASE InitialBlockedByHygiene
  BY <1>2, EndedType DEF InitialBlockedByHygiene
<1>3. CASE ResumeObservesDrift
  <2> DEFINE d == RebuildCiPendingState(headRisk[remoteHead], remoteHead, delivery)
             c == [controller EXCEPT !.nextAction = "observe-ci",
                                     !.technicalHygiene = NoHygiene]
  <2>1. d \in Delivery
    BY Held, PersistenceTypes
  <2>2. c \in Controller
    BY Held, EmptyTypes DEF Controller, NextActions
  <2>3. CASE WithinCeilings(d)
    <3>1. Persist(d, base, c)
      BY <1>3, <2>3 DEF ResumeObservesDrift
    <3>2. /\ delivery' = d /\ planRisk' = headRisk[remoteHead] /\ prBase' = base
          /\ UNCHANGED <<session, pc, expectedBase, checkout, confirmed>>
      BY <1>3, <2>3 DEF ResumeObservesDrift
    <3> HIDE DEF d, c
    <3>3. CommentOK'
      BY <2>1, <2>2, <3>1, Held, PersistType
    <3>4. IdentityOK' /\ delivery' \in Delivery /\ pc' \in Pcs
      BY <1>0, <2>1, <3>2, Held DEF IdentityOK
    <3> QED
      BY <1>0, <1>3, <3>3, <3>4, StoredType, UnchangedGroups DEF ResumeObservesDrift
  <2>4. CASE ~WithinCeilings(d)
    BY <1>3, <2>4, EndedType DEF ResumeObservesDrift
  <2> QED
    BY <2>3, <2>4
<1>4. CASE CiSucceeds
  <2> DEFINE d == ApplyCiSuccess(delivery)
  <2>1. d \in Delivery /\ d.status \in NextActions
    BY Held, ApplyResultTypes, DeliveryFields DEF NextActions
  <2>2. Persist(d, prBase, [controller EXCEPT !.nextAction = d.status]) /\ delivery' = d
    BY <1>4 DEF CiSucceeds
  <2> HIDE DEF d
  <2>3. CommentOK' /\ delivery' \in Delivery
    BY <2>1, <2>2, Held, PersistNextActionType
  <2>4. HistoryOK'
    <3>1. greenOn' \in [Heads -> SUBSET Bases]
      BY <1>0, <1>4, Held DEF CiSucceeds, HistoryOK
    <3> QED
      BY <1>0, <1>4, <3>1 DEF CiSucceeds, HistoryOK, launches
  <2> QED
    BY <1>0, <1>4, <2>3, <2>4, UnchangedGroups, TypeGroupsNext, Held DEF CiSucceeds, MemoryOK
<1>5. CASE CiFailsActionably
  <2> DEFINE d == RecordCiFailure(delivery, "actionable")
  <2>1. d \in Delivery /\ d.status \in NextActions
    BY Held, RecordCiFailureType, DeliveryFields DEF NextActions
  <2>2. Persist(d, prBase, [controller EXCEPT !.nextAction = d.status]) /\ delivery' = d
    BY <1>5 DEF CiFailsActionably
  <2> HIDE DEF d
  <2>3. CommentOK' /\ delivery' \in Delivery
    BY <2>1, <2>2, Held, PersistNextActionType
  <2> QED
    BY <1>0, <1>5, <2>3, Held, StoredType, UnchangedGroups DEF CiFailsActionably
<1>6. CASE CiFailsExternally
  <2>1. RecordCiFailure(delivery, "external") \in Delivery
    BY Held, RecordCiFailureType
  <2>2. CommentOK'
    BY <1>6, <2>1, Held, PersistNextActionType DEF CiFailsExternally, NextActions
  <2>3. StatusOK'
    BY <1>0, <1>6, SetStatusType DEF CiFailsExternally, CommitStatuses
  <2> QED
    BY <1>6, <2>2, <2>3, EndedWithCommentType DEF CiFailsExternally
<1> QED
  BY <1>1, <1>2, <1>3, <1>4, <1>5, <1>6 DEF CiStep

\* Remediation keeps the types.
LEMMA WorkerStepType == ASSUME TypeOK, WorkerStep PROVE TypeOK'
<1>0. /\ GithubOK /\ RunsOK /\ StatusOK /\ CommentOK /\ MemoryOK /\ IdentityOK /\ HistoryOK
  BY TypeGroups DEF MemoryOK
<1>1. CASE ReserveRemediation
  <2> DEFINE d == StartImplementation(delivery)
             c == [controller EXCEPT !.nextAction = "dispatch-remediation",
                                     !.workerRun = "reserved",
                                     !.remediationContext = @ \/ session = "resume"]
  <2>1. d \in Delivery
    BY Held, StartImplementationType
  <2>2. c \in Controller
    <3>1. (controller.remediationContext \/ session = "resume") \in BOOLEAN
      OBVIOUS
    <3> QED
      BY <3>1, Held DEF Controller, NextActions, RunRefs
  <2>3. \/ /\ Persist(d, prBase, [controller EXCEPT !.nextAction = "human-escalation"])
           /\ UNCHANGED <<worker, pc>>
        \/ Persist(d, prBase, c) /\ worker' = NoWorker /\ pc' = "worker"
    BY <1>1 DEF ReserveRemediation
  <2>4. delivery' = d
    BY <1>1 DEF ReserveRemediation
  <2> HIDE DEF d, c
  <2>5. CommentOK' /\ delivery' \in Delivery
    BY <2>1, <2>2, <2>3, <2>4, Held, PersistType, PersistNextActionType DEF NextActions
  <2>6. RunsOK' /\ pc' \in Pcs
    BY <1>0, <1>1, <2>3, Held, DomainTypes DEF ReserveRemediation, RunsOK, Pcs
  <2> QED
    BY <1>0, <1>1, <2>5, <2>6, StoredType, UnchangedGroups DEF ReserveRemediation
<1>2. CASE LaunchWorker
  <2>1. worker' \in Worker
    BY <1>2, Held, DomainTypes DEF LaunchWorker, Worker, WorkerPhases
  <2>2. RunsOK' /\ HistoryOK'
    BY <1>0, <1>2, <2>1 DEF LaunchWorker, RunsOK, HistoryOK
  <2> QED
    BY <1>0, <1>2, <2>2, UnchangedGroups, TypeGroupsNext DEF LaunchWorker
<1>3. CASE CorrelateWorker
  <2>1. [controller EXCEPT !.nextAction = "observe-remediation",
                           !.workerRun = "observed"] \in Controller
    BY Held DEF Controller, NextActions, RunRefs
  <2>2. CommentOK'
    BY <1>3, <2>1, Held, PersistType DEF CorrelateWorker
  <2> QED
    BY <1>0, <1>3, <2>2, UnchangedGroups, TypeGroupsNext DEF CorrelateWorker
<1>4. CASE RecoveryRefused
  BY <1>4, EndedType DEF RecoveryRefused
<1>5. CASE RearmWorker
  <2>1. [controller EXCEPT !.nextAction = "dispatch-remediation-recovery",
                           !.workerRun = "reserved", !.remediationContext = TRUE,
                           !.recoveredAt = checkout] \in Controller
    BY Held DEF Controller, NextActions, RunRefs
  <2>2. CommentOK'
    BY <1>5, <2>1, Held, PersistType DEF RearmWorker
  <2>3. RunsOK'
    BY <1>0, <1>5, DomainTypes DEF RearmWorker, RunsOK
  <2> QED
    BY <1>0, <1>5, <2>2, <2>3, Held, StoredType, UnchangedGroups DEF RearmWorker, Pcs
<1>6. CASE WorkerFailed
  <2>1. CommentOK'
    BY <1>0, <1>6, Held, PersistNextActionType, UnchangedGroups DEF WorkerFailed, NextActions
  <2>2. StatusOK'
    BY <1>0, <1>6, SetStatusType, UnchangedGroups DEF WorkerFailed, CommitStatuses
  <2> QED
    BY <1>6, <2>1, <2>2, EndedWithCommentType DEF WorkerFailed
<1>7. CASE RemediationWithoutMaterial
  <2>1. Escalate(delivery, "remediation-produced-no-material") \in Delivery
    BY Held, EscalateType DEF Reasons
  <2>2. CommentOK'
    BY <1>7, <2>1, Held, PersistNextActionType DEF RemediationWithoutMaterial, NextActions
  <2>3. StatusOK'
    BY <1>0, <1>7, SetStatusType, UnchangedGroups
    DEF RemediationWithoutMaterial, CommitStatuses
  <2> QED
    BY <1>7, <2>2, <2>3, EndedWithCommentType DEF RemediationWithoutMaterial
<1>8. CASE MaterialNeverAppears
  BY <1>8, EndedType DEF MaterialNeverAppears
<1>9. CASE MaterialEscalates
  <2>1. Escalate(delivery, "remediation-opened-higher-risk-surface") \in Delivery
    BY Held, EscalateType DEF Reasons
  <2>2. CommentOK'
    BY <1>0, <1>9, <2>1, Held, PersistNextActionType, UnchangedGroups
    DEF MaterialEscalates, NextActions
  <2>3. StatusOK'
    BY <1>0, <1>9, SetStatusType DEF MaterialEscalates, CommitStatuses
  <2> QED
    BY <1>9, <2>2, <2>3, EndedWithCommentType DEF MaterialEscalates
<1>10. CASE MaterialPublished
  <2> DEFINE published == PublishMaterial(delivery, remoteHead)
             h == HygieneFor(published, worker.head, worker.hygiene)
  <2>1. published \in Delivery
    BY Held, PublishMaterialType
  <2>2. AcceptMaterial(ApplyHygiene(published, h), base)
    BY <1>10 DEF MaterialPublished
  <2> HIDE DEF published
  <2>3. ApplyHygiene(published, h) \in Delivery
    BY <2>1, Held, HygieneForType, ApplyHygieneType
  <2> HIDE DEF h
  <2>4. CommentOK' /\ StatusOK' /\ delivery' \in Delivery /\ pc' \in Pcs
    BY <1>0, <2>2, <2>3, Held, AcceptMaterialType
  <2>5. IdentityOK'
    BY <1>0, <1>10, Held DEF MaterialPublished, IdentityOK
  <2> QED
    BY <1>0, <1>10, <2>4, <2>5, UnchangedGroups, TypeGroupsNext DEF MaterialPublished, MemoryOK
<1> QED
  BY <1>1, <1>2, <1>3, <1>4, <1>5, <1>6, <1>7, <1>8, <1>9, <1>10 DEF WorkerStep

\* Starting an audit run keeps the types.
LEMMA StartsAuditType ==
  ASSUME TypeOK, NEW d \in Delivery, StartsAudit(d, controller),
         UNCHANGED <<github, worker, hygiene, commitStatus, identity, history>>
  PROVE  TypeOK'
<1>0. /\ GithubOK /\ RunsOK /\ StatusOK /\ CommentOK /\ IdentityOK /\ HistoryOK
  BY TypeGroups DEF MemoryOK
<1>1. [controller EXCEPT !.nextAction = "dispatch-audit", !.auditRun = "reserved"] \in Controller
  BY Held DEF Controller, NextActions, RunRefs
<1>2. CommentOK'
  BY <1>1, Held, PersistType DEF StartsAudit
<1>3. RunsOK'
  BY <1>0, DomainTypes DEF StartsAudit, RunsOK
<1> QED
  BY <1>0, <1>2, <1>3, StoredType, UnchangedGroups DEF StartsAudit, Pcs

\* Auditing keeps the types.
LEMMA AuditStepType == ASSUME TypeOK, AuditStep PROVE TypeOK'
<1>0. /\ GithubOK /\ RunsOK /\ StatusOK /\ CommentOK /\ MemoryOK /\ IdentityOK /\ HistoryOK
  BY TypeGroups DEF MemoryOK
<1>1. CASE ReserveAudit
  <2> DEFINE d == StartAudit(delivery)
  <2>1. d \in Delivery
    BY Held, StartAuditType
  <2>2. \/ /\ delivery' = d
           /\ Persist(d, prBase, [controller EXCEPT !.nextAction = "human-escalation"])
           /\ UNCHANGED <<pc, audit>>
        \/ StartsAudit(d, controller)
    BY <1>1 DEF ReserveAudit
  <2> HIDE DEF d
  <2>3. UNCHANGED <<github, worker, hygiene, commitStatus, identity, history>>
    BY <1>1 DEF ReserveAudit
  <2>4. CASE StartsAudit(d, controller)
    BY <2>1, <2>3, <2>4, StartsAuditType
  <2>5. CASE /\ delivery' = d
             /\ Persist(d, prBase, [controller EXCEPT !.nextAction = "human-escalation"])
             /\ UNCHANGED <<pc, audit>>
    <3>1. CommentOK'
      BY <2>1, <2>5, Held, PersistNextActionType DEF NextActions
    <3>2. RunsOK'
      BY <1>0, <2>3, <2>5 DEF RunsOK
    <3> QED
      BY <1>0, <2>1, <2>3, <2>5, <3>1, <3>2, Held, StoredType, UnchangedGroups
  <2> QED
    BY <2>2, <2>4, <2>5
<1>2. CASE RearmAudit
  <2>1. [delivery EXCEPT !.auditInFlight = TRUE] \in Delivery
    BY Held DEF Delivery
  <2> QED
    BY <1>2, <2>1, StartsAuditType DEF RearmAudit
<1>3. CASE AdoptAudit
  <2>1. [delivery EXCEPT !.auditInFlight = TRUE] \in Delivery
    BY Held DEF Delivery
  <2>2. MemoryOK'
    BY <1>0, <1>3, <2>1, UnchangedGroups DEF AdoptAudit, MemoryOK, Pcs
  <2> QED
    BY <1>0, <1>3, <2>2, UnchangedGroups, TypeGroupsNext DEF AdoptAudit
<1>4. CASE LaunchAudit
  <2>1. PICK run \in AuditRun :
          /\ run.candidate = delivery.materialHeadSha
          /\ audit' = run
          /\ approvedOn' = IF run.verdict = "approved"
                           THEN [approvedOn EXCEPT ![run.candidate] = @ \cup {base}]
                           ELSE approvedOn
    BY <1>4 DEF LaunchAudit
  <2>2. RunsOK'
    BY <1>0, <1>4, <2>1 DEF LaunchAudit, RunsOK
  <2>3. approvedOn' \in [Heads -> SUBSET Bases]
    BY <1>0, <2>1, Held DEF HistoryOK
  <2>4. HistoryOK'
    BY <1>0, <1>4, <2>3 DEF LaunchAudit, HistoryOK
  <2> QED
    BY <1>0, <1>4, <2>2, <2>4, UnchangedGroups, TypeGroupsNext DEF LaunchAudit
<1>5. CASE CorrelateAudit
  <2>1. [controller EXCEPT !.nextAction = "observe-audit",
                           !.auditRun = "observed"] \in Controller
    BY Held DEF Controller, NextActions, RunRefs
  <2>2. CommentOK'
    BY <1>5, <2>1, Held, PersistType DEF CorrelateAudit
  <2> QED
    BY <1>0, <1>5, <2>2, UnchangedGroups, TypeGroupsNext DEF CorrelateAudit
<1>6. CASE AuditRecoveryRefused
  BY <1>6, EndedType DEF AuditRecoveryRefused
<1>7. CASE AuditWorkflowFailed
  <2>1. CommentOK'
    BY <1>7, Held, PersistNextActionType DEF AuditWorkflowFailed, NextActions
  <2> QED
    BY <1>0, <1>7, <2>1, EndedWithCommentType, UnchangedGroups DEF AuditWorkflowFailed
<1>8. CASE ConsumeVerdict
  <2> DEFINE d == ApplyAuditResult(delivery, audit.verdict)
  <2>1. audit.verdict \in AuditVerdicts
    BY <1>8, Held DEF ConsumeVerdict, VerdictReadable, AuditRun
  <2>2. d \in Delivery /\ d.status \in NextActions
    BY <2>1, Held, ApplyResultTypes, DeliveryFields DEF NextActions
  <2>3. /\ Persist(d, prBase, [controller EXCEPT !.nextAction = d.status])
        /\ delivery' = d /\ pc' = "loop"
    BY <1>8 DEF ConsumeVerdict
  <2> HIDE DEF d
  <2>4. CommentOK' /\ delivery' \in Delivery /\ pc' \in Pcs
    BY <2>2, <2>3, Held, PersistNextActionType DEF Pcs
  <2> QED
    BY <1>0, <1>8, <2>4, StoredType, UnchangedGroups DEF ConsumeVerdict
<1> QED
  BY <1>1, <1>2, <1>3, <1>4, <1>5, <1>6, <1>7, <1>8 DEF AuditStep

\* Starting a hygiene run keeps the types.
LEMMA StartsHygieneType ==
  ASSUME TypeOK, NEW stored \in Hygiene, StartsHygiene(stored) PROVE TypeOK'
<1>0. /\ GithubOK /\ RunsOK /\ StatusOK /\ CommentOK /\ IdentityOK /\ HistoryOK
  BY TypeGroups DEF MemoryOK
<1>1. [controller EXCEPT !.nextAction = "dispatch-technical-hygiene",
                         !.hygieneRun = "reserved", !.technicalHygiene = stored] \in Controller
  BY Held DEF Controller, NextActions, RunRefs
<1>2. CommentOK'
  BY <1>1, Held, PersistType DEF StartsHygiene
<1>3. RunsOK'
  BY <1>0, DomainTypes DEF StartsHygiene, RunsOK
<1> QED
  BY <1>0, <1>2, <1>3, Held, StoredType, UnchangedGroups DEF StartsHygiene, Pcs

\* Technical hygiene keeps the types.
LEMMA HygieneStepType == ASSUME TypeOK, HygieneStep PROVE TypeOK'
<1>0. /\ GithubOK /\ RunsOK /\ StatusOK /\ CommentOK /\ MemoryOK /\ IdentityOK /\ HistoryOK
  BY TypeGroups DEF MemoryOK
<1>1. CASE ReserveHygiene
  BY <1>1, Held, ControllerFields, StartsHygieneType DEF ReserveHygiene
<1>2. CASE RearmHygiene
  BY <1>2, EmptyTypes, StartsHygieneType DEF RearmHygiene
<1>3. CASE AdoptHygiene
  <2>1. MemoryOK'
    BY <1>0, <1>3, Held, UnchangedGroups DEF AdoptHygiene, MemoryOK, Pcs
  <2> QED
    BY <1>0, <1>3, <2>1, UnchangedGroups, TypeGroupsNext DEF AdoptHygiene
<1>4. CASE LaunchHygiene
  <2>1. hygiene' \in HygieneRun
    BY <1>4 DEF LaunchHygiene
  <2>2. RunsOK'
    BY <1>0, <1>4, <2>1 DEF LaunchHygiene, RunsOK
  <2> QED
    BY <1>0, <1>4, <2>2, UnchangedGroups, TypeGroupsNext DEF LaunchHygiene
<1>5. CASE CorrelateHygiene
  <2>1. [controller EXCEPT !.nextAction = "observe-technical-hygiene",
                           !.hygieneRun = "observed"] \in Controller
    BY Held DEF Controller, NextActions, RunRefs
  <2>2. CommentOK'
    BY <1>5, <2>1, Held, PersistType DEF CorrelateHygiene
  <2> QED
    BY <1>0, <1>5, <2>2, UnchangedGroups, TypeGroupsNext DEF CorrelateHygiene
<1>6. CASE HygieneRecoveryRefused
  BY <1>6, EndedType DEF HygieneRecoveryRefused
<1>7. CASE HygieneWorkerFailed
  <2>1. CommentOK'
    BY <1>7, Held, PersistNextActionType DEF HygieneWorkerFailed, NextActions
  <2> QED
    BY <1>0, <1>7, <2>1, EndedWithCommentType, UnchangedGroups DEF HygieneWorkerFailed
<1>8. CASE ConsumeHygiene
  <2> DEFINE d == ApplyHygiene(delivery, HygieneFor(delivery, hygiene.examined, hygiene.result))
             c == [controller EXCEPT !.nextAction = d.status,
                                     !.technicalHygiene = d.technicalHygiene]
  <2>1. hygiene.result \in HygieneResults
    BY <1>8, Held DEF ConsumeHygiene, HygieneRun
  <2>2. d \in Delivery
    BY <2>1, Held, HygieneForType, ApplyHygieneType
  <2>3. Persist(d, prBase, c) /\ delivery' = d /\ pc' = "loop"
    BY <1>8 DEF ConsumeHygiene
  <2> HIDE DEF d
  <2>4. d.status \in NextActions /\ d.technicalHygiene \in Hygiene
    BY <2>2, DeliveryFields DEF NextActions
  <2>5. c \in Controller
    BY <2>4, Held DEF Controller
  <2> HIDE DEF c
  <2>6. CommentOK' /\ delivery' \in Delivery /\ pc' \in Pcs
    BY <2>2, <2>3, <2>5, Held, PersistType DEF Pcs
  <2> QED
    BY <1>0, <1>8, <2>6, StoredType, UnchangedGroups DEF ConsumeHygiene
<1>9. CASE ResolvePending
  <2> DEFINE d == ResolveHygiene(delivery)
             a == IF d.status = "escalated" THEN "human-escalation" ELSE d.status
             h == IF session = "resume" THEN d.technicalHygiene ELSE controller.technicalHygiene
             c == [controller EXCEPT !.nextAction = a, !.technicalHygiene = h]
  <2>1. d \in Delivery
    BY Held, ResolveHygieneType
  <2>2. Persist(d, prBase, c) /\ delivery' = d
    BY <1>9 DEF ResolvePending
  <2> HIDE DEF d
  <2>3. a \in NextActions /\ h \in Hygiene
    BY <2>1, Held, DeliveryFields, ControllerFields DEF NextActions
  <2> HIDE DEF a, h
  <2>4. c \in Controller
    BY <2>3, Held DEF Controller
  <2> HIDE DEF c
  <2>5. CommentOK' /\ delivery' \in Delivery
    BY <2>1, <2>2, <2>4, Held, PersistType
  <2> QED
    BY <1>0, <1>9, <2>5, Held, StoredType, UnchangedGroups DEF ResolvePending
<1> QED
  BY <1>1, <1>2, <1>3, <1>4, <1>5, <1>6, <1>7, <1>8, <1>9 DEF HygieneStep

\* A read of the pull request keeps the types.
LEMMA ReadsIdentityType ==
  ASSUME TypeOK, NEW next \in Pcs, ReadsIdentity(next) PROVE TypeOK'
<1>0. /\ GithubOK /\ RunsOK /\ StatusOK /\ CommentOK /\ MemoryOK /\ IdentityOK /\ HistoryOK
  BY TypeGroups DEF MemoryOK
<1>1. confirmed' \in PullRequest
  BY Held DEF ReadsIdentity, PullRequest
<1>2. MemoryOK'
  BY <1>0, <1>1 DEF ReadsIdentity, MemoryOK, IdentityOK
<1> QED
  BY <1>0, <1>2, UnchangedGroups, TypeGroupsNext DEF ReadsIdentity

\* Releasing and reporting keep the types.
LEMMA ReleaseStepType == ASSUME TypeOK, ReleaseStep PROVE TypeOK'
<1>0. /\ GithubOK /\ RunsOK /\ StatusOK /\ CommentOK /\ MemoryOK /\ IdentityOK /\ HistoryOK
  BY TypeGroups DEF MemoryOK
<1>1. CASE ReleaseIdentityDrifts
  BY <1>1, EndedType DEF ReleaseIdentityDrifts
<1>2. CASE ReleaseRefused
  BY <1>2, EndedType DEF ReleaseRefused
<1>6. CASE RereadEvidence \/ EvaluateRelease \/ MarkReadyForReview \/ ConfirmReadyForReview
  <2>1. PICK next \in Pcs : ReadsIdentity(next)
    BY <1>6 DEF RereadEvidence, EvaluateRelease, MarkReadyForReview, ConfirmReadyForReview, Pcs
  <2> QED
    BY <2>1, ReadsIdentityType
<1>3. CASE Release
  <2>1. StatusOK'
    BY <1>0, <1>3, SetStatusType DEF Release, CommitStatuses
  <2>2. MemoryOK'
    BY <1>0, <1>3, UnchangedGroups DEF Release, MemoryOK, Pcs
  <2> QED
    BY <1>0, <1>3, <2>1, <2>2, UnchangedGroups, TypeGroupsNext DEF Release
<1>4. CASE RecordRelease
  <2>1. CommentOK'
    BY <1>4, Held, PersistNextActionType DEF RecordRelease, NextActions
  <2> QED
    BY <1>0, <1>4, <2>1, EndedWithCommentType, UnchangedGroups DEF RecordRelease
<1>5. CASE ReportEscalation
  <2>1. StatusOK'
    BY <1>0, <1>5, SetStatusType DEF ReportEscalation, CommitStatuses
  <2> QED
    BY <1>0, <1>5, <2>1, EndedWithCommentType, UnchangedGroups DEF ReportEscalation
<1> QED
  BY <1>1, <1>2, <1>3, <1>4, <1>5, <1>6 DEF ReleaseStep

-----------------------------------------------------------------------------
(* A new session.                                                            *)

\* What a new session reads back is a delivery.
LEMMA LoadedType == ASSUME TypeOK PROVE Loaded \in Delivery
BY Held, PersistenceTypes DEF Loaded

\* Entering the loop, or failing to, keeps the types.
LEMMA EnterResumeType ==
  ASSUME TypeOK, NEW d \in Delivery, NEW c \in Controller, EnterResume(d, c)
  PROVE  StatusOK' /\ CommentOK' /\ MemoryOK'
<1>0. StatusOK /\ CommentOK /\ MemoryOK
  BY TypeGroups
<1>1. StatusOK'
  BY <1>0, SetStatusType DEF EnterResume, CommitStatuses
<1>2. CASE WithinCeilings(d)
  <2> DEFINE a == IF c.nextAction \in EntryActions THEN c.nextAction ELSE d.status
  <2>1. a \in NextActions
    BY DeliveryFields, ControllerFields DEF NextActions
  <2>2. Persist(d, base, [c EXCEPT !.nextAction = a])
    BY <1>2 DEF EnterResume
  <2> HIDE DEF a
  <2>3. CommentOK'
    BY <2>1, <2>2, Held, NextActionType, PersistType
  <2>4. MemoryOK'
    BY <1>2, Held, NothingTypes DEF EnterResume, MemoryOK, IdentityOK, Sessions, Pcs
  <2> QED
    BY <1>1, <2>3, <2>4
<1>3. CASE ~WithinCeilings(d)
  BY <1>0, <1>1, <1>3, UnchangedGroups DEF EnterResume
<1> QED
  BY <1>2, <1>3

\* Resuming from a state, rebuilt or not, keeps the types.
LEMMA ResumeFromType ==
  ASSUME TypeOK, NEW d \in Delivery, NEW c \in Controller, ResumeFrom(d, c)
  PROVE  StatusOK' /\ CommentOK' /\ MemoryOK'
<1>1. RebuildCiPendingState(headRisk[remoteHead], remoteHead, d) \in Delivery
  BY Held, PersistenceTypes
<1> DEFINE h == IF persistent.materialHeadSha # remoteHead THEN NoHygiene ELSE c.technicalHygiene
<1>2. h \in Hygiene
  BY EmptyTypes, ControllerFields
<1>3. RebuiltMetadata(c) = [c EXCEPT !.nextAction = "observe-ci", !.auditRun = "none",
                                     !.technicalHygiene = h]
  BY DEF RebuiltMetadata
<1> HIDE DEF h
<1>4. RebuiltMetadata(c) \in Controller
  BY <1>2, <1>3 DEF Controller, NextActions, RunRefs
<1> QED
  BY <1>1, <1>4, EnterResumeType DEF ResumeFrom

\* A new session keeps the types.
LEMMA ResumeType == ASSUME TypeOK, Resume \/ ResumeRearmingHygiene PROVE TypeOK'
<1>0. /\ GithubOK /\ RunsOK /\ StatusOK /\ CommentOK /\ MemoryOK /\ IdentityOK /\ HistoryOK
  BY TypeGroups DEF MemoryOK
<1>1. CASE Resume
  <2>1. ApplyHygiene(Loaded, controller.technicalHygiene) \in Delivery
    BY LoadedType, Held, ControllerFields, ApplyHygieneType
  <2>2. StatusOK' /\ CommentOK' /\ MemoryOK'
    BY <1>1, <2>1, LoadedType, Held, ResumeFromType DEF Resume
  <2> QED
    BY <1>0, <1>1, <2>2, UnchangedGroups, TypeGroupsNext DEF Resume
<1>2. CASE ResumeRearmingHygiene
  <2> DEFINE d == IF Loaded.status = "escalated"
                  THEN [Loaded EXCEPT !.status = "technical-hygiene-pending",
                                      !.terminalReason = "none"]
                  ELSE Loaded
             c == [controller EXCEPT !.nextAction = "dispatch-technical-hygiene",
                                     !.hygieneRun = "reserved",
                                     !.technicalHygiene = NoHygiene]
  <2>1. [Loaded EXCEPT !.status = "technical-hygiene-pending",
                       !.terminalReason = "none"] \in Delivery
    BY LoadedType DEF Delivery, Statuses, Reasons
  <2>2. d \in Delivery
    BY <2>1, LoadedType
  <2>3. c \in Controller
    BY Held, EmptyTypes DEF Controller, NextActions, RunRefs
  <2>4. ResumeFrom(d, c)
    BY <1>2 DEF ResumeRearmingHygiene
  <2> HIDE DEF d, c
  <2>5. StatusOK' /\ CommentOK' /\ MemoryOK'
    BY <2>2, <2>3, <2>4, ResumeFromType
  <2>6. RunsOK'
    BY <1>0, <1>2, DomainTypes DEF ResumeRearmingHygiene, RunsOK
  <2> QED
    BY <1>0, <1>2, <2>5, <2>6, UnchangedGroups, TypeGroupsNext DEF ResumeRearmingHygiene
<1> QED
  BY <1>1, <1>2

-----------------------------------------------------------------------------

\* Every step keeps the types.
LEMMA NextType == TypeOK /\ [Next]_vars => TypeOK'
<1> SUFFICES ASSUME TypeOK, [Next]_vars PROVE TypeOK'
  OBVIOUS
<1>1. CASE SessionStep
  BY <1>1, MaterialStepType, CiStepType, WorkerStepType, AuditStepType, HygieneStepType,
     ReleaseStepType DEF SessionStep
<1>2. CASE Crash
  BY <1>2, EndedType DEF Crash
<1>3. CASE UNCHANGED vars
  BY <1>3, TypeGroups, TypeGroupsNext, UnchangedGroups DEF vars
<1> QED
  BY <1>1, <1>2, <1>3, EnvironmentType, WorkerRunsType, ResumeType DEF Next

\* The variables of the controller never leave their domains: every state that a
\* session computes, stores or reads back is one the code's normalisers accept.
THEOREM TypeCorrect == Spec => []TypeOK
BY InitType, NextType, PTL DEF Spec
=============================================================================
