--------------------------- MODULE DeliveryController ---------------------------
(***************************************************************************)
(* One managed pull request and the controller sessions that drive it, from *)
(* the moment the bootstrap worker has opened the pull request until the    *)
(* release status is published or a human has to decide.                    *)
(*                                                                          *)
(* A session is one run of scripts/run-delivery-v2-controller.mjs (kind     *)
(* "initial") or scripts/resume-delivery-v2-controller.mjs (kind "resume"). *)
(* The dispatch workflow has one concurrency group per issue, so at most    *)
(* one session exists at a time; it may die between any two steps, and all  *)
(* that survives is the state comment on the pull request: the persistent   *)
(* delivery state and the controller metadata beside it.  Meanwhile people  *)
(* push, the base branch advances, a new control plane is released, and a   *)
(* worker that was dispatched goes on whether or not anybody waits for it.  *)
(*                                                                          *)
(* Every AI run (worker, audit, technical hygiene) is launched in three     *)
(* steps: a nonce is stored ("reserved"), the workflow is dispatched with   *)
(* it, and the id of the run that carries the nonce is stored ("observed"). *)
(***************************************************************************)
EXTENDS DeliveryState

CONSTANTS
  MaxBase,          \* bound on advances of the base branch
  MaxControlPlane,  \* bound on releases of the control plane
  PlanRisks         \* the risk profiles a head's changed paths may resolve to

ASSUME BoundsAssumption == MaxBase \in Nat /\ MaxControlPlane \in Nat
ASSUME PlanRisksAssumption == PlanRisks \subseteq Profiles

VARIABLES
  (* GitHub: the head and base of the pull request, the risk that the changed *)
  (* paths of each head resolve to, and the released control plane.           *)
  remoteHead, lastHead, headRisk, base, controlPlane,
  (* The run that carries the last nonce of each kind.                        *)
  worker, audit, hygiene,
  commitStatus,      \* the release status GitHub holds for each head
  (* The state comment.                                                       *)
  persistent, persistentBase, controller,
  (* The session: its kind, where it is, and what it holds in memory.         *)
  session, pc, delivery, expectedBase, prBase, planRisk, checkout,
  confirmed,         \* the head and base that the release has read last
  (* History: attempts the bootstrap consumed, the bases on which required CI *)
  (* was seen green and an audit approved each head, and how many AI runs the *)
  (* sessions have launched.                                                  *)
  bootstrapAttempts, greenOn, approvedOn, workerLaunches, auditLaunches

github == <<remoteHead, lastHead, headRisk, base, controlPlane>>
runs == <<worker, audit, hygiene>>
comment == <<persistent, persistentBase, controller>>
identity == <<session, expectedBase, prBase, planRisk, checkout, confirmed>>
memory == <<identity, pc, delivery>>
launches == <<workerLaunches, auditLaunches>>
history == <<bootstrapAttempts, greenOn, approvedOn, launches>>
vars == <<github, runs, commitStatus, comment, memory, history>>

-----------------------------------------------------------------------------
(* Runs.  The outcome of a run is fixed when it is dispatched or finishes;    *)
(* nobody knows it before reading the finished run.  The bounded              *)
(* infrastructure retries inside one stage are folded into the outcome.       *)

ControlPlanes == 0..MaxControlPlane
Bases == 0..MaxBase

\* "material" pushed a head and says so; "claimed" says so without having
\* pushed; "failed" may have pushed before failing.
WorkerPhases == {"none", "running", "material", "claimed", "no-material", "failed"}
Worker == [phase : WorkerPhases, head : HeadOrNone, hygiene : HygieneResults,
           controlPlane : ControlPlanes]
NoWorker == [phase |-> "none", head |-> NoHead, hygiene |-> "PASS", controlPlane |-> 0]

\* candidate = NoHead: no run carries the nonce.  A run that ends red may still
\* have produced its verdict; "absent" is a run that produced none.
AuditRun ==
  {run \in [candidate : HeadOrNone, verdict : AuditVerdicts \cup {"absent"},
            green : BOOLEAN, controlPlane : ControlPlanes] :
     run.green => run.verdict # "absent"}
NoAuditRun == [candidate |-> NoHead, verdict |-> "absent", green |-> FALSE, controlPlane |-> 0]

\* examined = NoHead: no run carries the nonce.
HygieneRun == [examined : HeadOrNone, result : HygieneResults \cup {"failed"},
               controlPlane : ControlPlanes]
NoHygieneRun == [examined |-> NoHead, result |-> "failed", controlPlane |-> 0]

NextActions ==
  Statuses \cup
  {"none", "observe-ci", "dispatch-remediation", "observe-remediation",
   "dispatch-remediation-recovery", "remediation-worker-failed", "human-escalation",
   "dispatch-audit", "observe-audit", "audit-workflow-failed", "external-ci-blocker",
   "dispatch-technical-hygiene", "observe-technical-hygiene",
   "technical-hygiene-worker-failed", "external-head-drift-requires-controller-resume",
   "human-merge-policy"}

\* What the comment knows of a run: nothing, its nonce, or its id.
RunRefs == {"none", "reserved", "observed"}

Controller ==
  [nextAction : NextActions, workerRun : RunRefs, auditRun : RunRefs, hygieneRun : RunRefs,
   remediationContext : BOOLEAN, recoveredAt : ControlPlanes, technicalHygiene : Hygiene]

NoController ==
  [nextAction |-> "none", workerRun |-> "none", auditRun |-> "none", hygieneRun |-> "none",
   remediationContext |-> FALSE, recoveredAt |-> 0, technicalHygiene |-> NoHygiene]

NoDelivery == CreateDeliveryState("fast", NoHead)

Sessions == {"none", "initial", "resume"}
Pcs == {"idle", "discover", "assess", "promote", "promoting", "loop", "worker", "recover",
        "audit", "hygiene", "gate", "ready", "confirm", "publish", "released"}
\* The pull request as the release reads it.
PullRequest == [head : HeadOrNone, base : Bases]
NoPullRequest == [head |-> NoHead, base |-> 0]
CommitStatuses == {"none", "pending", "failure", "success"}

\* Every variable stays in the domain the code's normalisers accept.
TypeOK ==
  /\ remoteHead \in Heads /\ lastHead \in Heads
  /\ headRisk \in [Heads -> Profiles]
  /\ base \in Bases /\ controlPlane \in ControlPlanes
  /\ worker \in Worker /\ audit \in AuditRun /\ hygiene \in HygieneRun
  /\ commitStatus \in [Heads -> CommitStatuses]
  /\ persistent \in Delivery /\ persistentBase \in Bases /\ controller \in Controller
  /\ session \in Sessions /\ pc \in Pcs /\ delivery \in Delivery
  /\ expectedBase \in Bases /\ prBase \in Bases
  /\ planRisk \in Profiles /\ checkout \in ControlPlanes /\ confirmed \in PullRequest
  /\ bootstrapAttempts \in Nat \ {0}
  /\ greenOn \in [Heads -> SUBSET Bases] /\ approvedOn \in [Heads -> SUBSET Bases]
  /\ workerLaunches \in Nat /\ auditLaunches \in Nat

\* The initial session has seen its bootstrap worker succeed: head 1 is pushed,
\* and no state comment exists yet.
Init ==
  /\ remoteHead = 1 /\ lastHead = 1
  /\ \E risk \in PlanRisks : headRisk = [h \in Heads |-> risk]
  /\ base = 0 /\ controlPlane = 0
  /\ \E r \in HygieneResults :
       worker = [phase |-> "material", head |-> 1, hygiene |-> r, controlPlane |-> 0]
  /\ audit = NoAuditRun /\ hygiene = NoHygieneRun
  /\ commitStatus = [h \in Heads |-> "none"]
  /\ persistent = NoDelivery /\ persistentBase = 0 /\ controller = NoController
  /\ session = "initial" /\ pc = "discover" /\ delivery = NoDelivery
  /\ expectedBase = 0 /\ prBase = 0 /\ planRisk = "fast" /\ checkout = 0
  /\ confirmed = NoPullRequest
  /\ \E issueRisk \in PlanRisks :
       bootstrapAttempts \in 1..MaxImplementationAttempts[issueRisk]
  /\ greenOn = [h \in Heads |-> {}] /\ approvedOn = [h \in Heads |-> {}]
  /\ workerLaunches = 0 /\ auditLaunches = 0

-----------------------------------------------------------------------------
(* The environment.                                                          *)

NewHead == lastHead + 1

Push ==
  /\ lastHead < MaxHead
  /\ remoteHead' = NewHead /\ lastHead' = NewHead
  /\ \E risk \in PlanRisks : headRisk' = [headRisk EXCEPT ![NewHead] = risk]

\* Somebody, or a worker no session knows any more, pushes to the branch.
ExternalPush ==
  /\ Push
  /\ UNCHANGED <<base, controlPlane, runs, commitStatus, comment, memory, history>>

BaseAdvance ==
  /\ base < MaxBase
  /\ base' = base + 1
  /\ UNCHANGED <<remoteHead, lastHead, headRisk, controlPlane, runs, commitStatus, comment,
                 memory, history>>

ControlPlaneRelease ==
  /\ controlPlane < MaxControlPlane
  /\ controlPlane' = controlPlane + 1
  /\ UNCHANGED <<remoteHead, lastHead, headRisk, base, runs, commitStatus, comment, memory,
                 history>>

\* The hygiene result that a worker leaves is read only when it succeeds and
\* claims material.
WorkerPushes ==
  /\ worker.phase = "running" /\ Push
  /\ \/ \E r \in HygieneResults :
          worker' = [worker EXCEPT !.phase = "material", !.head = NewHead, !.hygiene = r]
     \/ worker' = [worker EXCEPT !.phase = "failed", !.head = NewHead]
  /\ UNCHANGED <<base, controlPlane, audit, hygiene, commitStatus, comment, memory, history>>

WorkerEndsWithoutPush ==
  /\ worker.phase = "running"
  /\ \/ \E r \in HygieneResults : worker' = [worker EXCEPT !.phase = "claimed", !.hygiene = r]
     \/ \E phase \in {"no-material", "failed"} : worker' = [worker EXCEPT !.phase = phase]
  /\ UNCHANGED <<github, audit, hygiene, commitStatus, comment, memory, history>>

-----------------------------------------------------------------------------
(* Writing the state comment, and ending a session.                           *)

Persist(d, b, c) ==
  /\ persistent' = Persisted(d) /\ persistentBase' = b /\ controller' = c

EndSession ==
  /\ session' = "none" /\ pc' = "idle" /\ delivery' = NoDelivery
  /\ expectedBase' = 0 /\ prBase' = 0 /\ planRisk' = "fast" /\ checkout' = 0
  /\ confirmed' = NoPullRequest

greenHeads == {h \in Heads : greenOn[h] # {}}
approvedHeads == {h \in Heads : approvedOn[h] # {}}

\* Mutant: a success, once published, is left alone.
SetStatusUnlessSuccess(h, s) ==
  commitStatus' = [commitStatus EXCEPT ![h] = IF @ = "success" THEN @ ELSE s]

SetStatus(h, s) == commitStatus' = [commitStatus EXCEPT ![h] = s]

\* The job times out, the runner dies, or an API call throws.  Nothing that was
\* not persisted survives.
Crash ==
  /\ session # "none"
  /\ EndSession
  /\ UNCHANGED <<github, runs, commitStatus, comment, history>>

AtLoop(status) == pc = "loop" /\ delivery.status = status
HeadDrifted == remoteHead # delivery.materialHeadSha
\* Mutant: only the base is compared before a release.
BaseDrifted == base # expectedBase

IdentityDrifted == HeadDrifted \/ base # expectedBase

-----------------------------------------------------------------------------
(* The material a session has found, its technical hygiene, and the promotion *)
(* of FAST to STANDARD that a material UNKNOWN asks for.                      *)

\* The result is labelled with the head the session is about.
HygieneFor(d, examined, result) ==
  [materialSha |-> d.materialHeadSha, examined |-> examined, result |-> result,
   promotionRequired |-> (result = "UNKNOWN" /\ d.riskProfile = "fast")]

\* The initial session has not remediated yet.
BootstrapMaterial ==
  /\ session = "initial"
  /\ delivery.implementationAttempts = bootstrapAttempts
  /\ delivery.auditRemediationAttempts = 0

\* What a session stores once material and its hygiene result are known.
NewMaterialMetadata(d) ==
  [controller EXCEPT !.nextAction = "observe-ci", !.workerRun = "none", !.auditRun = "none",
                     !.technicalHygiene = d.technicalHygiene]

AcceptMaterial(d, b) ==
  /\ delivery' = d
  /\ IF d.technicalHygiene.promotionRequired
     THEN pc' = "promote" /\ UNCHANGED <<comment, commitStatus>>
     ELSE /\ pc' = "loop" /\ WithinCeilings(d)
          /\ Persist(d, b, NewMaterialMetadata(d))
          /\ IF BootstrapMaterial
             THEN SetStatus(d.materialHeadSha, "pending")
             ELSE UNCHANGED commitStatus

DiscoverMaterial ==
  LET created == CreateOperationalDelivery(headRisk[remoteHead], remoteHead)
  IN /\ pc = "discover"
     /\ delivery' = [created EXCEPT !.implementationAttempts = bootstrapAttempts]
     /\ pc' = "assess" /\ planRisk' = headRisk[remoteHead]
     /\ expectedBase' = base /\ prBase' = base
     /\ UNCHANGED <<github, runs, commitStatus, comment, session, checkout, confirmed,
                    history>>

AssessedMaterial == ApplyHygiene(delivery, HygieneFor(delivery, worker.head, worker.hygiene))

AssessMaterial ==
  /\ pc = "assess"
  /\ AcceptMaterial(AssessedMaterial, prBase)
  /\ UNCHANGED <<github, runs, identity, history>>

Pending == session = "resume" /\ AtLoop("technical-hygiene-pending")

AwaitsPromotion == pc = "promote" \/ (Pending /\ delivery.technicalHygiene.promotionRequired)
PromotedRisk == IF HigherRisk("standard", planRisk) THEN "standard" ELSE planRisk
Promoted == PromoteRisk(delivery, PromotedRisk)

\* The bootstrap may have been granted more attempts, from the labels of the
\* issue, than the ceiling of the risk the pull request resolves to.
MaterialUnstorable ==
  /\ \/ /\ pc = "assess"
        /\ ~AssessedMaterial.technicalHygiene.promotionRequired
        /\ ~WithinCeilings(AssessedMaterial)
        /\ SetStatus(delivery.materialHeadSha, "pending")
     \/ /\ AwaitsPromotion /\ ~WithinCeilings(Promoted)
        /\ UNCHANGED commitStatus
  /\ EndSession
  /\ UNCHANGED <<github, runs, comment, history>>

ReservePromotion ==
  LET kept == IF Pending THEN NoHygiene ELSE controller.technicalHygiene
  IN /\ AwaitsPromotion
     /\ CanPromoteRisk(delivery, PromotedRisk) /\ WithinCeilings(Promoted)
     /\ delivery' = Promoted /\ planRisk' = PromotedRisk /\ pc' = "promoting"
     /\ Persist(Promoted, prBase,
                [controller EXCEPT !.nextAction = "dispatch-technical-hygiene",
                                   !.hygieneRun = "reserved", !.technicalHygiene = kept])
     /\ hygiene' = NoHygieneRun
     /\ UNCHANGED <<github, worker, audit, commitStatus, session, expectedBase, prBase,
                    checkout, confirmed, history>>

PromotionHolds == hygiene.result # "failed" /\ ~HeadDrifted

PromotionFailed ==
  /\ pc = "promoting" /\ controller.hygieneRun = "observed" /\ ~PromotionHolds
  /\ EndSession
  /\ UNCHANGED <<github, runs, commitStatus, comment, history>>

PromotionResult ==
  ApplyHygiene(delivery, HygieneFor(delivery, hygiene.examined, hygiene.result))

MaterialPromoted ==
  /\ pc = "promoting" /\ controller.hygieneRun = "observed" /\ PromotionHolds
  /\ delivery.status = "ci-pending"
  /\ AcceptMaterial(PromotionResult, prBase)
  /\ UNCHANGED <<github, runs, identity, history>>

PendingPromoted ==
  /\ pc = "promoting" /\ controller.hygieneRun = "observed" /\ PromotionHolds
  /\ delivery.status = "technical-hygiene-pending"
  /\ delivery' = PromotionResult /\ pc' = "loop"
  /\ Persist(PromotionResult, prBase,
             [controller EXCEPT !.technicalHygiene = PromotionResult.technicalHygiene])
  /\ UNCHANGED <<github, runs, commitStatus, identity, history>>

-----------------------------------------------------------------------------
(* Required CI for the exact head.                                            *)

\* The initial controller loops back to the required check from every state it
\* does not handle, so it waits there with a hygiene block as well.
HygieneBlocked ==
  /\ AtLoop("ci-failed-remediable")
  /\ delivery.ciFailure.cause = "technical-hygiene-block"
InitialWaitsForCi == session = "initial" /\ (AtLoop("ci-pending") \/ HygieneBlocked)

InitialObservesDrift ==
  LET drifted == RecordHeadDrift(delivery, remoteHead)
      d == Classify(drifted, headRisk[remoteHead])
  IN /\ InitialWaitsForCi /\ HeadDrifted
     /\ CanDrift(delivery) /\ CanClassify(drifted)
     /\ IF WithinCeilings(d)
        THEN Persist(d, base,
                     [controller EXCEPT
                        !.nextAction = "external-head-drift-requires-controller-resume",
                        !.technicalHygiene = NoHygiene])
        ELSE UNCHANGED comment
     /\ EndSession
     /\ UNCHANGED <<github, runs, commitStatus, history>>

\* Recording CI on a candidate that hygiene has blocked throws.
InitialBlockedByHygiene ==
  /\ InitialWaitsForCi /\ HygieneBlocked /\ ~HeadDrifted
  /\ EndSession
  /\ UNCHANGED <<github, runs, commitStatus, comment, history>>

ResumeObservesDrift ==
  LET d == RebuildCiPendingState(headRisk[remoteHead], remoteHead, delivery)
  IN /\ session = "resume" /\ AtLoop("ci-pending") /\ HeadDrifted
     /\ IF WithinCeilings(d)
        THEN /\ delivery' = d /\ planRisk' = headRisk[remoteHead] /\ prBase' = base
             /\ Persist(d, base, [controller EXCEPT !.nextAction = "observe-ci",
                                                    !.technicalHygiene = NoHygiene])
             /\ UNCHANGED <<session, pc, expectedBase, checkout, confirmed>>
        ELSE EndSession /\ UNCHANGED comment
     /\ UNCHANGED <<github, runs, commitStatus, history>>

AwaitsCi == pc = "loop" /\ CanRecordCi(delivery, remoteHead)

CiSucceeds ==
  LET d == ApplyCiSuccess(delivery)
  IN /\ AwaitsCi
     /\ delivery' = d /\ Persist(d, prBase, [controller EXCEPT !.nextAction = d.status])
     /\ greenOn' = [greenOn EXCEPT ![remoteHead] = @ \cup {base}]
     /\ UNCHANGED <<github, runs, commitStatus, identity, pc, bootstrapAttempts,
                    approvedOn, launches>>

CiFailsActionably ==
  LET d == RecordCiFailure(delivery, "actionable")
  IN /\ AwaitsCi
     /\ delivery' = d /\ Persist(d, prBase, [controller EXCEPT !.nextAction = d.status])
     /\ UNCHANGED <<github, runs, commitStatus, identity, pc, history>>

CiFailsExternally ==
  /\ AwaitsCi
  /\ Persist(RecordCiFailure(delivery, "external"), prBase,
             [controller EXCEPT !.nextAction = "external-ci-blocker"])
  /\ SetStatus(delivery.materialHeadSha, "failure")
  /\ EndSession
  /\ UNCHANGED <<github, runs, history>>

-----------------------------------------------------------------------------
(* Remediation by a bounded worker.  The attempt is charged and stored before *)
(* the worker is dispatched.                                                  *)

ReserveRemediation ==
  LET d == StartImplementation(delivery)
  IN /\ pc = "loop"
     /\ CanStartImplementation(delivery) /\ ~InitialWaitsForCi
     /\ delivery' = d
     /\ IF d.status = "escalated"
        THEN /\ Persist(d, prBase, [controller EXCEPT !.nextAction = "human-escalation"])
             /\ UNCHANGED <<worker, pc>>
        ELSE /\ Persist(d, prBase,
                        [controller EXCEPT !.nextAction = "dispatch-remediation",
                                           !.workerRun = "reserved",
                                           !.remediationContext = @ \/ session = "resume"])
             /\ worker' = NoWorker /\ pc' = "worker"
     /\ UNCHANGED <<github, audit, hygiene, commitStatus, identity, history>>

\* A worker whose workflow stands for another risk than the stored one is
\* refused by its own authorization step.
LaunchWorker ==
  /\ pc = "worker" /\ controller.workerRun = "reserved" /\ worker.phase = "none"
  /\ worker' = [NoWorker EXCEPT !.phase = IF planRisk = persistent.riskProfile
                                          THEN "running" ELSE "failed",
                                !.controlPlane = controlPlane]
  /\ workerLaunches' = workerLaunches + 1
  /\ UNCHANGED <<github, audit, hygiene, commitStatus, comment, memory, bootstrapAttempts,
                 greenOn, approvedOn, auditLaunches>>

CorrelateWorker ==
  /\ pc \in {"worker", "recover"} /\ controller.workerRun = "reserved" /\ worker.phase # "none"
  /\ Persist(delivery, prBase, [controller EXCEPT !.nextAction = "observe-remediation",
                                                  !.workerRun = "observed"])
  /\ UNCHANGED <<github, runs, commitStatus, memory, history>>

\* An attempt reserved but never dispatched cannot be told from one whose run is
\* not visible yet: a resumed session refuses to launch a duplicate.
RecoveryRefused ==
  /\ pc = "recover" /\ (controller.workerRun = "none" \/ worker.phase = "none")
  /\ EndSession
  /\ UNCHANGED <<github, runs, commitStatus, comment, history>>

\* Mutant: a failed worker is launched again under any control plane.
CanRearmAnyFailedWorker ==
  /\ worker.phase = "failed"
  /\ controller.remediationContext \/ delivery.auditEvidence.decision = "rejected"

\* A remediation worker that failed under another control plane is launched once
\* more under the current one, on the same attempt.
CanRearmWorker ==
  /\ worker.phase = "failed"
  /\ controller.remediationContext \/ delivery.auditEvidence.decision = "rejected"
  /\ worker.controlPlane # checkout /\ controller.recoveredAt # checkout

RearmWorker ==
  /\ pc = "recover" /\ controller.workerRun = "observed" /\ CanRearmWorker
  /\ Persist(delivery, prBase,
             [controller EXCEPT !.nextAction = "dispatch-remediation-recovery",
                                !.workerRun = "reserved", !.remediationContext = TRUE,
                                !.recoveredAt = checkout])
  /\ worker' = NoWorker /\ pc' = "worker"
  /\ UNCHANGED <<github, audit, hygiene, commitStatus, identity, delivery, history>>

WorkerFinished(phases) ==
  /\ controller.workerRun = "observed" /\ worker.phase \in phases
  /\ \/ pc = "worker"
     \/ pc = "recover" /\ ~CanRearmWorker

WorkerFailed ==
  /\ WorkerFinished({"failed"})
  /\ IF session = "resume"
     THEN /\ Persist(delivery, prBase,
                     [controller EXCEPT !.nextAction = "remediation-worker-failed"])
          /\ SetStatus(delivery.materialHeadSha, "failure")
     ELSE UNCHANGED <<comment, commitStatus>>
  /\ EndSession
  /\ UNCHANGED <<github, runs, history>>

RemediationWithoutMaterial ==
  /\ WorkerFinished({"no-material"})
  /\ Persist(Escalate(delivery, "remediation-produced-no-material"), prBase,
             [controller EXCEPT !.nextAction = "human-escalation"])
  /\ IF session = "resume"
     THEN SetStatus(delivery.materialHeadSha, "failure")
     ELSE UNCHANGED commitStatus
  /\ EndSession
  /\ UNCHANGED <<github, runs, history>>

\* Mutant: the wait for the head has no deadline.
MaterialIsAwaitedForever ==
  WorkerFinished({"material", "claimed"}) /\ ~HeadDrifted /\ UNCHANGED vars

\* The worker says it published material but the head does not move in time.
MaterialNeverAppears ==
  /\ WorkerFinished({"material", "claimed"}) /\ ~HeadDrifted
  /\ EndSession
  /\ UNCHANGED <<github, runs, commitStatus, comment, history>>

\* Any change of the head is taken for the worker's.
MaterialAppears == WorkerFinished({"material", "claimed"}) /\ HeadDrifted

\* The new head opened a higher risk.  The initial controller does not store it.
MaterialEscalates ==
  /\ MaterialAppears /\ HigherRisk(headRisk[remoteHead], delivery.riskProfile)
  /\ IF session = "resume"
     THEN Persist(Escalate(delivery, "remediation-opened-higher-risk-surface"), base,
                  [controller EXCEPT !.nextAction = "human-escalation"])
     ELSE UNCHANGED comment
  /\ SetStatus(remoteHead, "failure")
  /\ EndSession
  /\ UNCHANGED <<github, runs, history>>

MaterialPublished ==
  LET published == PublishMaterial(delivery, remoteHead)
      h == HygieneFor(published, worker.head, worker.hygiene)
  IN /\ MaterialAppears /\ ~HigherRisk(headRisk[remoteHead], delivery.riskProfile)
     /\ CanPublishMaterial(delivery)
     /\ AcceptMaterial(ApplyHygiene(published, h), base)
     /\ planRisk' = headRisk[remoteHead] /\ prBase' = base
     /\ UNCHANGED <<github, runs, session, expectedBase, checkout, confirmed, history>>

-----------------------------------------------------------------------------
(* Independent audit.                                                         *)

StartsAudit(d, c) ==
  /\ delivery' = d /\ pc' = "audit" /\ audit' = NoAuditRun
  /\ Persist(d, prBase, [c EXCEPT !.nextAction = "dispatch-audit", !.auditRun = "reserved"])

\* Only the resume script looks at the outcome of start-audit before it
\* dispatches the run.
ReserveAudit ==
  LET d == StartAudit(delivery)
  IN /\ AtLoop("audit-pending") /\ CanStartAudit(delivery)
     /\ session = "initial" \/ controller.auditRun = "none"
     /\ IF session = "resume" /\ d.status = "escalated"
        THEN /\ delivery' = d
             /\ Persist(d, prBase, [controller EXCEPT !.nextAction = "human-escalation"])
             /\ UNCHANGED <<pc, audit>>
        ELSE StartsAudit(d, controller)
     /\ UNCHANGED <<github, worker, hygiene, commitStatus, identity, history>>

\* A red run without a verdict, of another control plane, is replaced on the same
\* attempt.
CanRearmAudit ==
  /\ controller.auditRun = "observed"
  /\ ~audit.green /\ audit.verdict = "absent" /\ audit.controlPlane # checkout

RearmAudit ==
  /\ session = "resume" /\ AtLoop("audit-pending") /\ CanRearmAudit
  /\ StartsAudit([delivery EXCEPT !.auditInFlight = TRUE], controller)
  /\ UNCHANGED <<github, worker, hygiene, commitStatus, identity, history>>

\* A resumed session takes over the audit whose identity is stored.
AdoptAudit ==
  /\ session = "resume" /\ AtLoop("audit-pending")
  /\ controller.auditRun # "none" /\ delivery.auditAttempts > 0 /\ ~CanRearmAudit
  /\ delivery' = [delivery EXCEPT !.auditInFlight = TRUE] /\ pc' = "audit"
  /\ UNCHANGED <<github, runs, commitStatus, comment, identity, history>>

\* The audit workflow refuses a source CI run that is not of the head it audits.
LaunchAudit ==
  /\ pc = "audit" /\ controller.auditRun = "reserved" /\ audit.candidate = NoHead
  /\ controller.nextAction = "dispatch-audit"
  /\ \E run \in AuditRun :
       /\ run.candidate = delivery.materialHeadSha /\ run.controlPlane = controlPlane
       /\ HeadDrifted => run.verdict = "absent"
       /\ audit' = run
       /\ approvedOn' = IF run.verdict = "approved"
                        THEN [approvedOn EXCEPT ![run.candidate] = @ \cup {base}] ELSE approvedOn
  /\ auditLaunches' = auditLaunches + 1
  /\ UNCHANGED <<github, worker, hygiene, commitStatus, comment, memory, bootstrapAttempts,
                 greenOn, workerLaunches>>

CorrelateAudit ==
  /\ pc = "audit" /\ controller.auditRun = "reserved" /\ audit.candidate # NoHead
  /\ Persist(delivery, prBase, [controller EXCEPT !.nextAction = "observe-audit",
                                                  !.auditRun = "observed"])
  /\ UNCHANGED <<github, runs, commitStatus, memory, history>>

AuditRecoveryRefused ==
  /\ pc = "audit" /\ controller.auditRun = "reserved" /\ audit.candidate = NoHead
  /\ controller.nextAction # "dispatch-audit"
  /\ EndSession
  /\ UNCHANGED <<github, runs, commitStatus, comment, history>>

\* The resume script reads the verdict of a red run; the initial one does not.
VerdictReadable == audit.green \/ (session = "resume" /\ audit.verdict # "absent")

AuditWorkflowFailed ==
  /\ pc = "audit" /\ controller.auditRun = "observed" /\ ~VerdictReadable
  /\ Persist(delivery, prBase, [controller EXCEPT !.nextAction = "audit-workflow-failed"])
  /\ EndSession
  /\ UNCHANGED <<github, runs, commitStatus, history>>

ConsumeVerdict ==
  LET d == ApplyAuditResult(delivery, audit.verdict)
  IN /\ pc = "audit" /\ controller.auditRun = "observed" /\ VerdictReadable
     /\ CanRecordAudit(delivery, audit.candidate)
     /\ delivery' = d /\ pc' = "loop"
     /\ Persist(d, prBase, [controller EXCEPT !.nextAction = d.status])
     /\ UNCHANGED <<github, runs, commitStatus, identity, history>>

-----------------------------------------------------------------------------
(* Technical hygiene evidence of a resumed session, and its resolution.       *)

NeedsHygiene == Pending /\ delivery.technicalHygiene.result = "none"

StartsHygiene(stored) ==
  /\ pc' = "hygiene" /\ hygiene' = NoHygieneRun
  /\ Persist(delivery, prBase,
             [controller EXCEPT !.nextAction = "dispatch-technical-hygiene",
                                !.hygieneRun = "reserved", !.technicalHygiene = stored])
  /\ UNCHANGED <<github, worker, audit, commitStatus, identity, delivery, history>>

ReserveHygiene ==
  NeedsHygiene /\ controller.hygieneRun = "none" /\ StartsHygiene(controller.technicalHygiene)

CanRearmHygiene ==
  /\ controller.hygieneRun = "observed" /\ hygiene.controlPlane # checkout
  /\ IF hygiene.result = "failed"
     THEN controller.nextAction = "technical-hygiene-worker-failed"
     ELSE controller.technicalHygiene.result = "none"

\* Only a rearm forgets the result stored beside the run.
RearmHygiene == NeedsHygiene /\ CanRearmHygiene /\ StartsHygiene(NoHygiene)

\* The stored run is read again, whichever head it was dispatched for.
AdoptHygiene ==
  /\ NeedsHygiene /\ controller.hygieneRun # "none" /\ ~CanRearmHygiene
  /\ pc' = "hygiene"
  /\ UNCHANGED <<github, runs, commitStatus, comment, identity, delivery, history>>

HygieneUndispatched ==
  /\ pc \in {"hygiene", "promoting"}
  /\ controller.hygieneRun = "reserved" /\ hygiene.examined = NoHead

\* A hygiene worker examines the exact head it is asked about, and is refused
\* when the risk its workflow stands for is not the stored one.
LaunchHygiene ==
  /\ HygieneUndispatched /\ controller.nextAction = "dispatch-technical-hygiene"
  /\ \E run \in HygieneRun :
       /\ run.examined = delivery.materialHeadSha /\ run.controlPlane = controlPlane
       /\ planRisk # persistent.riskProfile => run.result = "failed"
       /\ hygiene' = run
  /\ UNCHANGED <<github, worker, audit, commitStatus, comment, memory, history>>

CorrelateHygiene ==
  /\ pc \in {"hygiene", "promoting"}
  /\ controller.hygieneRun = "reserved" /\ hygiene.examined # NoHead
  /\ Persist(delivery, prBase, [controller EXCEPT !.nextAction = "observe-technical-hygiene",
                                                  !.hygieneRun = "observed"])
  /\ UNCHANGED <<github, runs, commitStatus, memory, history>>

HygieneRecoveryRefused ==
  /\ HygieneUndispatched /\ controller.nextAction # "dispatch-technical-hygiene"
  /\ EndSession
  /\ UNCHANGED <<github, runs, commitStatus, comment, history>>

HygieneWorkerFailed ==
  /\ pc = "hygiene" /\ controller.hygieneRun = "observed" /\ hygiene.result = "failed"
  /\ Persist(delivery, prBase,
             [controller EXCEPT !.nextAction = "technical-hygiene-worker-failed"])
  /\ EndSession
  /\ UNCHANGED <<github, runs, commitStatus, history>>

ConsumeHygiene ==
  LET d == ApplyHygiene(delivery, HygieneFor(delivery, hygiene.examined, hygiene.result))
  IN /\ pc = "hygiene" /\ controller.hygieneRun = "observed" /\ hygiene.result # "failed"
     /\ ~IdentityDrifted
     /\ delivery' = d /\ pc' = "loop"
     /\ Persist(d, prBase, [controller EXCEPT !.nextAction = d.status,
                                              !.technicalHygiene = d.technicalHygiene])
     /\ UNCHANGED <<github, runs, commitStatus, identity, history>>

\* Missing evidence that nothing can supply any more needs a human.
ResolvePending ==
  LET d == ResolveHygiene(delivery)
  IN /\ AtLoop("technical-hygiene-pending") /\ ~NeedsHygiene
     /\ ~(Pending /\ delivery.technicalHygiene.promotionRequired)
     /\ delivery' = d
     /\ Persist(d, prBase,
                [controller EXCEPT !.nextAction = IF d.status = "escalated"
                                                  THEN "human-escalation" ELSE d.status,
                                   !.technicalHygiene = IF session = "resume"
                                                        THEN d.technicalHygiene ELSE @])
     /\ UNCHANGED <<github, runs, commitStatus, identity, pc, history>>

-----------------------------------------------------------------------------
(* Release, and the end of a session.                                         *)

\* The release identity is checked before hygiene is asked for, before its
\* result is used, and by every read of the release.  A drift that is noticed
\* after the pull request has left its draft puts it back.
ReleaseIdentityDrifts ==
  /\ \/ Pending \/ AtLoop("ready-for-human-merge")
     \/ pc \in {"hygiene", "gate", "ready", "confirm"}
  /\ IdentityDrifted
  /\ EndSession
  /\ UNCHANGED <<github, runs, commitStatus, comment, history>>

\* A resumed session reads the check and the audit again; only a green audit run
\* counts here.
EvidenceReread ==
  session = "resume" =>
    /\ remoteHead \in greenHeads
    /\ AuditRequired(delivery) =>
         /\ controller.auditRun = "observed"
         /\ audit.green /\ audit.verdict = "approved" /\ audit.candidate = remoteHead

ReleaseRefused ==
  /\ session = "resume" /\ AtLoop("ready-for-human-merge")
  /\ ~IdentityDrifted /\ ~EvidenceReread
  /\ EndSession
  /\ UNCHANGED <<github, runs, commitStatus, comment, history>>

\* One read of the pull request by the release, which goes on with the next one:
\* anything may happen between two of them.
ReadsIdentity(next) ==
  /\ ~IdentityDrifted
  /\ confirmed' = [head |-> remoteHead, base |-> base] /\ pc' = next
  /\ UNCHANGED <<github, runs, commitStatus, comment, session, expectedBase, prBase, planRisk,
                 checkout, delivery, history>>

RereadEvidence ==
  /\ session = "resume" /\ AtLoop("ready-for-human-merge") /\ EvidenceReread
  /\ ReadsIdentity("gate")

\* The merge preview and the release gate.
EvaluateRelease ==
  /\ \/ session = "initial" /\ AtLoop("ready-for-human-merge")
     \/ pc = "gate"
  /\ ReadsIdentity("ready")

\* A draft is marked ready for review, and the pull request is then read again;
\* one that anybody has marked before is not.
MarkReadyForReview ==
  pc = "ready" /\ \E next \in {"confirm", "publish"} : ReadsIdentity(next)

ConfirmReadyForReview == pc = "confirm" /\ ReadsIdentity("publish")

\* The status is posted for the head of the delivery, without another read.
Release ==
  /\ pc = "publish"
  /\ SetStatus(delivery.materialHeadSha, "success") /\ pc' = "released"
  /\ UNCHANGED <<github, runs, comment, identity, delivery, history>>

RecordRelease ==
  /\ pc = "released"
  /\ Persist(delivery, prBase, [controller EXCEPT !.nextAction = "human-merge-policy"])
  /\ EndSession
  /\ UNCHANGED <<github, runs, commitStatus, history>>

ReportEscalation ==
  /\ AtLoop("escalated")
  /\ SetStatus(delivery.materialHeadSha, "failure")
  /\ EndSession
  /\ UNCHANGED <<github, runs, comment, history>>

-----------------------------------------------------------------------------
(* A new session resumes from the state comment.                              *)

\* Mutant: an advance of the base is not noticed.
StoredHeadStale == persistent.materialHeadSha # remoteHead

StoredStale == persistent.materialHeadSha # remoteHead \/ persistentBase # base

Loaded ==
  OperationalFromPersistent(IF StoredStale
                            THEN ReconcilePersistentState(persistent, remoteHead)
                            ELSE persistent)

\* Actions of the comment that survive the first write of the new session.
EntryActions ==
  {"dispatch-technical-hygiene", "observe-technical-hygiene", "technical-hygiene-worker-failed",
   "dispatch-remediation", "observe-remediation", "remediation-worker-failed",
   "dispatch-remediation-recovery"}

RebuiltMetadata(c) ==
  [c EXCEPT !.nextAction = "observe-ci", !.auditRun = "none",
            !.technicalHygiene = IF persistent.materialHeadSha # remoteHead
                                 THEN NoHygiene ELSE @]

\* Enter the loop with state d and metadata c, or fail on the first write.
EnterResume(d, c) ==
  /\ SetStatus(remoteHead, "pending")
  /\ IF WithinCeilings(d)
     THEN /\ session' = "resume" /\ checkout' = controlPlane
          /\ delivery' = d /\ pc' = IF d.status = "implementing" THEN "recover" ELSE "loop"
          /\ expectedBase' = base /\ prBase' = base /\ planRisk' = headRisk[remoteHead]
          /\ confirmed' = NoPullRequest
          /\ Persist(d, base, [c EXCEPT !.nextAction = IF @ \in EntryActions
                                                       THEN @ ELSE d.status])
     ELSE UNCHANGED <<memory, comment>>

ResumeFrom(d, c) ==
  IF MustRebuildOnResume(StoredStale, d)
  THEN EnterResume(RebuildCiPendingState(headRisk[remoteHead], remoteHead, d), RebuiltMetadata(c))
  ELSE EnterResume(d, c)

CanResume == session = "none" /\ persistent.materialHeadSha # NoHead

\* The stored hygiene result is applied again; one that is not for the stored
\* head makes the session throw before it has done anything.
Resume ==
  /\ CanResume
  /\ IF StoredStale \/ controller.technicalHygiene.result = "none"
     THEN ResumeFrom(Loaded, controller)
     ELSE /\ CanApplyHygiene(Loaded, controller.technicalHygiene)
          /\ ResumeFrom(ApplyHygiene(Loaded, controller.technicalHygiene), controller)
  /\ UNCHANGED <<github, runs, history>>

\* Mutant: any UNKNOWN is forgotten, whatever control plane produced it.
CanRearmAnyUnknown ==
  /\ ~StoredStale /\ controller.technicalHygiene.result = "UNKNOWN"
  /\ controller.hygieneRun = "observed" /\ hygiene.result # "failed"
  /\ Loaded.status = "escalated" => Loaded.terminalReason = "technical-hygiene"

\* An UNKNOWN that a broken toolchain caused is forgotten once the control plane
\* has moved; the escalation it led to is taken back.
CanRearmUnknown ==
  /\ ~StoredStale /\ controller.technicalHygiene.result = "UNKNOWN"
  /\ controller.hygieneRun = "observed" /\ hygiene.result # "failed"
  /\ hygiene.controlPlane # controlPlane
  /\ Loaded.status = "escalated" => Loaded.terminalReason = "technical-hygiene"

ResumeRearmingHygiene ==
  LET d == IF Loaded.status = "escalated"
           THEN [Loaded EXCEPT !.status = "technical-hygiene-pending", !.terminalReason = "none"]
           ELSE Loaded
  IN /\ CanResume /\ CanRearmUnknown
     /\ ResumeFrom(d, [controller EXCEPT !.nextAction = "dispatch-technical-hygiene",
                                         !.hygieneRun = "reserved",
                                         !.technicalHygiene = NoHygiene])
     /\ hygiene' = IF session' = "resume" THEN NoHygieneRun ELSE hygiene
     /\ UNCHANGED <<github, worker, audit, history>>

-----------------------------------------------------------------------------
Environment == ExternalPush \/ BaseAdvance \/ ControlPlaneRelease
WorkerRuns == WorkerPushes \/ WorkerEndsWithoutPush

MaterialStep ==
  \/ DiscoverMaterial \/ AssessMaterial \/ MaterialUnstorable
  \/ ReservePromotion \/ PromotionFailed \/ MaterialPromoted \/ PendingPromoted
CiStep ==
  \/ InitialObservesDrift \/ InitialBlockedByHygiene \/ ResumeObservesDrift
  \/ CiSucceeds \/ CiFailsActionably \/ CiFailsExternally
WorkerStep ==
  \/ ReserveRemediation \/ LaunchWorker \/ CorrelateWorker \/ RecoveryRefused \/ RearmWorker
  \/ WorkerFailed \/ RemediationWithoutMaterial \/ MaterialNeverAppears
  \/ MaterialEscalates \/ MaterialPublished
AuditStep ==
  \/ ReserveAudit \/ RearmAudit \/ AdoptAudit \/ LaunchAudit \/ CorrelateAudit
  \/ AuditRecoveryRefused \/ AuditWorkflowFailed \/ ConsumeVerdict
HygieneStep ==
  \/ ReserveHygiene \/ RearmHygiene \/ AdoptHygiene \/ LaunchHygiene \/ CorrelateHygiene
  \/ HygieneRecoveryRefused \/ HygieneWorkerFailed \/ ConsumeHygiene \/ ResolvePending
ReleaseStep ==
  \/ ReleaseIdentityDrifts \/ ReleaseRefused \/ RereadEvidence \/ EvaluateRelease
  \/ MarkReadyForReview \/ ConfirmReadyForReview
  \/ Release \/ RecordRelease \/ ReportEscalation

SessionStep ==
  MaterialStep \/ CiStep \/ WorkerStep \/ AuditStep \/ HygieneStep \/ ReleaseStep

Next ==
  Environment \/ WorkerRuns \/ SessionStep \/ Crash \/ Resume \/ ResumeRearmingHygiene

\* A session goes on until it ends: every wait in it has a deadline.  Workers are
\* jobs with a timeout.  Nothing promises that anybody starts another session.
Fairness == WF_vars(SessionStep) /\ WF_vars(WorkerRuns)

Spec == Init /\ [][Next]_vars /\ Fairness

-----------------------------------------------------------------------------
(* What must hold.                                                            *)

\* Evidence in a delivery is for its own head and was really established: CI was
\* green on it, and an approval came from an audit of that head.
EvidenceHolds(d) ==
  /\ d.ciEvidence # NoHead => d.ciEvidence = d.materialHeadSha /\ d.ciEvidence \in greenHeads
  /\ d.auditEvidence.decision = "approved" =>
       /\ d.auditEvidence.candidateSha = d.materialHeadSha
       /\ d.materialHeadSha \in approvedHeads

\* No drift, resume, adoption of an old run or crash lets evidence of one head
\* count for another, in memory or in the comment.
EvidenceBound == EvidenceHolds(delivery) /\ EvidenceHolds(persistent)

\* A delivery in memory is ready for a human merge only with green CI, passed
\* technical hygiene and, where its risk asks for it, an approved audit, all
\* recorded for the head it is about (the readiness rules of MASTER_SPEC).
ReadyIsJustified ==
  delivery.status = "ready-for-human-merge" =>
    /\ delivery.ciEvidence = delivery.materialHeadSha
    /\ HygienePassed(delivery)
    /\ AuditRequired(delivery) => delivery.auditEvidence.decision = "approved"

\* The effective risk never falls below what the changed paths of the head
\* resolve to, in memory or in the comment.
RiskCovers(d) ==
  d.materialHeadSha # NoHead => ~HigherRisk(headRisk[d.materialHeadSha], d.riskProfile)
RiskCoversHead == RiskCovers(delivery) /\ RiskCovers(persistent)

\* A success that GitHub holds for a head was published with green CI for that
\* head and an approved audit of it whenever its paths oblige to one.
SuccessStatusSound ==
  \A h \in Heads :
    commitStatus[h] = "success" =>
      /\ h \in greenHeads
      /\ AuditRequiredFor(headRisk[h]) => h \in approvedHeads

\* A success is only ever published for the head that the session's last read of
\* the pull request showed, when CI was seen green on it, and an obliged audit
\* approved it, under the base that this read showed: no stored state, resumed
\* session or adopted audit carries evidence across an advance of the base.  What
\* happens between that read and the publication, nobody notices.
SuccessIsForConfirmedBase ==
  [][\A h \in Heads :
       commitStatus[h] # "success" /\ commitStatus'[h] = "success" =>
         /\ confirmed.head = h /\ confirmed.base \in greenOn[h]
         /\ AuditRequiredFor(headRisk[h]) => confirmed.base \in approvedOn[h]]_vars

\* While a session is still evaluating a head, GitHub shows no success for it.
NoStaleSuccess ==
  session # "none" /\ pc # "released" /\ delivery.materialHeadSha # NoHead =>
    commitStatus[delivery.materialHeadSha] # "success"

\* Every AI run is paid for in the comment before it is launched; only a new
\* control plane grants a run on an attempt already spent, once.  A run stands for
\* its whole stage, the infrastructure retry of the stage included.
LaunchesAreCharged ==
  persistent.materialHeadSha # NoHead =>
    /\ bootstrapAttempts + workerLaunches <=
         persistent.implementationAttempts + persistent.auditRemediationAttempts + controlPlane
    /\ auditLaunches <= persistent.auditAttempts + controlPlane

\* The comment can be read back: its counters respect the ceilings of its risk.
CommentLoads == persistent.materialHeadSha # NoHead => WithinCeilings(persistent)

\* The attempts recorded in the comment never go down, whatever is rebuilt.
AttemptsNeverDecrease ==
  [][/\ persistent'.implementationAttempts >= persistent.implementationAttempts
     /\ persistent'.auditAttempts >= persistent.auditAttempts
     /\ persistent'.auditRemediationAttempts >= persistent.auditRemediationAttempts]_vars

\* A stored escalation is taken back only after the pull request has moved, or
\* when the control plane that produced an UNKNOWN has been replaced.
EscalationIsKept ==
  [][persistent.status = "escalated" /\ persistent'.status # "escalated" =>
       StoredStale \/ hygiene.controlPlane # controlPlane]_vars

\* Every session ends, so that again and again none is alive: each wait has a deadline
\* and each loop spends a budget.
SessionEnds == []<>(session = "none")

\* The whole protocol keeps the promise of the release status: the comment is what
\* grants worker runs, together with the recoveries a new control plane allows.
Granted ==
  controlPlane +
  (IF persistent.materialHeadSha = NoHead
   THEN bootstrapAttempts
   ELSE persistent.implementationAttempts + persistent.auditRemediationAttempts)

Promise == INSTANCE ReleasePromise WITH
  Head <- Heads, head <- remoteHead,
  owed <- {h \in Heads : AuditRequiredFor(headRisk[h])},
  green <- greenHeads, approved <- approvedHeads, status <- commitStatus,
  candidate <- IF pc = "publish" THEN confirmed.head ELSE NoHead,
  granted <- Granted, launched <- bootstrapAttempts + workerLaunches

PromiseKept == Promise!Spec

\* What the comments, docs and rules of the repository say, and the code does not
\* keep up.

\* A comment of the resume script: the verdict of a red run stays authoritative.
VerdictStaysAuthoritative ==
  AtLoop("ready-for-human-merge") /\ ~IdentityDrifted /\ remoteHead \in approvedHeads =>
    EvidenceReread
=============================================================================
