----------------------------- MODULE DeliveryState -----------------------------
(***************************************************************************)
(* The pure core of the Delivery V2 controller: the remediation state      *)
(* machine (src/v2/remediation-state-machine.mjs), the operational events  *)
(* built on it (src/v2/operational-controller.mjs), the projection that is *)
(* written to the pull request's state comment and read back               *)
(* (src/v2/persistent-state.mjs), and the rebuild that a resumed           *)
(* controller performs (scripts/resume-delivery-v2-controller.mjs).        *)
(*                                                                         *)
(* A delivery is a record.  An operation F of the code becomes CanF(d),    *)
(* the condition under which F does not throw, and F(d), its result.       *)
(* Commit SHAs are the numbers 1..MaxHead in order of creation and NoHead  *)
(* stands for null, so that a piece of evidence names the head it is for.  *)
(***************************************************************************)
EXTENDS Naturals

CONSTANTS
  MaxHead,                    \* bound on the number of heads the PR ever has
  MaxImplementationAttempts,  \* per risk profile, overridable by environment
  StandardAuditRequired       \* per target repository

Profiles == {"fast", "standard", "critical"}

ASSUME MaxHeadAssumption == MaxHead \in Nat \ {0}
ASSUME ImplementationLimitAssumption ==
  MaxImplementationAttempts \in [Profiles -> Nat \ {0}]
ASSUME StandardAuditAssumption == StandardAuditRequired \in BOOLEAN

-----------------------------------------------------------------------------
(* Risk profiles and the policy derived from them.  The limits and the audit *)
(* obligation of a delivery are functions of its risk profile wherever the   *)
(* code sets them, so the record does not repeat them.                       *)

Rank(p) == IF p = "fast" THEN 0 ELSE IF p = "standard" THEN 1 ELSE 2

HigherRisk(next, current) == Rank(next) > Rank(current)

MaxAuditAttempts(p) == IF p = "fast" THEN 0 ELSE IF p = "standard" THEN 1 ELSE 2

AuditRequiredFor(p) == p = "critical" \/ (p = "standard" /\ StandardAuditRequired)

-----------------------------------------------------------------------------
(* The delivery record.                                                      *)

NoHead == 0
Heads == 1..MaxHead
HeadOrNone == 0..MaxHead

Statuses ==
  {"queued", "classified", "implementing", "ci-pending", "ci-failed-remediable",
   "audit-pending", "audit-failed-remediable", "technical-hygiene-pending",
   "ready-for-human-merge", "escalated"}

Reasons ==
  {"none", "implementation-budget-exhausted", "audit-remediation-budget-exhausted",
   "audit-context-insufficient", "technical-hygiene", "remediation-produced-no-material",
   "remediation-opened-higher-risk-surface", "material-sha-drift", "remote-drift"}

HygieneResults == {"PASS", "BLOCK", "UNKNOWN"}

\* The blocking findings are set and cleared together with the evidence, and a
\* rejection always carries at least one: decision "rejected" stands for both.
AuditEvidence == [candidateSha : HeadOrNone, decision : {"none", "approved", "rejected"}]
CiFailure == [candidateSha : HeadOrNone,
              cause : {"none", "actionable", "external", "technical-hygiene-block"}]
\* materialSha is the head the result claims to be about; examined is the head
\* whose tree the run that produced it really looked at.
Hygiene == [materialSha : HeadOrNone, examined : HeadOrNone,
            result : HygieneResults \cup {"none"}, promotionRequired : BOOLEAN]

NoAuditEvidence == [candidateSha |-> NoHead, decision |-> "none"]
NoCiFailure == [candidateSha |-> NoHead, cause |-> "none"]
NoHygiene == [materialSha |-> NoHead, examined |-> NoHead,
              result |-> "none", promotionRequired |-> FALSE]

Delivery ==
  [status : Statuses, riskProfile : Profiles, materialHeadSha : HeadOrNone,
   implementationAttempts : Nat, auditAttempts : Nat, auditRemediationAttempts : Nat,
   ciEvidence : HeadOrNone, auditEvidence : AuditEvidence, ciFailure : CiFailure,
   auditInFlight : BOOLEAN, technicalHygiene : Hygiene, terminalReason : Reasons]

\* Mutant: the obligation forgets the rule of the repository.
AuditRequiredForCriticalOnly(d) == d.riskProfile = "critical"

AuditRequired(d) == AuditRequiredFor(d.riskProfile)
ImplementationExhausted(d) ==
  d.implementationAttempts >= MaxImplementationAttempts[d.riskProfile]
\* Mutant: one audit remediation too many.
AuditRemediationOverrun(d) ==
  d.auditRemediationAttempts > MaxAuditAttempts(d.riskProfile)

AuditRemediationExhausted(d) ==
  d.auditRemediationAttempts >= MaxAuditAttempts(d.riskProfile)

-----------------------------------------------------------------------------
(* remediation-state-machine.mjs                                             *)

CreateDeliveryState(risk, head) ==
  [status |-> "queued", riskProfile |-> risk, materialHeadSha |-> head,
   implementationAttempts |-> 0, auditAttempts |-> 0, auditRemediationAttempts |-> 0,
   ciEvidence |-> NoHead, auditEvidence |-> NoAuditEvidence, ciFailure |-> NoCiFailure,
   auditInFlight |-> FALSE, technicalHygiene |-> NoHygiene, terminalReason |-> "none"]

Escalate(d, reason) ==
  [d EXCEPT !.status = "escalated", !.terminalReason = reason, !.auditInFlight = FALSE]

CanClassify(d) == d.status \in {"queued", "classified"}
Classify(d, risk) ==
  [d EXCEPT !.status = "classified", !.riskProfile = risk, !.terminalReason = "none"]

CanStartImplementation(d) ==
  d.status \in {"classified", "ci-failed-remediable", "audit-failed-remediable"}
StartAuditRemediation(d) ==
  IF AuditRemediationExhausted(d)
  THEN Escalate(d, "audit-remediation-budget-exhausted")
  ELSE [d EXCEPT !.status = "implementing",
                 !.auditRemediationAttempts = @ + 1,
                 !.ciFailure = NoCiFailure, !.auditInFlight = FALSE]
StartImplementationAttempt(d) ==
  IF ImplementationExhausted(d)
  THEN Escalate(d, "implementation-budget-exhausted")
  ELSE [d EXCEPT !.status = "implementing",
                 !.implementationAttempts = @ + 1,
                 !.ciFailure = NoCiFailure, !.auditInFlight = FALSE]
StartImplementation(d) ==
  IF d.status = "audit-failed-remediable"
  THEN StartAuditRemediation(d)
  ELSE StartImplementationAttempt(d)

CanPublishMaterial(d) == d.status = "implementing"
\* Mutant: new material keeps the evidence of the old.
PublishMaterialKeepingEvidence(d, head) ==
  [d EXCEPT !.status = "ci-pending", !.materialHeadSha = head,
            !.ciFailure = NoCiFailure, !.auditInFlight = FALSE,
            !.technicalHygiene = NoHygiene, !.terminalReason = "none"]

PublishMaterial(d, head) ==
  [d EXCEPT !.status = "ci-pending", !.materialHeadSha = head,
            !.ciEvidence = NoHead, !.auditEvidence = NoAuditEvidence,
            !.ciFailure = NoCiFailure, !.auditInFlight = FALSE,
            !.technicalHygiene = NoHygiene, !.terminalReason = "none"]

CanRecordCi(d, candidate) == d.status = "ci-pending" /\ candidate = d.materialHeadSha
RecordCiSuccess(d) ==
  [d EXCEPT !.status = IF AuditRequired(d) THEN "audit-pending" ELSE "ready-for-human-merge",
            !.ciEvidence = d.materialHeadSha,
            !.ciFailure = NoCiFailure, !.auditInFlight = FALSE]
RecordCiFailure(d, class) ==
  LET failed == [d EXCEPT !.ciFailure = [candidateSha |-> d.materialHeadSha, cause |-> class]]
  IN CASE class = "external" -> [failed EXCEPT !.ciEvidence = NoHead]
       [] class = "actionable" /\ ImplementationExhausted(d) ->
            Escalate(failed, "implementation-budget-exhausted")
       [] OTHER -> [failed EXCEPT !.status = "ci-failed-remediable", !.ciEvidence = NoHead]

CanStartAudit(d) == d.status = "audit-pending" /\ AuditRequired(d) /\ ~d.auditInFlight
StartAudit(d) ==
  IF d.auditAttempts >= MaxAuditAttempts(d.riskProfile) + 1
  THEN Escalate(d, "audit-remediation-budget-exhausted")
  ELSE [d EXCEPT !.auditAttempts = @ + 1, !.auditInFlight = TRUE]

\* The three verdicts of an audit: approved, rejected with findings a worker can
\* address, and rejected for insufficient context, which no worker can address.
AuditVerdicts == {"approved", "rejected", "context-insufficient"}

CanRecordAudit(d, candidate) ==
  d.status = "audit-pending" /\ d.auditInFlight /\ candidate = d.materialHeadSha
RecordAuditApproval(d) ==
  [d EXCEPT !.status = "ready-for-human-merge", !.auditInFlight = FALSE,
            !.auditEvidence = [candidateSha |-> d.materialHeadSha, decision |-> "approved"]]
\* Mutant: the verdict is stored as it was received.
RecordRawRejection(d, verdict) ==
  LET failed == [d EXCEPT !.auditInFlight = FALSE,
                          !.auditEvidence = [candidateSha |-> d.materialHeadSha,
                                             decision |-> verdict]]
  IN IF verdict = "context-insufficient"
     THEN Escalate(failed, "audit-context-insufficient")
     ELSE [failed EXCEPT !.status = "audit-failed-remediable"]

RecordAuditRejection(d, verdict) ==
  LET failed == [d EXCEPT !.auditInFlight = FALSE,
                          !.auditEvidence = [candidateSha |-> d.materialHeadSha,
                                             decision |-> "rejected"]]
  IN CASE verdict = "context-insufficient" -> Escalate(failed, "audit-context-insufficient")
       [] verdict = "rejected" /\ AuditRemediationExhausted(d) ->
            Escalate(failed, "audit-remediation-budget-exhausted")
       [] OTHER -> [failed EXCEPT !.status = "audit-failed-remediable"]
RecordAuditResult(d, verdict) ==
  IF verdict = "approved" THEN RecordAuditApproval(d) ELSE RecordAuditRejection(d, verdict)

CanDrift(d) == d.status # "escalated"
RecordHeadDrift(d, head) ==
  IF head = d.materialHeadSha
  THEN [d EXCEPT !.technicalHygiene = NoHygiene]
  ELSE [d EXCEPT !.status = "queued", !.materialHeadSha = head,
                 !.ciEvidence = NoHead, !.auditEvidence = NoAuditEvidence,
                 !.ciFailure = NoCiFailure, !.auditInFlight = FALSE,
                 !.technicalHygiene = NoHygiene, !.terminalReason = "material-sha-drift"]

-----------------------------------------------------------------------------
(* operational-controller.mjs                                                *)

HygieneForMaterial(d) ==
  /\ d.technicalHygiene.result # "none"
  /\ d.technicalHygiene.materialSha = d.materialHeadSha

HygieneBlocks(d) == HygieneForMaterial(d) /\ d.technicalHygiene.result = "BLOCK"

HygienePassed(d) ==
  /\ HygieneForMaterial(d)
  /\ d.technicalHygiene.result = "PASS"
  /\ ~d.technicalHygiene.promotionRequired

AwaitsHygiene(d) == d.status \in {"ready-for-human-merge", "technical-hygiene-pending"}

BlockForHygiene(d) ==
  IF ImplementationExhausted(d)
  THEN Escalate(d, "implementation-budget-exhausted")
  ELSE [d EXCEPT !.status = "ci-failed-remediable", !.auditInFlight = FALSE,
                 !.ciFailure = [candidateSha |-> d.materialHeadSha,
                                cause |-> "technical-hygiene-block"]]

\* Mutant: passed hygiene alone makes a delivery ready.
ReconcileReadinessWithoutAudit(d) ==
  CASE HygieneBlocks(d) /\ AwaitsHygiene(d) -> BlockForHygiene(d)
    [] AwaitsHygiene(d) /\ ~HygieneBlocks(d) /\ ~HygienePassed(d) ->
         [d EXCEPT !.status = "technical-hygiene-pending"]
    [] AwaitsHygiene(d) /\ HygienePassed(d) -> [d EXCEPT !.status = "ready-for-human-merge"]
    [] OTHER -> d

ReconcileHygieneReadiness(d) ==
  CASE HygieneBlocks(d) /\ (AwaitsHygiene(d) \/ (d.status = "audit-pending" /\ ~d.auditInFlight)) ->
         BlockForHygiene(d)
    [] AwaitsHygiene(d) /\ ~HygieneBlocks(d) /\ ~HygienePassed(d) ->
         [d EXCEPT !.status = "technical-hygiene-pending"]
    [] AwaitsHygiene(d) /\ HygienePassed(d)
         /\ AuditRequired(d) /\ d.auditEvidence.decision # "approved" ->
         [d EXCEPT !.status = "audit-pending"]
    [] AwaitsHygiene(d) /\ HygienePassed(d)
         /\ ~(AuditRequired(d) /\ d.auditEvidence.decision # "approved") ->
         [d EXCEPT !.status = "ready-for-human-merge"]
    [] OTHER -> d

CanApplyHygiene(d, h) == h.materialSha = d.materialHeadSha
ApplyHygiene(d, h) == ReconcileHygieneReadiness([d EXCEPT !.technicalHygiene = h])

ResolveHygiene(d) ==
  LET next == ReconcileHygieneReadiness(d)
  IN IF next.status = "technical-hygiene-pending"
     THEN Escalate(next, "technical-hygiene")
     ELSE next

ApplyCiSuccess(d) == ReconcileHygieneReadiness(RecordCiSuccess(d))
ApplyAuditResult(d, verdict) == ReconcileHygieneReadiness(RecordAuditResult(d, verdict))

CanPromoteRisk(d, risk) == ~HigherRisk(d.riskProfile, risk)
PromoteRisk(d, risk) == [d EXCEPT !.riskProfile = risk]

CreateOperationalDelivery(risk, head) ==
  LET classified == Classify(CreateDeliveryState(risk, NoHead), risk)
  IN PublishMaterial(StartImplementation(classified), head)

-----------------------------------------------------------------------------
(* The state comment: what is written, what is read back, and the controls.  *)

\* Normalisation refuses a state whose counters exceed the ceilings of its risk.
WithinCeilings(d) ==
  /\ d.implementationAttempts <= MaxImplementationAttempts[d.riskProfile]
  /\ d.auditAttempts <= MaxAuditAttempts(d.riskProfile) + 1
  /\ d.auditRemediationAttempts <= MaxAuditAttempts(d.riskProfile)

Persisted(d) == [d EXCEPT !.technicalHygiene = NoHygiene, !.auditInFlight = FALSE]

ReconcilePersistentState(d, remote) ==
  [d EXCEPT !.status = "queued", !.materialHeadSha = remote,
            !.ciEvidence = NoHead, !.auditEvidence = NoAuditEvidence,
            !.ciFailure = NoCiFailure, !.terminalReason = "remote-drift"]

OperationalFromPersistent(d) ==
  IF d.status = "ready-for-human-merge"
  THEN [d EXCEPT !.status = "technical-hygiene-pending"]
  ELSE d

\* Mutants: a rebuild that forgets the attempts, and one that keeps the old risk.
RebuildResettingAttempts(risk, head, previous) == CreateOperationalDelivery(risk, head)
RebuildKeepingRisk(risk, head, previous) ==
  [CreateOperationalDelivery(previous.riskProfile, head) EXCEPT
     !.implementationAttempts = previous.implementationAttempts,
     !.auditAttempts = previous.auditAttempts,
     !.auditRemediationAttempts = previous.auditRemediationAttempts]

RebuildCiPendingState(risk, head, previous) ==
  [CreateOperationalDelivery(risk, head) EXCEPT
     !.implementationAttempts = previous.implementationAttempts,
     !.auditAttempts = previous.auditAttempts,
     !.auditRemediationAttempts = previous.auditRemediationAttempts]

MustRebuildOnResume(stale, d) ==
  \/ stale
  \/ d.status \in {"queued", "classified"}
  \/ d.status = "ci-failed-remediable" /\ d.ciFailure.cause # "technical-hygiene-block"
=============================================================================
