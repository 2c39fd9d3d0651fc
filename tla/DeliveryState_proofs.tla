-------------------------- MODULE DeliveryState_proofs --------------------------
(***************************************************************************)
(* What the operations of DeliveryState return and preserve: a delivery     *)
(* record, the attempts already charged and the ceilings they respect, and  *)
(* the evidence that a status stands on.                                    *)
(***************************************************************************)
EXTENDS DeliveryState, TLAPS

-----------------------------------------------------------------------------
(* Types.                                                                    *)

\* The records that stand for "nothing recorded" are well typed.
LEMMA EmptyTypes ==
  /\ NoHead \in HeadOrNone
  /\ NoAuditEvidence \in AuditEvidence /\ NoCiFailure \in CiFailure /\ NoHygiene \in Hygiene
BY MaxHeadAssumption DEF AuditEvidence, CiFailure, Hygiene, NoAuditEvidence, NoCiFailure,
   NoHygiene, HeadOrNone, NoHead

\* A delivery has the fields the state machine gives it.
LEMMA DeliveryFields ==
  ASSUME NEW d \in Delivery
  PROVE  /\ d.status \in Statuses /\ d.riskProfile \in Profiles
         /\ d.materialHeadSha \in HeadOrNone /\ d.ciEvidence \in HeadOrNone
         /\ d.implementationAttempts \in Nat /\ d.auditAttempts \in Nat
         /\ d.auditRemediationAttempts \in Nat
         /\ d.auditEvidence \in AuditEvidence /\ d.ciFailure \in CiFailure
         /\ d.technicalHygiene \in Hygiene
         /\ d.auditInFlight \in BOOLEAN /\ d.terminalReason \in Reasons
BY DEF Delivery

\* A CI failure is recorded for a head, with one of the causes.
LEMMA CiFailureType ==
  ASSUME NEW h \in HeadOrNone,
         NEW cause \in {"none", "actionable", "external", "technical-hygiene-block"}
  PROVE  [candidateSha |-> h, cause |-> cause] \in CiFailure
BY DEF CiFailure

\* An audit decision is recorded for a head.
LEMMA AuditEvidenceType ==
  ASSUME NEW h \in HeadOrNone, NEW decision \in {"none", "approved", "rejected"}
  PROVE  [candidateSha |-> h, decision |-> decision] \in AuditEvidence
BY DEF AuditEvidence

\* createDeliveryState returns a delivery.
LEMMA CreateDeliveryStateType ==
  ASSUME NEW risk \in Profiles, NEW head \in HeadOrNone
  PROVE  CreateDeliveryState(risk, head) \in Delivery
BY EmptyTypes DEF CreateDeliveryState, Delivery, Statuses, Reasons

\* escalate returns a delivery.
LEMMA EscalateType ==
  ASSUME NEW d \in Delivery, NEW reason \in Reasons
  PROVE  Escalate(d, reason) \in Delivery
BY DEF Escalate, Delivery, Statuses

\* classifyDelivery returns a delivery.
LEMMA ClassifyType ==
  ASSUME NEW d \in Delivery, NEW risk \in Profiles
  PROVE  Classify(d, risk) \in Delivery
BY DEF Classify, Delivery, Statuses, Reasons

\* startImplementation returns a delivery.
LEMMA StartImplementationType ==
  ASSUME NEW d \in Delivery
  PROVE  StartImplementation(d) \in Delivery
<1>0. d.implementationAttempts + 1 \in Nat /\ d.auditRemediationAttempts + 1 \in Nat
  BY DeliveryFields
<1>1. [d EXCEPT !.status = "implementing",
                !.auditRemediationAttempts = d.auditRemediationAttempts + 1,
                !.ciFailure = NoCiFailure, !.auditInFlight = FALSE] \in Delivery
  BY <1>0, EmptyTypes DEF Delivery, Statuses
<1>2. [d EXCEPT !.status = "implementing",
                !.implementationAttempts = d.implementationAttempts + 1,
                !.ciFailure = NoCiFailure, !.auditInFlight = FALSE] \in Delivery
  BY <1>0, EmptyTypes DEF Delivery, Statuses
<1>3. /\ Escalate(d, "audit-remediation-budget-exhausted") \in Delivery
      /\ Escalate(d, "implementation-budget-exhausted") \in Delivery
  BY EscalateType DEF Reasons
<1> QED
  BY <1>1, <1>2, <1>3 DEF StartImplementation, StartAuditRemediation, StartImplementationAttempt

\* publishMaterial returns a delivery.
LEMMA PublishMaterialType ==
  ASSUME NEW d \in Delivery, NEW head \in HeadOrNone
  PROVE  PublishMaterial(d, head) \in Delivery
BY EmptyTypes DEF PublishMaterial, Delivery, Statuses, Reasons

\* recordCiResult returns a delivery when CI passed.
LEMMA RecordCiSuccessType ==
  ASSUME NEW d \in Delivery
  PROVE  RecordCiSuccess(d) \in Delivery
BY EmptyTypes DEF RecordCiSuccess, Delivery, Statuses

\* recordCiResult returns a delivery when CI failed.
LEMMA RecordCiFailureType ==
  ASSUME NEW d \in Delivery, NEW class \in {"actionable", "external"}
  PROVE  RecordCiFailure(d, class) \in Delivery
<1> DEFINE f == [candidateSha |-> d.materialHeadSha, cause |-> class]
           failed == [d EXCEPT !.ciFailure = f]
<1>1. f \in CiFailure
  BY DeliveryFields, CiFailureType
<1> HIDE DEF f
<1>2. failed \in Delivery
  BY <1>1 DEF Delivery
<1>3. Escalate(failed, "implementation-budget-exhausted") \in Delivery
  BY <1>2, EscalateType DEF Reasons
<1>4. [failed EXCEPT !.ciEvidence = NoHead] \in Delivery
  BY <1>2, EmptyTypes DEF Delivery
<1>5. [failed EXCEPT !.status = "ci-failed-remediable", !.ciEvidence = NoHead] \in Delivery
  BY <1>2, EmptyTypes DEF Delivery, Statuses
<1> QED
  BY <1>3, <1>4, <1>5 DEF RecordCiFailure, f

\* startAudit returns a delivery.
LEMMA StartAuditType ==
  ASSUME NEW d \in Delivery
  PROVE  StartAudit(d) \in Delivery
<1>0. d.auditAttempts + 1 \in Nat
  BY DeliveryFields
<1>1. [d EXCEPT !.auditAttempts = d.auditAttempts + 1, !.auditInFlight = TRUE] \in Delivery
  BY <1>0 DEF Delivery
<1>2. Escalate(d, "audit-remediation-budget-exhausted") \in Delivery
  BY EscalateType DEF Reasons
<1> QED
  BY <1>1, <1>2 DEF StartAudit

\* recordAuditResult returns a delivery.
LEMMA RecordAuditResultType ==
  ASSUME NEW d \in Delivery, NEW verdict \in AuditVerdicts
  PROVE  RecordAuditResult(d, verdict) \in Delivery
<1> DEFINE approved == [candidateSha |-> d.materialHeadSha, decision |-> "approved"]
           rejected == [candidateSha |-> d.materialHeadSha, decision |-> "rejected"]
           failed == [d EXCEPT !.auditInFlight = FALSE, !.auditEvidence = rejected]
<1>1. approved \in AuditEvidence /\ rejected \in AuditEvidence
  BY DeliveryFields, AuditEvidenceType
<1> HIDE DEF approved, rejected
<1>2. [d EXCEPT !.status = "ready-for-human-merge", !.auditInFlight = FALSE,
                !.auditEvidence = approved] \in Delivery
  BY <1>1 DEF Delivery, Statuses
<1>3. failed \in Delivery
  BY <1>1 DEF Delivery
<1>4. /\ Escalate(failed, "audit-context-insufficient") \in Delivery
      /\ Escalate(failed, "audit-remediation-budget-exhausted") \in Delivery
  BY <1>3, EscalateType DEF Reasons
<1>5. [failed EXCEPT !.status = "audit-failed-remediable"] \in Delivery
  BY <1>3 DEF Delivery, Statuses
<1> QED
  BY <1>2, <1>4, <1>5
  DEF RecordAuditResult, RecordAuditApproval, RecordAuditRejection, approved, rejected

\* recordHeadDrift returns a delivery.
LEMMA RecordHeadDriftType ==
  ASSUME NEW d \in Delivery, NEW head \in HeadOrNone
  PROVE  RecordHeadDrift(d, head) \in Delivery
BY EmptyTypes DEF RecordHeadDrift, Delivery, Statuses, Reasons

\* A hygiene block returns a delivery.
LEMMA BlockForHygieneType ==
  ASSUME NEW d \in Delivery
  PROVE  BlockForHygiene(d) \in Delivery
<1> DEFINE f == [candidateSha |-> d.materialHeadSha, cause |-> "technical-hygiene-block"]
<1>1. f \in CiFailure
  BY DeliveryFields, CiFailureType
<1> HIDE DEF f
<1>2. [d EXCEPT !.status = "ci-failed-remediable", !.auditInFlight = FALSE,
                !.ciFailure = f] \in Delivery
  BY <1>1 DEF Delivery, Statuses
<1>3. Escalate(d, "implementation-budget-exhausted") \in Delivery
  BY EscalateType DEF Reasons
<1> QED
  BY <1>2, <1>3 DEF BlockForHygiene, f

\* Changing only the status keeps a delivery.
LEMMA StatusType ==
  ASSUME NEW d \in Delivery, NEW s \in Statuses
  PROVE  [d EXCEPT !.status = s] \in Delivery
BY DEF Delivery

\* reconcileTechnicalHygieneReadiness returns a delivery.
LEMMA ReconcileHygieneReadinessType ==
  ASSUME NEW d \in Delivery
  PROVE  ReconcileHygieneReadiness(d) \in Delivery
<1>1. BlockForHygiene(d) \in Delivery
  BY BlockForHygieneType
<1>2. /\ [d EXCEPT !.status = "technical-hygiene-pending"] \in Delivery
      /\ [d EXCEPT !.status = "audit-pending"] \in Delivery
      /\ [d EXCEPT !.status = "ready-for-human-merge"] \in Delivery
  BY StatusType DEF Statuses
<1> QED
  BY <1>1, <1>2 DEF ReconcileHygieneReadiness

\* The technical-hygiene-result event returns a delivery.
LEMMA ApplyHygieneType ==
  ASSUME NEW d \in Delivery, NEW h \in Hygiene
  PROVE  ApplyHygiene(d, h) \in Delivery
<1>1. [d EXCEPT !.technicalHygiene = h] \in Delivery
  BY DEF Delivery
<1> QED
  BY <1>1, ReconcileHygieneReadinessType DEF ApplyHygiene

\* The resolve-technical-hygiene event returns a delivery.
LEMMA ResolveHygieneType ==
  ASSUME NEW d \in Delivery
  PROVE  ResolveHygiene(d) \in Delivery
BY ReconcileHygieneReadinessType, EscalateType DEF ResolveHygiene, Reasons

\* The CI and audit events return deliveries.
LEMMA ApplyResultTypes ==
  ASSUME NEW d \in Delivery
  PROVE  /\ ApplyCiSuccess(d) \in Delivery
         /\ \A verdict \in AuditVerdicts : ApplyAuditResult(d, verdict) \in Delivery
BY RecordCiSuccessType, RecordAuditResultType, ReconcileHygieneReadinessType
   DEF ApplyCiSuccess, ApplyAuditResult

\* The promote-risk event returns a delivery.
LEMMA PromoteRiskType ==
  ASSUME NEW d \in Delivery, NEW risk \in Profiles
  PROVE  PromoteRisk(d, risk) \in Delivery
BY DEF PromoteRisk, Delivery

\* createOperationalDelivery returns a delivery.
LEMMA CreateOperationalDeliveryType ==
  ASSUME NEW risk \in Profiles, NEW head \in HeadOrNone
  PROVE  CreateOperationalDelivery(risk, head) \in Delivery
BY CreateDeliveryStateType, ClassifyType, StartImplementationType, PublishMaterialType,
   EmptyTypes
   DEF CreateOperationalDelivery

\* Setting the counters of a delivery keeps it one.
LEMMA CountersType ==
  ASSUME NEW d \in Delivery, NEW m \in Nat, NEW n \in Nat, NEW r \in Nat
  PROVE  [d EXCEPT !.implementationAttempts = m, !.auditAttempts = n,
                   !.auditRemediationAttempts = r] \in Delivery
BY DEF Delivery

\* What is stored, read back, reconciled or rebuilt is a delivery.
LEMMA PersistenceTypes ==
  ASSUME NEW d \in Delivery
  PROVE  /\ Persisted(d) \in Delivery
         /\ OperationalFromPersistent(d) \in Delivery
         /\ \A head \in HeadOrNone : ReconcilePersistentState(d, head) \in Delivery
         /\ \A risk \in Profiles, head \in HeadOrNone :
              RebuildCiPendingState(risk, head, d) \in Delivery
<1>1. Persisted(d) \in Delivery
  BY EmptyTypes DEF Persisted, Delivery
<1>2. OperationalFromPersistent(d) \in Delivery
  BY StatusType DEF OperationalFromPersistent, Statuses
<1>3. ASSUME NEW head \in HeadOrNone
      PROVE  ReconcilePersistentState(d, head) \in Delivery
  BY EmptyTypes DEF ReconcilePersistentState, Delivery, Statuses, Reasons
<1>4. ASSUME NEW risk \in Profiles, NEW head \in HeadOrNone
      PROVE  RebuildCiPendingState(risk, head, d) \in Delivery
  BY CreateOperationalDeliveryType, CountersType, DeliveryFields DEF RebuildCiPendingState
<1> QED
  BY <1>1, <1>2, <1>3, <1>4

-----------------------------------------------------------------------------
(* What the operations preserve.                                             *)

\* e has spent at least the attempts that d has; the same attempts; and the same
\* attempts under the same risk.
SpentAtLeast(d, e) ==
  /\ e.implementationAttempts >= d.implementationAttempts
  /\ e.auditAttempts >= d.auditAttempts
  /\ e.auditRemediationAttempts >= d.auditRemediationAttempts
SameAttempts(d, e) ==
  /\ e.implementationAttempts = d.implementationAttempts
  /\ e.auditAttempts = d.auditAttempts
  /\ e.auditRemediationAttempts = d.auditRemediationAttempts
SameBudget(d, e) == SameAttempts(d, e) /\ e.riskProfile = d.riskProfile

\* e is about the head of d, with the evidence of d.
SameEvidence(d, e) ==
  /\ e.materialHeadSha = d.materialHeadSha
  /\ e.ciEvidence = d.ciEvidence /\ e.auditEvidence = d.auditEvidence

\* d is about the head, without evidence.
NoEvidence(d, head) ==
  /\ d.materialHeadSha = head
  /\ d.ciEvidence = NoHead /\ d.auditEvidence = NoAuditEvidence

\* States that only green CI leads to.
BeyondCi(d) ==
  \/ d.status \in {"audit-pending", "technical-hygiene-pending", "ready-for-human-merge"}
  \/ d.status = "escalated" /\ d.terminalReason = "technical-hygiene"
CiJustified(d) == BeyondCi(d) => d.ciEvidence = d.materialHeadSha

Ready(d) ==
  d.status = "ready-for-human-merge" =>
    /\ d.ciEvidence = d.materialHeadSha
    /\ HygienePassed(d)
    /\ AuditRequired(d) => d.auditEvidence.decision = "approved"

\* A state whose status says nothing about evidence.
Unclaimed(d) == ~BeyondCi(d)

\* Deliveries with the same attempts are within the same ceilings.
LEMMA SameBudgetWithin ==
  ASSUME NEW d \in Delivery, NEW e \in Delivery, SameBudget(d, e)
  PROVE  /\ WithinCeilings(d) <=> WithinCeilings(e)
         /\ SpentAtLeast(d, e)
BY DeliveryFields DEF SameBudget, SameAttempts, WithinCeilings, SpentAtLeast

\* Attempts spent add up.
LEMMA SpentTransitive ==
  ASSUME NEW c \in Delivery, NEW d \in Delivery, NEW e \in Delivery,
         SpentAtLeast(c, d), SpentAtLeast(d, e)
  PROVE  SpentAtLeast(c, e)
BY DeliveryFields DEF SpentAtLeast

\* A delivery that claims nothing is justified and not ready.
LEMMA UnclaimedJustified ==
  ASSUME NEW d, Unclaimed(d)
  PROVE  CiJustified(d) /\ Ready(d)
BY DEF Unclaimed, BeyondCi, CiJustified, Ready

\* escalate keeps the budget and the evidence.
LEMMA EscalateFrame ==
  ASSUME NEW d \in Delivery, NEW reason \in Reasons
  PROVE  /\ SameBudget(d, Escalate(d, reason)) /\ SameEvidence(d, Escalate(d, reason))
         /\ Escalate(d, reason).status = "escalated"
         /\ Escalate(d, reason).terminalReason = reason
         /\ reason # "technical-hygiene" => Unclaimed(Escalate(d, reason))
BY DEF Escalate, Delivery, SameBudget, SameAttempts, SameEvidence, Unclaimed, BeyondCi

\* startImplementation charges an attempt within the ceilings, or escalates.
LEMMA StartImplementationFrame ==
  ASSUME NEW d \in Delivery
  PROVE  LET e == StartImplementation(d)
         IN  /\ SpentAtLeast(d, e) /\ e.riskProfile = d.riskProfile
             /\ WithinCeilings(d) => WithinCeilings(e)
             /\ SameEvidence(d, e) /\ Unclaimed(e)
<1> DEFINE e == StartImplementation(d)
<1>0. /\ e \in Delivery
      /\ d.implementationAttempts \in Nat /\ d.auditRemediationAttempts \in Nat
      /\ d.auditAttempts \in Nat /\ d.riskProfile \in Profiles
      /\ MaxImplementationAttempts[d.riskProfile] \in Nat
      /\ MaxAuditAttempts(d.riskProfile) \in Nat
  BY StartImplementationType, DeliveryFields, ImplementationLimitAssumption
  DEF MaxAuditAttempts
<1>1. CASE d.status = "audit-failed-remediable" /\ AuditRemediationExhausted(d)
  <2>1. e = Escalate(d, "audit-remediation-budget-exhausted")
    BY <1>1 DEF StartImplementation, StartAuditRemediation
  <2> QED
    BY <1>0, <2>1, EscalateFrame, SameBudgetWithin DEF Reasons, SameBudget
<1>2. CASE d.status = "audit-failed-remediable" /\ ~AuditRemediationExhausted(d)
  <2>1. e = [d EXCEPT !.status = "implementing",
                      !.auditRemediationAttempts = d.auditRemediationAttempts + 1,
                      !.ciFailure = NoCiFailure, !.auditInFlight = FALSE]
    BY <1>2 DEF StartImplementation, StartAuditRemediation
  <2>2. /\ e.auditRemediationAttempts = d.auditRemediationAttempts + 1
        /\ e.implementationAttempts = d.implementationAttempts
        /\ e.auditAttempts = d.auditAttempts /\ e.riskProfile = d.riskProfile
        /\ SameEvidence(d, e) /\ e.status = "implementing"
    BY <2>1 DEF Delivery, SameEvidence
  <2> HIDE DEF e
  <2>3. WithinCeilings(d) => WithinCeilings(e)
    BY <1>0, <1>2, <2>2 DEF WithinCeilings, AuditRemediationExhausted
  <2> QED
    BY <1>0, <2>2, <2>3 DEF SpentAtLeast, Unclaimed, BeyondCi, e
<1>3. CASE d.status # "audit-failed-remediable" /\ ImplementationExhausted(d)
  <2>1. e = Escalate(d, "implementation-budget-exhausted")
    BY <1>3 DEF StartImplementation, StartImplementationAttempt
  <2> QED
    BY <1>0, <2>1, EscalateFrame, SameBudgetWithin DEF Reasons, SameBudget
<1>4. CASE d.status # "audit-failed-remediable" /\ ~ImplementationExhausted(d)
  <2>1. e = [d EXCEPT !.status = "implementing",
                      !.implementationAttempts = d.implementationAttempts + 1,
                      !.ciFailure = NoCiFailure, !.auditInFlight = FALSE]
    BY <1>4 DEF StartImplementation, StartImplementationAttempt
  <2>2. /\ e.implementationAttempts = d.implementationAttempts + 1
        /\ e.auditRemediationAttempts = d.auditRemediationAttempts
        /\ e.auditAttempts = d.auditAttempts /\ e.riskProfile = d.riskProfile
        /\ SameEvidence(d, e) /\ e.status = "implementing"
    BY <2>1 DEF Delivery, SameEvidence
  <2> HIDE DEF e
  <2>3. WithinCeilings(d) => WithinCeilings(e)
    BY <1>0, <1>4, <2>2 DEF WithinCeilings, ImplementationExhausted
  <2> QED
    BY <1>0, <2>2, <2>3 DEF SpentAtLeast, Unclaimed, BeyondCi, e
<1> QED
  BY <1>1, <1>2, <1>3, <1>4

\* publishMaterial starts over with the new head, on the same budget.
LEMMA PublishMaterialFrame ==
  ASSUME NEW d \in Delivery, NEW head \in HeadOrNone
  PROVE  LET e == PublishMaterial(d, head)
         IN  SameBudget(d, e) /\ NoEvidence(e, head) /\ Unclaimed(e)
BY DEF PublishMaterial, Delivery, SameBudget, SameAttempts, NoEvidence, Unclaimed, BeyondCi

\* A CI failure keeps the budget and claims nothing.
LEMMA RecordCiFailureFrame ==
  ASSUME NEW d \in Delivery, NEW class \in {"actionable", "external"},
         d.status = "ci-pending"
  PROVE  LET e == RecordCiFailure(d, class)
         IN  /\ SameBudget(d, e) /\ Unclaimed(e)
             /\ e.materialHeadSha = d.materialHeadSha /\ e.auditEvidence = d.auditEvidence
             /\ e.ciEvidence \in {NoHead, d.ciEvidence}
<1> DEFINE f == [candidateSha |-> d.materialHeadSha, cause |-> class]
           failed == [d EXCEPT !.ciFailure = f]
           e == RecordCiFailure(d, class)
<1>1. f \in CiFailure
  BY DeliveryFields, CiFailureType
<1>2. \/ e = [failed EXCEPT !.ciEvidence = NoHead]
      \/ e = Escalate(failed, "implementation-budget-exhausted")
      \/ e = [failed EXCEPT !.status = "ci-failed-remediable", !.ciEvidence = NoHead]
  BY DEF RecordCiFailure
<1> HIDE DEF f, e
<1>3. /\ failed \in Delivery /\ SameBudget(d, failed) /\ SameEvidence(d, failed)
      /\ failed.status = "ci-pending"
  BY <1>1 DEF Delivery, SameBudget, SameAttempts, SameEvidence
<1> HIDE DEF failed
<1>4. CASE e = Escalate(failed, "implementation-budget-exhausted")
  BY <1>3, <1>4, EscalateFrame DEF Reasons, SameBudget, SameAttempts, SameEvidence, e
<1>5. CASE e = [failed EXCEPT !.ciEvidence = NoHead]
  BY <1>3, <1>5 DEF Delivery, SameBudget, SameAttempts, SameEvidence, Unclaimed, BeyondCi, e
<1>6. CASE e = [failed EXCEPT !.status = "ci-failed-remediable", !.ciEvidence = NoHead]
  BY <1>3, <1>6 DEF Delivery, SameBudget, SameAttempts, SameEvidence, Unclaimed, BeyondCi, e
<1> QED
  BY <1>2, <1>4, <1>5, <1>6

\* startAudit charges an audit within its ceiling, or escalates.
LEMMA StartAuditFrame ==
  ASSUME NEW d \in Delivery, d.status = "audit-pending"
  PROVE  LET e == StartAudit(d)
         IN  /\ SpentAtLeast(d, e) /\ e.riskProfile = d.riskProfile
             /\ WithinCeilings(d) => WithinCeilings(e)
             /\ SameEvidence(d, e)
             /\ CiJustified(d) => CiJustified(e)
             /\ Ready(e)
<1> DEFINE e == StartAudit(d)
<1>0. /\ e \in Delivery /\ d.auditAttempts \in Nat /\ d.implementationAttempts \in Nat
      /\ d.auditRemediationAttempts \in Nat /\ d.riskProfile \in Profiles
      /\ MaxAuditAttempts(d.riskProfile) \in Nat
  BY StartAuditType, DeliveryFields DEF MaxAuditAttempts
<1>1. CASE d.auditAttempts >= MaxAuditAttempts(d.riskProfile) + 1
  <2>1. e = Escalate(d, "audit-remediation-budget-exhausted")
    BY <1>1 DEF StartAudit
  <2> QED
    BY <1>0, <2>1, EscalateFrame, SameBudgetWithin, UnclaimedJustified DEF Reasons, SameBudget
<1>2. CASE ~(d.auditAttempts >= MaxAuditAttempts(d.riskProfile) + 1)
  <2>1. e = [d EXCEPT !.auditAttempts = d.auditAttempts + 1, !.auditInFlight = TRUE]
    BY <1>2 DEF StartAudit
  <2>2. /\ e.auditAttempts = d.auditAttempts + 1
        /\ e.implementationAttempts = d.implementationAttempts
        /\ e.auditRemediationAttempts = d.auditRemediationAttempts
        /\ e.riskProfile = d.riskProfile /\ SameEvidence(d, e)
        /\ e.status = d.status /\ e.terminalReason = d.terminalReason
    BY <2>1 DEF Delivery, SameEvidence
  <2> HIDE DEF e
  <2>3. WithinCeilings(d) => WithinCeilings(e)
    BY <1>0, <1>2, <2>2 DEF WithinCeilings
  <2> QED
    BY <1>0, <2>2, <2>3 DEF SpentAtLeast, CiJustified, BeyondCi, SameEvidence, Ready, e
<1> QED
  BY <1>1, <1>2

\* Putting an audit in flight changes nothing else.
LEMMA InFlightFrame ==
  ASSUME NEW d \in Delivery
  PROVE  LET e == [d EXCEPT !.auditInFlight = TRUE]
         IN  /\ SameBudget(d, e) /\ SameEvidence(d, e) /\ e.status = d.status
             /\ CiJustified(d) => CiJustified(e)
BY DEF Delivery, SameBudget, SameAttempts, SameEvidence, CiJustified, BeyondCi

\* A status is all that changes.
LEMMA StatusFrame ==
  ASSUME NEW d \in Delivery, NEW s \in Statuses
  PROVE  LET e == [d EXCEPT !.status = s]
         IN  /\ SameBudget(d, e) /\ SameEvidence(d, e) /\ e.status = s
             /\ e.technicalHygiene = d.technicalHygiene
BY DEF Delivery, SameBudget, SameAttempts, SameEvidence

\* A hygiene block keeps the budget and the evidence, and claims nothing.
LEMMA BlockForHygieneFrame ==
  ASSUME NEW d \in Delivery
  PROVE  LET e == BlockForHygiene(d)
         IN  SameBudget(d, e) /\ SameEvidence(d, e) /\ Unclaimed(e)
<1> DEFINE f == [candidateSha |-> d.materialHeadSha, cause |-> "technical-hygiene-block"]
           e == BlockForHygiene(d)
<1>1. \/ e = Escalate(d, "implementation-budget-exhausted")
      \/ e = [d EXCEPT !.status = "ci-failed-remediable", !.auditInFlight = FALSE,
                       !.ciFailure = f]
  BY DEF BlockForHygiene
<1> HIDE DEF f, e
<1>2. CASE e = Escalate(d, "implementation-budget-exhausted")
  BY <1>2, EscalateFrame DEF Reasons, e
<1>3. CASE e = [d EXCEPT !.status = "ci-failed-remediable", !.auditInFlight = FALSE,
                         !.ciFailure = f]
  BY <1>3 DEF Delivery, SameBudget, SameAttempts, SameEvidence, Unclaimed, BeyondCi, e
<1> QED
  BY <1>1, <1>2, <1>3

\* The cases of the reconciliation with hygiene.
LEMMA ReconcileHygieneReadinessCases ==
  ASSUME NEW d \in Delivery
  PROVE  LET e == ReconcileHygieneReadiness(d)
             owing == AuditRequired(d) /\ d.auditEvidence.decision # "approved"
         IN  \/ e = BlockForHygiene(d)
             \/ AwaitsHygiene(d) /\ ~HygienePassed(d)
                /\ e = [d EXCEPT !.status = "technical-hygiene-pending"]
             \/ AwaitsHygiene(d) /\ HygienePassed(d) /\ owing
                /\ e = [d EXCEPT !.status = "audit-pending"]
             \/ AwaitsHygiene(d) /\ HygienePassed(d) /\ ~owing
                /\ e = [d EXCEPT !.status = "ready-for-human-merge"]
             \/ ~AwaitsHygiene(d) /\ e = d
<1> DEFINE blocked == HygieneBlocks(d)
                        /\ (AwaitsHygiene(d) \/ (d.status = "audit-pending" /\ ~d.auditInFlight))
           waiting == AwaitsHygiene(d) /\ ~HygieneBlocks(d) /\ ~HygienePassed(d)
           owing == AuditRequired(d) /\ d.auditEvidence.decision # "approved"
           passed == AwaitsHygiene(d) /\ HygienePassed(d)
<1>1. CASE blocked
  BY <1>1 DEF ReconcileHygieneReadiness, HygienePassed, HygieneBlocks
<1>2. CASE ~blocked /\ waiting
  BY <1>2 DEF ReconcileHygieneReadiness
<1>3. CASE ~blocked /\ ~waiting /\ passed /\ owing
  BY <1>3 DEF ReconcileHygieneReadiness
<1>4. CASE ~blocked /\ ~waiting /\ passed /\ ~owing
  BY <1>4 DEF ReconcileHygieneReadiness
<1>5. CASE ~blocked /\ ~waiting /\ ~passed
  <2>1. ~AwaitsHygiene(d)
    BY <1>5
  <2> QED
    BY <1>5, <2>1 DEF ReconcileHygieneReadiness
<1> QED
  BY <1>1, <1>2, <1>3, <1>4, <1>5

\* Reconciling readiness keeps the budget and the evidence; a delivery that green
\* CI stands behind becomes ready only with passed hygiene and the audit it owes.
LEMMA ReconcileHygieneReadinessFrame ==
  ASSUME NEW d \in Delivery
  PROVE  LET e == ReconcileHygieneReadiness(d)
         IN  /\ SameBudget(d, e) /\ SameEvidence(d, e)
             /\ CiJustified(d) => CiJustified(e) /\ Ready(e)
<1> DEFINE e == ReconcileHygieneReadiness(d)
<1>0. SameBudget(d, d) /\ SameEvidence(d, d)
  BY DEF SameBudget, SameAttempts, SameEvidence
<1>1. \/ e = BlockForHygiene(d)
      \/ AwaitsHygiene(d) /\ e = [d EXCEPT !.status = "technical-hygiene-pending"]
      \/ AwaitsHygiene(d) /\ e = [d EXCEPT !.status = "audit-pending"]
      \/ AwaitsHygiene(d) /\ HygienePassed(d)
         /\ ~(AuditRequired(d) /\ d.auditEvidence.decision # "approved")
         /\ e = [d EXCEPT !.status = "ready-for-human-merge"]
      \/ ~AwaitsHygiene(d) /\ e = d
  BY ReconcileHygieneReadinessCases
<1> HIDE DEF e
<1>2. CASE e = BlockForHygiene(d)
  BY <1>2, BlockForHygieneFrame, UnclaimedJustified DEF e
<1>3. CASE AwaitsHygiene(d) /\ e = [d EXCEPT !.status = "technical-hygiene-pending"]
  <2>1. SameBudget(d, e) /\ SameEvidence(d, e) /\ e.status = "technical-hygiene-pending"
    BY <1>3, StatusFrame DEF Statuses
  <2>2. CiJustified(d) => e.ciEvidence = e.materialHeadSha
    BY <1>3, <2>1 DEF SameEvidence, AwaitsHygiene, CiJustified, BeyondCi
  <2> QED
    BY <2>1, <2>2 DEF CiJustified, Ready, e
<1>4. CASE AwaitsHygiene(d) /\ e = [d EXCEPT !.status = "audit-pending"]
  <2>1. SameBudget(d, e) /\ SameEvidence(d, e) /\ e.status = "audit-pending"
    BY <1>4, StatusFrame DEF Statuses
  <2>2. CiJustified(d) => e.ciEvidence = e.materialHeadSha
    BY <1>4, <2>1 DEF SameEvidence, AwaitsHygiene, CiJustified, BeyondCi
  <2> QED
    BY <2>1, <2>2 DEF CiJustified, Ready, e
<1>5. CASE /\ AwaitsHygiene(d) /\ HygienePassed(d)
           /\ ~(AuditRequired(d) /\ d.auditEvidence.decision # "approved")
           /\ e = [d EXCEPT !.status = "ready-for-human-merge"]
  <2>1. /\ SameBudget(d, e) /\ SameEvidence(d, e) /\ e.technicalHygiene = d.technicalHygiene
        /\ e.status = "ready-for-human-merge"
    BY <1>5, StatusFrame DEF Statuses
  <2>2. CiJustified(d) => e.ciEvidence = e.materialHeadSha
    BY <1>5, <2>1 DEF SameEvidence, AwaitsHygiene, CiJustified, BeyondCi
  <2>3. HygienePassed(e)
    BY <1>5, <2>1 DEF HygienePassed, HygieneForMaterial, SameEvidence
  <2>4. AuditRequired(e) => e.auditEvidence.decision = "approved"
    BY <1>5, <2>1 DEF AuditRequired, SameBudget, SameEvidence
  <2> QED
    BY <2>1, <2>2, <2>3, <2>4 DEF CiJustified, Ready, e
<1>6. CASE ~AwaitsHygiene(d) /\ e = d
  BY <1>0, <1>6 DEF AwaitsHygiene, Ready, e
<1> QED
  BY <1>1, <1>2, <1>3, <1>4, <1>5, <1>6

\* The technical-hygiene-result event keeps the budget and the evidence.
LEMMA ApplyHygieneFrame ==
  ASSUME NEW d \in Delivery, NEW h \in Hygiene
  PROVE  LET e == ApplyHygiene(d, h)
         IN  /\ SameBudget(d, e) /\ SameEvidence(d, e)
             /\ CiJustified(d) => CiJustified(e) /\ Ready(e)
<1> DEFINE f == [d EXCEPT !.technicalHygiene = h]
<1>1. /\ f \in Delivery /\ SameBudget(d, f) /\ SameEvidence(d, f)
      /\ f.status = d.status /\ f.terminalReason = d.terminalReason
  BY DEF Delivery, SameBudget, SameAttempts, SameEvidence
<1>2. ApplyHygiene(d, h) = ReconcileHygieneReadiness(f)
  BY DEF ApplyHygiene
<1> HIDE DEF f
<1>3. CiJustified(d) => CiJustified(f)
  BY <1>1 DEF CiJustified, BeyondCi, SameEvidence
<1> QED
  BY <1>1, <1>2, <1>3, ReconcileHygieneReadinessFrame
  DEF SameBudget, SameAttempts, SameEvidence

\* The resolve-technical-hygiene event keeps the budget and the evidence.
LEMMA ResolveHygieneFrame ==
  ASSUME NEW d \in Delivery
  PROVE  LET e == ResolveHygiene(d)
         IN  /\ SameBudget(d, e) /\ SameEvidence(d, e)
             /\ CiJustified(d) => CiJustified(e) /\ Ready(e)
<1> DEFINE next == ReconcileHygieneReadiness(d)
           e == ResolveHygiene(d)
<1>1. /\ next \in Delivery /\ SameBudget(d, next) /\ SameEvidence(d, next)
      /\ CiJustified(d) => CiJustified(next) /\ Ready(next)
  BY ReconcileHygieneReadinessType, ReconcileHygieneReadinessFrame
<1>2. \/ next.status = "technical-hygiene-pending" /\ e = Escalate(next, "technical-hygiene")
      \/ e = next
  BY DEF ResolveHygiene
<1> HIDE DEF next, e
<1>3. CASE next.status = "technical-hygiene-pending" /\ e = Escalate(next, "technical-hygiene")
  <2>1. SameBudget(next, e) /\ SameEvidence(next, e) /\ e.status = "escalated"
    BY <1>1, <1>3, EscalateFrame DEF Reasons
  <2>2. CiJustified(next) => e.ciEvidence = e.materialHeadSha
    BY <1>3, <2>1 DEF CiJustified, BeyondCi, SameEvidence
  <2> QED
    BY <1>1, <2>1, <2>2
    DEF SameBudget, SameAttempts, SameEvidence, CiJustified, Ready, e
<1>4. CASE e = next
  BY <1>1, <1>4 DEF e
<1> QED
  BY <1>2, <1>3, <1>4

\* Green CI is recorded for the head of the delivery, on the same budget.
LEMMA ApplyCiSuccessFrame ==
  ASSUME NEW d \in Delivery
  PROVE  LET e == ApplyCiSuccess(d)
         IN  /\ SameBudget(d, e) /\ e.materialHeadSha = d.materialHeadSha
             /\ e.ciEvidence = d.materialHeadSha /\ e.auditEvidence = d.auditEvidence
             /\ CiJustified(e) /\ Ready(e)
<1> DEFINE f == RecordCiSuccess(d)
<1>1. /\ f \in Delivery /\ SameBudget(d, f) /\ f.materialHeadSha = d.materialHeadSha
      /\ f.ciEvidence = d.materialHeadSha /\ f.auditEvidence = d.auditEvidence
  BY RecordCiSuccessType DEF RecordCiSuccess, Delivery, SameBudget, SameAttempts
<1>2. ApplyCiSuccess(d) = ReconcileHygieneReadiness(f)
  BY DEF ApplyCiSuccess
<1> HIDE DEF f
<1>3. CiJustified(f)
  BY <1>1 DEF CiJustified
<1> QED
  BY <1>1, <1>2, <1>3, ReconcileHygieneReadinessFrame
  DEF SameBudget, SameAttempts, SameEvidence

\* A verdict is recorded for the head of the delivery, on the same budget.
LEMMA ApplyAuditResultFrame ==
  ASSUME NEW d \in Delivery, NEW verdict \in AuditVerdicts,
         d.status = "audit-pending", CiJustified(d)
  PROVE  LET e == ApplyAuditResult(d, verdict)
         IN  /\ SameBudget(d, e) /\ e.materialHeadSha = d.materialHeadSha
             /\ e.ciEvidence = d.ciEvidence
             /\ e.auditEvidence.candidateSha = d.materialHeadSha
             /\ e.auditEvidence.decision = "approved" => verdict = "approved"
             /\ CiJustified(e) /\ Ready(e)
<1> DEFINE f == RecordAuditResult(d, verdict)
           approved == [candidateSha |-> d.materialHeadSha, decision |-> "approved"]
           rejected == [candidateSha |-> d.materialHeadSha, decision |-> "rejected"]
           failed == [d EXCEPT !.auditInFlight = FALSE, !.auditEvidence = rejected]
<1>0. f \in Delivery /\ ApplyAuditResult(d, verdict) = ReconcileHygieneReadiness(f)
  BY RecordAuditResultType DEF ApplyAuditResult
<1>1. d.ciEvidence = d.materialHeadSha
  BY DEF CiJustified, BeyondCi
<1>2. \/ /\ verdict = "approved"
         /\ f = [d EXCEPT !.status = "ready-for-human-merge", !.auditInFlight = FALSE,
                          !.auditEvidence = approved]
      \/ f = Escalate(failed, "audit-context-insufficient")
      \/ f = Escalate(failed, "audit-remediation-budget-exhausted")
      \/ f = [failed EXCEPT !.status = "audit-failed-remediable"]
  BY DEF RecordAuditResult, RecordAuditApproval, RecordAuditRejection
<1>3. /\ failed \in Delivery /\ SameBudget(d, failed)
      /\ failed.materialHeadSha = d.materialHeadSha /\ failed.ciEvidence = d.ciEvidence
      /\ failed.auditEvidence = rejected
  <2>1. rejected \in AuditEvidence
    BY DeliveryFields, AuditEvidenceType
  <2> HIDE DEF rejected
  <2> QED
    BY <2>1 DEF Delivery, SameBudget, SameAttempts
<1>4. /\ SameBudget(d, f) /\ f.materialHeadSha = d.materialHeadSha
      /\ f.ciEvidence = d.ciEvidence
      /\ f.auditEvidence.candidateSha = d.materialHeadSha
      /\ f.auditEvidence.decision = "approved" => verdict = "approved"
  <2> HIDE DEF f, failed
  <2>1. CASE /\ verdict = "approved"
             /\ f = [d EXCEPT !.status = "ready-for-human-merge", !.auditInFlight = FALSE,
                              !.auditEvidence = approved]
    BY <2>1 DEF Delivery, SameBudget, SameAttempts
  <2>2. ASSUME NEW reason \in Reasons, f = Escalate(failed, reason)
        PROVE  /\ SameBudget(d, f) /\ f.materialHeadSha = d.materialHeadSha
               /\ f.ciEvidence = d.ciEvidence /\ f.auditEvidence = rejected
    BY <1>3, <2>2, EscalateFrame DEF SameBudget, SameAttempts, SameEvidence
  <2>3. CASE f = [failed EXCEPT !.status = "audit-failed-remediable"]
    BY <1>3, <2>3, StatusFrame DEF Statuses, SameBudget, SameAttempts, SameEvidence
  <2>4. /\ "audit-context-insufficient" \in Reasons
        /\ "audit-remediation-budget-exhausted" \in Reasons
    BY DEF Reasons
  <2> QED
    BY <1>2, <2>1, <2>2, <2>3, <2>4
<1> HIDE DEF f
<1>5. CiJustified(f)
  BY <1>1, <1>4 DEF CiJustified
<1> QED
  BY <1>0, <1>4, <1>5, ReconcileHygieneReadinessFrame
  DEF SameBudget, SameAttempts, SameEvidence

\* Head drift starts over with the new head, on the attempts already spent.
LEMMA HeadDriftFrame ==
  ASSUME NEW d \in Delivery, NEW head \in HeadOrNone, NEW risk \in Profiles,
         head # d.materialHeadSha
  PROVE  LET e == Classify(RecordHeadDrift(d, head), risk)
         IN  SameAttempts(d, e) /\ NoEvidence(e, head) /\ Unclaimed(e) /\ e.riskProfile = risk
<1> DEFINE f == RecordHeadDrift(d, head)
<1>1. f \in Delivery /\ SameAttempts(d, f) /\ NoEvidence(f, head)
  BY RecordHeadDriftType DEF RecordHeadDrift, Delivery, SameAttempts, NoEvidence
<1> HIDE DEF f
<1>2. LET e == Classify(f, risk)
      IN  SameAttempts(f, e) /\ NoEvidence(e, head) /\ Unclaimed(e) /\ e.riskProfile = risk
  BY <1>1 DEF Classify, Delivery, SameAttempts, NoEvidence, Unclaimed, BeyondCi
<1> QED
  BY <1>1, <1>2 DEF SameAttempts, f

\* A promotion changes the risk and nothing else.
LEMMA PromoteRiskFrame ==
  ASSUME NEW d \in Delivery, NEW risk \in Profiles
  PROVE  LET e == PromoteRisk(d, risk)
         IN  /\ SameAttempts(d, e) /\ SameEvidence(d, e) /\ e.riskProfile = risk
             /\ e.status = d.status
             /\ CiJustified(d) => CiJustified(e)
BY DEF PromoteRisk, Delivery, SameAttempts, SameEvidence, CiJustified, BeyondCi

\* What is stored keeps the budget, the evidence and what they justify.
LEMMA PersistedFrame ==
  ASSUME NEW d \in Delivery
  PROVE  LET e == Persisted(d)
         IN  /\ SameBudget(d, e) /\ SameEvidence(d, e) /\ e.status = d.status
             /\ CiJustified(d) => CiJustified(e)
BY DEF Persisted, Delivery, SameBudget, SameAttempts, SameEvidence, CiJustified, BeyondCi

\* What is read back keeps the budget and the evidence, and is not ready.
LEMMA OperationalFromPersistentFrame ==
  ASSUME NEW d \in Delivery
  PROVE  LET e == OperationalFromPersistent(d)
         IN  /\ SameBudget(d, e) /\ SameEvidence(d, e)
             /\ CiJustified(d) => CiJustified(e)
             /\ Ready(e)
BY DEF OperationalFromPersistent, Delivery, SameBudget, SameAttempts, SameEvidence,
       CiJustified, BeyondCi, Ready

\* Reconciling with another head or base keeps the budget and drops the evidence.
LEMMA ReconcilePersistentStateFrame ==
  ASSUME NEW d \in Delivery, NEW head \in HeadOrNone
  PROVE  LET e == ReconcilePersistentState(d, head)
         IN  SameBudget(d, e) /\ NoEvidence(e, head) /\ Unclaimed(e)
BY DEF ReconcilePersistentState, Delivery, SameBudget, SameAttempts, NoEvidence, Unclaimed,
       BeyondCi

\* A new operational delivery waits for CI on its head, under its risk.
LEMMA CreateOperationalDeliveryFrame ==
  ASSUME NEW risk \in Profiles, NEW head \in HeadOrNone
  PROVE  LET e == CreateOperationalDelivery(risk, head)
         IN  e.riskProfile = risk /\ NoEvidence(e, head) /\ Unclaimed(e)
<1> DEFINE c == Classify(CreateDeliveryState(risk, NoHead), risk)
<1>1. c \in Delivery /\ c.riskProfile = risk
  <2>1. CreateDeliveryState(risk, NoHead) \in Delivery
    BY CreateDeliveryStateType, EmptyTypes
  <2> QED
    BY <2>1, ClassifyType DEF Classify, Delivery
<1> HIDE DEF c
<1>2. StartImplementation(c) \in Delivery /\ StartImplementation(c).riskProfile = risk
  BY <1>1, StartImplementationType, StartImplementationFrame
<1>3. CreateOperationalDelivery(risk, head) = PublishMaterial(StartImplementation(c), head)
  BY DEF CreateOperationalDelivery, c
<1> QED
  BY <1>2, <1>3, PublishMaterialFrame DEF SameBudget

\* Setting counters leaves the rest of a delivery alone.
LEMMA CountersFrame ==
  ASSUME NEW d \in Delivery, NEW m \in Nat, NEW n \in Nat, NEW r \in Nat
  PROVE  LET e == [d EXCEPT !.implementationAttempts = m, !.auditAttempts = n,
                            !.auditRemediationAttempts = r]
         IN  /\ e.implementationAttempts = m /\ e.auditAttempts = n
             /\ e.auditRemediationAttempts = r
             /\ e.riskProfile = d.riskProfile /\ SameEvidence(d, e)
             /\ e.status = d.status /\ e.terminalReason = d.terminalReason
BY DEF Delivery, SameEvidence

\* A rebuild waits for CI on the head, under the risk of the head, on the attempts
\* already spent.
LEMMA RebuildCiPendingStateFrame ==
  ASSUME NEW risk \in Profiles, NEW head \in HeadOrNone, NEW d \in Delivery
  PROVE  LET e == RebuildCiPendingState(risk, head, d)
         IN  SameAttempts(d, e) /\ e.riskProfile = risk /\ NoEvidence(e, head) /\ Unclaimed(e)
<1>1. CreateOperationalDelivery(risk, head) \in Delivery
  BY CreateOperationalDeliveryType
<1> QED
  BY <1>1, CreateOperationalDeliveryFrame, CountersFrame, DeliveryFields
  DEF RebuildCiPendingState, SameAttempts, NoEvidence, SameEvidence, Unclaimed, BeyondCi

-----------------------------------------------------------------------------
(* Audits and remediations of a delivery that nobody resumed.                *)

\* States in which the next audit has not been charged.
Unaudited(d) ==
  \/ d.status \in {"queued", "classified", "ci-pending", "implementing"}
  \/ d.status = "audit-pending" /\ ~d.auditInFlight
  \/ d.status = "ci-failed-remediable" /\ d.ciFailure.cause # "technical-hygiene-block"

\* Between two audits of a session that nobody resumed there is a remediation of the
\* findings of the first.
AuditsAlternate(d) ==
  /\ d.auditAttempts <= d.auditRemediationAttempts + 1
  /\ Unaudited(d) => d.auditAttempts <= d.auditRemediationAttempts
  /\ d.status = "technical-hygiene-pending" => ~HygienePassed(d)

\* Reconciling with hygiene keeps audits and remediations alternating.
LEMMA ReconcileAlternates ==
  ASSUME NEW d \in Delivery, AuditsAlternate(d),
         d.status = "ready-for-human-merge" =>
           \/ d.auditAttempts <= d.auditRemediationAttempts
           \/ d.auditEvidence.decision = "approved"
  PROVE  AuditsAlternate(ReconcileHygieneReadiness(d))
<1> DEFINE e == ReconcileHygieneReadiness(d)
           f == [candidateSha |-> d.materialHeadSha, cause |-> "technical-hygiene-block"]
<1>0. /\ d.auditAttempts \in Nat /\ d.auditRemediationAttempts \in Nat
      /\ AwaitsHygiene(d) <=> d.status \in {"ready-for-human-merge", "technical-hygiene-pending"}
  BY DeliveryFields DEF AwaitsHygiene
<1>1. \/ e = BlockForHygiene(d)
      \/ ~HygienePassed(d) /\ e = [d EXCEPT !.status = "technical-hygiene-pending"]
      \/ /\ AwaitsHygiene(d) /\ HygienePassed(d) /\ d.auditEvidence.decision # "approved"
         /\ e = [d EXCEPT !.status = "audit-pending"]
      \/ e = [d EXCEPT !.status = "ready-for-human-merge"]
      \/ e = d
  BY ReconcileHygieneReadinessCases
<1> HIDE DEF e
<1>2. CASE e = BlockForHygiene(d)
  <2>1. \/ e = Escalate(d, "implementation-budget-exhausted")
        \/ e = [d EXCEPT !.status = "ci-failed-remediable", !.auditInFlight = FALSE,
                         !.ciFailure = f]
    BY <1>2 DEF BlockForHygiene
  <2>2. /\ e.auditAttempts = d.auditAttempts
        /\ e.auditRemediationAttempts = d.auditRemediationAttempts
        /\ \/ e.status = "escalated"
           \/ e.status = "ci-failed-remediable" /\ e.ciFailure = f
    BY <2>1 DEF Escalate, Delivery
  <2> QED
    BY <1>0, <2>2 DEF AuditsAlternate, Unaudited, e
<1>3. CASE ~HygienePassed(d) /\ e = [d EXCEPT !.status = "technical-hygiene-pending"]
  <2>1. /\ e.auditAttempts = d.auditAttempts
        /\ e.auditRemediationAttempts = d.auditRemediationAttempts
        /\ e.status = "technical-hygiene-pending" /\ e.technicalHygiene = d.technicalHygiene
        /\ e.materialHeadSha = d.materialHeadSha
    BY <1>3 DEF Delivery
  <2> QED
    BY <1>3, <2>1 DEF AuditsAlternate, Unaudited, HygienePassed, HygieneForMaterial, e
<1>4. CASE /\ AwaitsHygiene(d) /\ HygienePassed(d) /\ d.auditEvidence.decision # "approved"
           /\ e = [d EXCEPT !.status = "audit-pending"]
  <2>1. /\ e.auditAttempts = d.auditAttempts
        /\ e.auditRemediationAttempts = d.auditRemediationAttempts
        /\ e.status = "audit-pending"
    BY <1>4 DEF Delivery
  <2>2. d.auditAttempts <= d.auditRemediationAttempts
    BY <1>0, <1>4 DEF AuditsAlternate
  <2> QED
    BY <1>0, <2>1, <2>2 DEF AuditsAlternate, e
<1>5. CASE e = [d EXCEPT !.status = "ready-for-human-merge"]
  <2>1. /\ e.auditAttempts = d.auditAttempts
        /\ e.auditRemediationAttempts = d.auditRemediationAttempts
        /\ e.status = "ready-for-human-merge"
    BY <1>5 DEF Delivery
  <2> QED
    BY <2>1 DEF AuditsAlternate, Unaudited, e
<1> QED
  BY <1>1, <1>2, <1>3, <1>4, <1>5 DEF e

\* Hygiene that arrives before CI changes nothing else.
LEMMA HygieneBeforeCi ==
  ASSUME NEW d \in Delivery, NEW h \in Hygiene, d.status = "ci-pending"
  PROVE  ApplyHygiene(d, h).status = "ci-pending"
<1> DEFINE f == [d EXCEPT !.technicalHygiene = h]
<1>1. f.status = "ci-pending"
  BY DEF Delivery
<1>2. ApplyHygiene(d, h) = ReconcileHygieneReadiness(f)
  BY DEF ApplyHygiene
<1> HIDE DEF f
<1> QED
  BY <1>1, <1>2 DEF ReconcileHygieneReadiness, AwaitsHygiene

\* What waits for CI on the attempts of an alternating delivery alternates.
LEMMA PendingAlternates ==
  ASSUME NEW d \in Delivery, NEW e \in Delivery, SameAttempts(d, e), e.status = "ci-pending",
         d.auditAttempts <= d.auditRemediationAttempts
  PROVE  AuditsAlternate(e)
BY DeliveryFields DEF SameAttempts, AuditsAlternate

\* Green CI keeps audits and remediations alternating.
LEMMA CiSuccessAlternates ==
  ASSUME NEW d \in Delivery, AuditsAlternate(d), d.status = "ci-pending"
  PROVE  AuditsAlternate(ApplyCiSuccess(d))
<1> DEFINE f == RecordCiSuccess(d)
<1>1. /\ f \in Delivery /\ f.auditAttempts = d.auditAttempts
      /\ f.auditRemediationAttempts = d.auditRemediationAttempts
      /\ f.status \in {"audit-pending", "ready-for-human-merge"}
  <2>1. f \in Delivery
    BY RecordCiSuccessType
  <2> QED
    BY <2>1 DEF RecordCiSuccess, Delivery
<1>2. ApplyCiSuccess(d) = ReconcileHygieneReadiness(f)
  BY DEF ApplyCiSuccess
<1> HIDE DEF f
<1>3. d.auditAttempts <= d.auditRemediationAttempts
  BY DEF AuditsAlternate, Unaudited
<1>4. AuditsAlternate(f)
  BY <1>1, <1>3, DeliveryFields DEF AuditsAlternate
<1> QED
  BY <1>1, <1>2, <1>3, <1>4, ReconcileAlternates

\* Red CI keeps audits and remediations alternating.
LEMMA CiFailureAlternates ==
  ASSUME NEW d \in Delivery, AuditsAlternate(d), d.status = "ci-pending"
  PROVE  AuditsAlternate(RecordCiFailure(d, "actionable"))
<1> DEFINE f == [candidateSha |-> d.materialHeadSha, cause |-> "actionable"]
           failed == [d EXCEPT !.ciFailure = f]
           e == RecordCiFailure(d, "actionable")
<1>1. /\ \/ e = Escalate(failed, "implementation-budget-exhausted")
         \/ e = [failed EXCEPT !.status = "ci-failed-remediable", !.ciEvidence = NoHead]
  BY DEF RecordCiFailure
<1> HIDE DEF e, f
<1>2. /\ e.auditAttempts = d.auditAttempts
      /\ e.auditRemediationAttempts = d.auditRemediationAttempts
      /\ e.status \in {"escalated", "ci-failed-remediable"}
  BY <1>1 DEF Escalate, Delivery
<1>3. d.auditAttempts <= d.auditRemediationAttempts
  BY DEF AuditsAlternate, Unaudited
<1> QED
  BY <1>2, <1>3, DeliveryFields DEF AuditsAlternate, e

\* Resolving missing hygiene keeps audits and remediations alternating.
LEMMA ResolveAlternates ==
  ASSUME NEW d \in Delivery, AuditsAlternate(d), d.status = "technical-hygiene-pending"
  PROVE  AuditsAlternate(ResolveHygiene(d))
<1> DEFINE next == ReconcileHygieneReadiness(d)
           e == ResolveHygiene(d)
<1>1. next \in Delivery /\ AuditsAlternate(next)
  BY ReconcileAlternates, ReconcileHygieneReadinessType
<1>2. e = next \/ e = Escalate(next, "technical-hygiene")
  BY DEF ResolveHygiene
<1> HIDE DEF next, e
<1>3. CASE e = Escalate(next, "technical-hygiene")
  <2>1. /\ e.auditAttempts = next.auditAttempts
        /\ e.auditRemediationAttempts = next.auditRemediationAttempts
        /\ e.status = "escalated"
    BY <1>1, <1>3 DEF Escalate, Delivery
  <2> QED
    BY <1>1, <2>1 DEF AuditsAlternate, Unaudited, e
<1> QED
  BY <1>1, <1>2, <1>3 DEF e

\* A remediation that is not refused spends one attempt, on the findings of the
\* audit when there are any.
LEMMA RemediationSpends ==
  ASSUME NEW d \in Delivery
  PROVE  LET e == StartImplementation(d)
         IN  /\ e.status # "escalated" =>
                  e.implementationAttempts + e.auditRemediationAttempts
                    = d.implementationAttempts + d.auditRemediationAttempts + 1
             /\ AuditsAlternate(d) /\ (Unaudited(d) \/ d.status = "audit-failed-remediable")
                  => AuditsAlternate(e)
<1> DEFINE e == StartImplementation(d)
<1>1. /\ d.implementationAttempts \in Nat /\ d.auditRemediationAttempts \in Nat
      /\ d.auditAttempts \in Nat
  BY DeliveryFields
<1>2. \/ \E reason : e = Escalate(d, reason)
      \/ /\ d.status = "audit-failed-remediable"
         /\ e = [d EXCEPT !.status = "implementing",
                          !.auditRemediationAttempts = d.auditRemediationAttempts + 1,
                          !.ciFailure = NoCiFailure, !.auditInFlight = FALSE]
      \/ /\ d.status # "audit-failed-remediable"
         /\ e = [d EXCEPT !.status = "implementing",
                          !.implementationAttempts = d.implementationAttempts + 1,
                          !.ciFailure = NoCiFailure, !.auditInFlight = FALSE]
  BY DEF StartImplementation, StartAuditRemediation, StartImplementationAttempt
<1> HIDE DEF e
<1>3. CASE \E reason : e = Escalate(d, reason)
  <2>1. /\ e.auditAttempts = d.auditAttempts
        /\ e.auditRemediationAttempts = d.auditRemediationAttempts
        /\ e.status = "escalated"
    BY <1>3 DEF Escalate, Delivery
  <2> QED
    BY <2>1 DEF AuditsAlternate, Unaudited, e
<1>4. CASE /\ d.status = "audit-failed-remediable"
           /\ e = [d EXCEPT !.status = "implementing",
                            !.auditRemediationAttempts = d.auditRemediationAttempts + 1,
                            !.ciFailure = NoCiFailure, !.auditInFlight = FALSE]
  <2>1. /\ e.auditAttempts = d.auditAttempts
        /\ e.implementationAttempts = d.implementationAttempts
        /\ e.auditRemediationAttempts = d.auditRemediationAttempts + 1
        /\ e.status = "implementing"
    BY <1>4 DEF Delivery
  <2> QED
    BY <1>1, <2>1 DEF AuditsAlternate, e
<1>5. CASE /\ d.status # "audit-failed-remediable"
           /\ e = [d EXCEPT !.status = "implementing",
                            !.implementationAttempts = d.implementationAttempts + 1,
                            !.ciFailure = NoCiFailure, !.auditInFlight = FALSE]
  <2>1. /\ e.auditAttempts = d.auditAttempts
        /\ e.implementationAttempts = d.implementationAttempts + 1
        /\ e.auditRemediationAttempts = d.auditRemediationAttempts
        /\ e.status = "implementing"
    BY <1>5 DEF Delivery
  <2> QED
    BY <1>1, <1>5, <2>1 DEF AuditsAlternate, e
<1> QED
  BY <1>2, <1>3, <1>4, <1>5

\* An audit that is not refused spends one attempt, and is not refused while audits
\* and remediations alternate.
LEMMA AuditSpends ==
  ASSUME NEW d \in Delivery, CanStartAudit(d)
  PROVE  LET e == StartAudit(d)
         IN  /\ e.status # "escalated" => e.auditAttempts = d.auditAttempts + 1
             /\ AuditsAlternate(d) => AuditsAlternate(e)
             /\ AuditsAlternate(d) /\ WithinCeilings(d) => e.status # "escalated"
<1> DEFINE e == StartAudit(d)
<1>1. /\ d.auditRemediationAttempts \in Nat /\ d.auditAttempts \in Nat
      /\ MaxAuditAttempts(d.riskProfile) \in Nat
      /\ d.status = "audit-pending" /\ ~d.auditInFlight
  BY DeliveryFields DEF CanStartAudit, MaxAuditAttempts
<1>2. AuditsAlternate(d) => d.auditAttempts <= d.auditRemediationAttempts
  BY <1>1 DEF AuditsAlternate, Unaudited
<1>3. CASE d.auditAttempts >= MaxAuditAttempts(d.riskProfile) + 1
  <2>1. e = Escalate(d, "audit-remediation-budget-exhausted")
    BY <1>3 DEF StartAudit
  <2>2. /\ e.auditAttempts = d.auditAttempts
        /\ e.auditRemediationAttempts = d.auditRemediationAttempts
        /\ e.status = "escalated"
    BY <2>1 DEF Escalate, Delivery
  <2>3. ~(AuditsAlternate(d) /\ WithinCeilings(d))
    BY <1>1, <1>2, <1>3 DEF WithinCeilings
  <2> HIDE DEF e
  <2> QED
    BY <2>2, <2>3 DEF AuditsAlternate, Unaudited, e
<1>4. CASE ~(d.auditAttempts >= MaxAuditAttempts(d.riskProfile) + 1)
  <2>1. e = [d EXCEPT !.auditAttempts = d.auditAttempts + 1, !.auditInFlight = TRUE]
    BY <1>4 DEF StartAudit
  <2>2. /\ e.auditAttempts = d.auditAttempts + 1
        /\ e.auditRemediationAttempts = d.auditRemediationAttempts
        /\ e.status = "audit-pending" /\ e.auditInFlight
    BY <1>1, <2>1 DEF Delivery
  <2> HIDE DEF e
  <2> QED
    BY <1>1, <1>2, <2>2 DEF AuditsAlternate, Unaudited, e
<1> QED
  BY <1>3, <1>4

\* A verdict keeps audits and remediations alternating.
LEMMA VerdictAlternates ==
  ASSUME NEW d \in Delivery, NEW verdict \in AuditVerdicts, AuditsAlternate(d),
         d.status = "audit-pending"
  PROVE  AuditsAlternate(ApplyAuditResult(d, verdict))
<1> DEFINE f == RecordAuditResult(d, verdict)
           approved == [candidateSha |-> d.materialHeadSha, decision |-> "approved"]
           rejected == [candidateSha |-> d.materialHeadSha, decision |-> "rejected"]
           failed == [d EXCEPT !.auditInFlight = FALSE, !.auditEvidence = rejected]
<1>1. \/ f = [d EXCEPT !.status = "ready-for-human-merge", !.auditInFlight = FALSE,
                       !.auditEvidence = approved]
      \/ \E reason : f = Escalate(failed, reason)
      \/ f = [failed EXCEPT !.status = "audit-failed-remediable"]
  BY DEF RecordAuditResult, RecordAuditApproval, RecordAuditRejection
<1>2. f \in Delivery /\ ApplyAuditResult(d, verdict) = ReconcileHygieneReadiness(f)
  BY RecordAuditResultType DEF ApplyAuditResult
<1> HIDE DEF f, approved, rejected
<1>3. /\ f.auditAttempts = d.auditAttempts
      /\ f.auditRemediationAttempts = d.auditRemediationAttempts
      /\ \/ f.status = "ready-for-human-merge" /\ f.auditEvidence = approved
         \/ f.status \in {"escalated", "audit-failed-remediable"}
  BY <1>1 DEF Escalate, Delivery
<1>4. AuditsAlternate(f)
  BY <1>3 DEF AuditsAlternate, Unaudited
<1> QED
  BY <1>2, <1>3, <1>4, ReconcileAlternates DEF approved

\* A new operational delivery waits for CI and has not been audited.
LEMMA CreatedAlternates ==
  ASSUME NEW risk \in Profiles, NEW head \in HeadOrNone
  PROVE  LET e == CreateOperationalDelivery(risk, head)
         IN  /\ e.status = "ci-pending"
             /\ e.auditAttempts = 0 /\ e.auditRemediationAttempts = 0
<1> DEFINE c == Classify(CreateDeliveryState(risk, NoHead), risk)
           s == StartImplementation(c)
<1>1. CreateDeliveryState(risk, NoHead) \in Delivery
  BY CreateDeliveryStateType, EmptyTypes
<1>2. /\ c \in Delivery /\ c.status = "classified"
      /\ c.auditAttempts = 0 /\ c.auditRemediationAttempts = 0
  <2>1. c \in Delivery
    BY <1>1, ClassifyType
  <2> QED
    BY <2>1, <1>1 DEF Classify, CreateDeliveryState, Delivery
<1> HIDE DEF c
<1>3. /\ s \in Delivery
      /\ s.auditAttempts = 0 /\ s.auditRemediationAttempts = 0
  <2>1. s \in Delivery
    BY <1>2, StartImplementationType
  <2>2. \/ s = Escalate(c, "implementation-budget-exhausted")
        \/ s = [c EXCEPT !.status = "implementing",
                         !.implementationAttempts = c.implementationAttempts + 1,
                         !.ciFailure = NoCiFailure, !.auditInFlight = FALSE]
    BY <1>2 DEF StartImplementation, StartImplementationAttempt
  <2> QED
    BY <1>2, <2>1, <2>2 DEF Escalate, Delivery
<1>4. CreateOperationalDelivery(risk, head) = PublishMaterial(s, head)
  BY DEF CreateOperationalDelivery, c
<1> HIDE DEF s
<1> QED
  BY <1>3, <1>4 DEF PublishMaterial, Delivery
=============================================================================
