---------------------------- MODULE LegacyAdoption ----------------------------
(***************************************************************************)
(* The adoption of a pull request that Delivery V2 did not make            *)
(* (src/v2/legacy-adoption.mjs and its callers in                          *)
(* scripts/guard-delivery-v2-reentry.mjs and                               *)
(* scripts/resume-delivery-v2-controller.mjs), up to the result of its     *)
(* first audit.  Two comments describe such a delivery: the adoption       *)
(* checkpoint, with an audit budget of its own, and from some moment on    *)
(* the state comment of StageRecovery.  They are written one after the     *)
(* other, and a session may end between any two writes.                    *)
(*                                                                         *)
(* The audit is the stage of StageRecovery, with a step in which its run   *)
(* is bound to the checkpoint and one in which its verdict is recorded     *)
(* there.  A delivery that is not adopted is a stage as it is in           *)
(* StageRecovery.                                                          *)
(***************************************************************************)
EXTENDS StageRecovery

CONSTANT MaxMoves     \* bound on the moves of the head before there is a state comment

ASSUME MovesAssumption == MaxMoves \in Nat

VARIABLES
  place,        \* how far the adoption is, "none" for a delivery that is not adopted
  head,         \* the head of the pull request, before there is a state comment
  checkpoint,   \* the adoption checkpoint
  counted,      \* the state comment has charged the audit (auditAttempts = 1)
  bound,        \* what the session has done to the checkpoint for the run it waited for
  ledger,       \* what the state comment says of failed runs of the audit
  result        \* the run whose verdict the state comment has taken

adoption == <<place, head, checkpoint, counted, bound, ledger, result>>
allVars == <<vars, adoption>>

LegacyAdoptionAuditMaxAttempts == 1

Places == {"none", "idle", "reading", "frozen", "reserved", "operating"}

AdoptionTypeOK ==
  /\ TypeOK
  /\ place \in Places
  /\ head \in 0..MaxMoves
  /\ checkpoint \in
       [head : 0..MaxMoves, nonce : Nat, run : 0..Len(runs), decided : BOOLEAN,
        attempts : 0..LegacyAdoptionAuditMaxAttempts]
  /\ counted \in BOOLEAN
  /\ bound \in {"no", "bound", "recorded"}
  /\ ledger \in [failed : SUBSET DOMAIN runs, replaced : 0..Len(runs)]
  /\ result \in 0..Len(runs)

\* createLegacyAdoption: the guard has made the checkpoint for the head it found.
AdoptionInit ==
  /\ \/ place = "none" /\ Init
     \/ place = "reading" /\ Begin("none") /\ stage = "audit"
  /\ head = 0
  /\ checkpoint = [head |-> 0, nonce |-> NoNonce, run |-> NoRun, decided |-> FALSE, attempts |-> 0]
  /\ counted = FALSE
  /\ bound = "no"
  /\ ledger = [failed |-> {}, replaced |-> NoRun]
  /\ result = NoRun

-----------------------------------------------------------------------------
(* Before there is a state comment.                                          *)

\* reconcileLegacyAdoption: at another head the audit is forgotten, its charge is not.
Reconciled ==
  IF checkpoint.head = head THEN checkpoint
  ELSE [checkpoint EXCEPT !.head = head, !.nonce = NoNonce, !.run = NoRun, !.decided = FALSE]

\* The guard of another session reconciles the checkpoint and has the head checked out.
BeginAdoption ==
  /\ place = "idle" /\ starts < MaxStarts
  /\ starts' = starts + 1
  /\ checkpoint' = Reconciled
  /\ place' = "reading" /\ checkout' = plane
  /\ UNCHANGED <<stage, runs, comment, pc, current, used, way, plane, headMoved, scheduled>>
  /\ UNCHANGED <<head, counted, bound, ledger, result>>

\* persistLegacyRefreeze: the head is observed again after the evidence was collected.  It
\* is frozen when CI is green; otherwise the session ends with the checkpoint.
Refreeze ==
  /\ place = "reading"
  /\ checkpoint' = Reconciled
  /\ \/ place' = "frozen" /\ checkpoint.head = head
     \/ place' = "idle"
  /\ UNCHANGED <<vars, head, counted, bound, ledger, result>>

\* Mutant: the budget is compared with the wrong sign of the bound.
BudgetLeftOffByOne == checkpoint.attempts <= LegacyAdoptionAuditMaxAttempts

BudgetLeft == checkpoint.attempts < LegacyAdoptionAuditMaxAttempts

\* reserveLegacyAdoptionAudit, with the nonce that is in the checkpoint or a new one.
ReserveAudit ==
  /\ place = "frozen"
  /\ \/ checkpoint.nonce # NoNonce /\ UNCHANGED checkpoint
     \/ /\ checkpoint.nonce = NoNonce /\ BudgetLeft
        /\ checkpoint' = [checkpoint EXCEPT !.nonce = NewNonce, !.attempts = @ + 1]
  /\ place' = "reserved"
  /\ UNCHANGED <<vars, head, counted, bound, ledger, result>>

\* The state comment is made for the head of the checkpoint, whatever the head is by now,
\* and the session goes on with the audit.
StoreState ==
  /\ place = "reserved"
  /\ comment' = [comment EXCEPT !.nonce = checkpoint.nonce]
  /\ headMoved' = (head # checkpoint.head)
  /\ pc' = "lookup" /\ way' = "adopted"
  /\ place' = "operating"
  /\ UNCHANGED <<stage, runs, current, used, checkout, plane, starts, scheduled>>
  /\ UNCHANGED <<head, checkpoint, counted, bound, ledger, result>>

\* The session throws or is killed.  Without a state comment nothing continues it.
Abandon ==
  /\ place \in {"reading", "frozen", "reserved"}
  /\ place' = "idle"
  /\ UNCHANGED <<vars, head, checkpoint, counted, bound, ledger, result>>

MoveHead ==
  /\ place \in {"idle", "reading", "frozen", "reserved"}
  /\ head < MaxMoves /\ head' = head + 1
  /\ UNCHANGED <<vars, place, checkpoint, counted, bound, ledger, result>>

-----------------------------------------------------------------------------
(* The audit of an adopted pull request.                                     *)

\* shouldStartFreshAudit: nobody has charged the audit, which keeps its nonce.
StartAudit ==
  /\ pc = "lookup" /\ ~counted
  /\ counted' = TRUE
  /\ comment' = [comment EXCEPT !.next = DispatchOf["audit"]]
  /\ way' = "fresh"
  /\ UNCHANGED <<stage, runs, pc, current, used, checkout, github>>
  /\ UNCHANGED <<place, head, checkpoint, bound, ledger, result>>

\* Only the session that charged the audit dispatches it.
ChargedHere == way = "fresh"

DispatchReserved ==
  /\ pc = "lookup" /\ counted /\ ChargedHere
  /\ Listed(comment.nonce) = {}
  /\ pc' = "dispatched"
  /\ UNCHANGED <<stage, runs, comment, current, used, way, checkout, github, adoption>>

\* rearmLegacyAdoptionAudit and attachLegacyAdoptionAuditRun accept the run: either the
\* checkpoint has its nonce, or it names an earlier run that is proved to have failed.
CanAlign ==
  \/ checkpoint.nonce = comment.nonce /\ checkpoint.run \in {NoRun, current}
  \/ /\ checkpoint.nonce # comment.nonce /\ ~checkpoint.decided
     /\ checkpoint.run # NoRun /\ checkpoint.run \in ledger.failed \cup {ledger.replaced}

\* A run that ended, when it is neither retried nor replaced.
AuditEnded == Done /\ ((pc = "watch" /\ ~MayRetry) \/ (pc = "adopt" /\ Usable(Conclusion)))

BindRun ==
  /\ AuditEnded /\ bound = "no"
  /\ CanAlign
  /\ checkpoint' = [checkpoint EXCEPT !.nonce = comment.nonce, !.run = current]
  /\ bound' = "bound"
  /\ UNCHANGED <<vars, place, head, counted, ledger, result>>

\* recordLegacyAdoptionAuditResult
RecordResult ==
  /\ AuditEnded /\ bound = "bound" /\ Usable(Conclusion)
  /\ checkpoint' = [checkpoint EXCEPT !.decided = TRUE]
  /\ bound' = "recorded"
  /\ UNCHANGED <<vars, place, head, counted, ledger, result>>

\* Mutant: the verdict goes to the state comment before the checkpoint.
TakesUnrecorded == bound # "no"

\* The state comment takes the verdict after the checkpoint.
TakesResult == bound = "recorded"

TakeResult ==
  /\ Accept \/ AdoptResult
  /\ TakesResult
  /\ result' = current
  /\ bound' = "no"
  /\ UNCHANGED <<place, head, checkpoint, counted, ledger>>

\* recordControllerAuditWorkflowFailure
FailAudit ==
  /\ FailStage /\ bound = "bound"
  /\ ledger' = [ledger EXCEPT !.failed = @ \cup {current}]
  /\ bound' = "no"
  /\ UNCHANGED <<place, head, checkpoint, counted, result>>

\* auditWorkflowRecovery.previousAuditRunId
ReplaceAudit ==
  /\ RearmAudit
  /\ ledger' = [ledger EXCEPT !.replaced = current]
  /\ UNCHANGED <<place, head, checkpoint, counted, bound, result>>

EndSession(End) ==
  /\ place = "operating" /\ End
  /\ bound' = "no"
  /\ UNCHANGED <<place, head, checkpoint, counted, ledger, result>>

AuditSession ==
  /\ place = "operating"
  /\ \/ StartAudit \/ DispatchReserved
     \/ counted /\ Recover /\ UNCHANGED adoption
     \/ /\ \/ StoreNonce \/ PostDispatch \/ PostRearm \/ Observe \/ Retry \/ AdoptFailure
           \/ ReserveContinuation \/ PostContinuation \/ NoContinuation
        /\ UNCHANGED adoption
     \/ BindRun \/ RecordResult \/ TakeResult \/ FailAudit \/ ReplaceAudit
     \/ EndSession(Throw)

-----------------------------------------------------------------------------
Surroundings ==
  /\ \/ place = "operating" /\ (StartByPerson \/ StartScheduled \/ RunListed \/ RunEnds \/ Push)
     \/ place # "none" /\ ReleaseControlPlane
  /\ UNCHANGED adoption

AdoptionNext ==
  \/ place = "none" /\ Next /\ UNCHANGED adoption
  \/ BeginAdoption \/ Refreeze \/ ReserveAudit \/ StoreState \/ Abandon \/ MoveHead
  \/ AuditSession \/ EndSession(Kill) \/ Surroundings

AdoptionFairness ==
  /\ WF_allVars(place = "none" /\ SessionStep /\ UNCHANGED adoption)
  /\ WF_allVars(AuditSession)
  /\ WF_allVars(StartScheduled /\ UNCHANGED adoption)

AdoptionSpec == AdoptionInit /\ [][AdoptionNext]_allVars /\ AdoptionFairness

-----------------------------------------------------------------------------
(* Properties.                                                               *)

\* The two comments agree on the audit, wherever sessions end between their writes: a
\* verdict in the checkpoint is that of the last run, which ended with one under the nonce of
\* the checkpoint, and the state comment takes no verdict that the checkpoint does not have.
CheckpointAgrees ==
  /\ checkpoint.decided =>
       /\ checkpoint.run = Len(runs) /\ checkpoint.run # NoRun
       /\ runs[checkpoint.run].nonce = checkpoint.nonce
       /\ runs[checkpoint.run].phase = "done" /\ Usable(runs[checkpoint.run].conclusion)
  /\ result # NoRun => checkpoint.decided /\ checkpoint.run = result

\* docs/delivery-v2/MASTER_SPEC.md:946: the nonce, the run and the result of the audit of an
\* adoption "must be durable and re-entry-safe".  It does not hold: an audit that was retried,
\* or replaced before a session bound its run, can never be bound, and every session throws.
EveryAuditCanBeBound == place = "operating" /\ AuditEnded /\ bound = "no" => CanAlign

=============================================================================
