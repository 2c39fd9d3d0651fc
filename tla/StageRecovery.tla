----------------------------- MODULE StageRecovery -----------------------------
(***************************************************************************)
(* One stage of a delivery that has a pull request: a remediation worker,  *)
(* an independent audit or the technical hygiene worker, launched through  *)
(* runWorkflowStageWithInfrastructureRecovery and found again by the       *)
(* sessions that follow (scripts/resume-delivery-v2-controller.mjs),       *)
(* together with the automatic restart of a failed session                 *)
(* (scripts/continue-delivery-v2-after-interruption.mjs).                  *)
(*                                                                         *)
(* DeliveryController folds a stage into one launch with one outcome; here *)
(* the nonces, the runs that carry them, the infrastructure retry and its  *)
(* stored count are explicit.  A run is visible to the session only after  *)
(* GitHub lists it.  A session throws (Throw) or is killed (Kill) between  *)
(* any two external effects; only a throw reaches the continuation step.   *)
(***************************************************************************)
EXTENDS Naturals, Sequences, FiniteSets

CONSTANTS
  Stages,             \* the kinds of stage that are considered
  MaxRuns,            \* bound on the runs of the stage
  MaxStarts,          \* bound on the sessions that people start
  MaxControlPlane,    \* bound on the releases of the control plane
  MaxContinuations    \* automatic restarts of one phase at one head; 3 in the code

ASSUME StagesAssumption == Stages \subseteq {"remediation", "audit", "hygiene"}
ASSUME BoundsAssumption ==
  MaxRuns \in Nat /\ MaxStarts \in Nat /\ MaxControlPlane \in Nat /\ MaxContinuations \in Nat

VARIABLES
  stage,         \* which of the stages this is
  runs,          \* the dispatched runs of the stage, in the order of their dispatch
  comment,       \* what the state comment says of the stage
  pc,            \* where the session is, "none" when there is none
  current,       \* the run the session waits for, as a position in runs
  used,          \* retriesUsed of the stage loop
  way,           \* how the session came to the stage
  checkout,      \* the control plane the session has checked out
  plane,         \* the control plane at the dispatched ref
  headMoved,     \* the pull request has left the head the stage is for
  starts,        \* sessions started by people
  scheduled      \* a continuation has dispatched a session that has not started

vars == <<stage, runs, comment, pc, current, used, way, checkout,
          plane, headMoved, starts, scheduled>>
session == <<pc, current, used, way, checkout>>
github == <<plane, headMoved, starts, scheduled>>

MaxInfraStageRetries == 1
NoRun == 0
NoNonce == 0
NoPlane == MaxControlPlane + 1

-----------------------------------------------------------------------------
(* Conclusions, and the words of nextAction for a stage.                     *)

\* "rebuild" is the structured report of the context-rebuild circuit breaker without
\* a patch, in a run that concluded success or failure; "timed-out" stands also for
\* startup_failure; an audit may leave its verdict and then conclude otherwise.
WorkerConclusions == {"success", "rebuild-green", "rebuild-red", "timed-out", "failure"}
AuditConclusions ==
  {"success", "timed-out", "failure", "timed-out-verdict", "failure-verdict"}
Conclusions(s) == IF s = "audit" THEN AuditConclusions ELSE WorkerConclusions

TimedOut(c) == c \in {"timed-out", "timed-out-verdict"}
LeftVerdict(c) == c \in {"timed-out-verdict", "failure-verdict"}
Green(c) == c \in {"success", "rebuild-green"}

Status == [remediation |-> "implementing", audit |-> "audit-pending",
           hygiene |-> "technical-hygiene-pending"]
DispatchOf == [remediation |-> "dispatch-remediation", audit |-> "dispatch-audit",
               hygiene |-> "dispatch-technical-hygiene"]
ObserveOf == [remediation |-> "observe-remediation", audit |-> "observe-audit",
              hygiene |-> "observe-technical-hygiene"]
FailedOf == [remediation |-> "remediation-worker-failed", audit |-> "audit-workflow-failed",
             hygiene |-> "technical-hygiene-worker-failed"]
RearmOf == [DispatchOf EXCEPT !["remediation"] = "dispatch-remediation-recovery"]
RearmSeenOf == [ObserveOf EXCEPT !["remediation"] = "observe-remediation-recovery"]

\* The initial script has its own word for the dispatch of a remediation.
InitialDispatch == "dispatch-ci-remediation"

Actions ==
  {InitialDispatch} \cup UNION {{Status[s], DispatchOf[s], ObserveOf[s], FailedOf[s], RearmOf[s], RearmSeenOf[s]} :
           s \in {"remediation", "audit", "hygiene"}}

\* resumeEntryNextAction: what a new session writes before anything else.
KeptOnEntry(action) ==
  \E s \in {"remediation", "hygiene"} :
    action \in {DispatchOf[s], ObserveOf[s], FailedOf[s], RearmOf[s], RearmSeenOf[s]}
EntryAction(action) == IF KeptOnEntry(action) THEN action ELSE Status[stage]

\* isResumableControllerAction
Resumable(action) ==
  \/ action = InitialDispatch
  \/ \E s \in {"remediation", "audit", "hygiene"} :
    action \in {DispatchOf[s], ObserveOf[s], RearmOf[s], RearmSeenOf[s]}

-----------------------------------------------------------------------------
(* workflow-stage-recovery.mjs                                               *)

\* classifyWorkflowStageFailure: a retry of the same stage is allowed.  The head is
\* compared for the workers only: the audit stage is called without a target.
Retryable(c) ==
  \/ stage = "audit" /\ TimedOut(c)
  \/ stage # "audit" /\ ~headMoved /\ c \in {"timed-out", "rebuild-green", "rebuild-red"}

\* Mutant: the budget is compared with the wrong sign of the bound.
RetryLeftOffByOne == used <= MaxInfraStageRetries

\* decideWorkflowStageRetry
RetryLeft == used < MaxInfraStageRetries

-----------------------------------------------------------------------------
(* What the session sees.                                                    *)

Listed(nonce) == {i \in DOMAIN runs : runs[i].nonce = nonce /\ runs[i].phase # "posted"}
Done == current # NoRun /\ runs[current].phase = "done"
OtherPlane == runs[current].plane # checkout
Conclusion == runs[current].conclusion

-----------------------------------------------------------------------------
Comment ==
  [next : Actions, nonce : Nat, run : 0..MaxRuns, retries : 0..MaxInfraStageRetries,
   recovered : 0..NoPlane, count : 0..MaxContinuations, phase : Actions]

Run ==
  [nonce : Nat \ {0}, plane : 0..MaxControlPlane, phase : {"posted", "listed", "done"},
   conclusion : WorkerConclusions \cup AuditConclusions \cup {"none"}, pushed : BOOLEAN,
   why : {"first", "retry", "rearm"}, of : 0..MaxRuns]

PCs ==
  {"none", "reserve", "lookup", "adopt", "dispatch", "dispatched", "correlate",
   "watch", "rearmed", "rewatch", "threw", "scheduling", "over"}

Ways == {"initial", "fresh", "adopted"}

TypeOK ==
  /\ stage \in Stages
  /\ runs \in Seq(Run) /\ Len(runs) <= MaxRuns
  /\ comment \in Comment
  /\ pc \in PCs
  /\ current \in 0..Len(runs)
  /\ used \in 0..MaxInfraStageRetries
  /\ way \in Ways
  /\ checkout \in 0..MaxControlPlane
  /\ plane \in 0..MaxControlPlane
  /\ headMoved \in BOOLEAN
  /\ starts \in 0..MaxStarts
  /\ scheduled \in BOOLEAN

\* The state at the beginning of the stage, with a session at one of its places.
Begin(where) ==
  /\ stage \in Stages
  /\ runs = <<>>
  /\ comment = [next |-> Status[stage], nonce |-> NoNonce, run |-> NoRun, retries |-> 0,
                recovered |-> NoPlane, count |-> 0, phase |-> Status[stage]]
  /\ pc = where
  /\ current = NoRun
  /\ used = 0
  /\ way = "initial"
  /\ checkout = 0
  /\ plane = 0
  /\ headMoved = FALSE
  /\ starts = 0
  /\ scheduled = FALSE

\* The attempt of a remediation or an audit has just been charged by the initial
\* script; the hygiene worker is launched by the resumed script alone.
Init == Begin(IF stage = "hygiene" THEN "none" ELSE "dispatch")

\* What a session held in memory goes with it.
Leave(where) ==
  pc' = where /\ current' = NoRun /\ used' = 0 /\ way' = "fresh" /\ checkout' = 0

-----------------------------------------------------------------------------
(* The stage loop: a nonce is stored, the workflow is dispatched, the run    *)
(* that carries the nonce is found and stored, and its end is awaited.       *)

\* createDispatchNonce
NewNonce == comment.nonce + 1

\* A hygiene stage that starts with a stored nonce uses it for its first dispatch.
KeepsNonce == stage = "hygiene" /\ comment.run = NoRun /\ used = 0

\* onDispatch
StoreNonce ==
  /\ pc = "dispatch"
  /\ comment' = [comment EXCEPT
       !.next = IF way = "initial" /\ stage = "remediation" THEN InitialDispatch
                ELSE DispatchOf[stage],
       !.nonce = IF KeepsNonce THEN @ ELSE NewNonce,
       !.run = NoRun, !.retries = used]
  /\ pc' = "dispatched"
  /\ UNCHANGED <<stage, runs, current, used, way, checkout, github>>

Dispatch(why) ==
  /\ Len(runs) < MaxRuns
  /\ runs' = Append(runs, [nonce |-> comment.nonce, plane |-> plane, phase |-> "posted",
                           conclusion |-> "none", pushed |-> FALSE, why |-> why,
                           of |-> IF why = "first" THEN NoRun ELSE current])
  /\ pc' = "correlate"
  /\ UNCHANGED <<stage, comment, current, used, way, checkout, github>>

\* dispatchWorkflowAndResolveRun posts the dispatch ...
PostDispatch == pc = "dispatched" /\ Dispatch(IF used > 0 THEN "retry" ELSE "first")
PostRearm == pc = "rearmed" /\ Dispatch("rearm")

\* ... and returns the only listed run with the nonce, which onObserve stores.
Observe ==
  /\ pc = "correlate"
  /\ \E i \in DOMAIN runs :
       /\ Listed(comment.nonce) = {i}
       /\ current' = i
       /\ LET recovery == comment.next = RearmOf["remediation"]
          IN /\ comment' = [comment EXCEPT
                  !.next = IF recovery THEN RearmSeenOf[stage] ELSE ObserveOf[stage],
                  !.run = i]
             /\ pc' = IF recovery THEN "rewatch" ELSE "watch"
  /\ UNCHANGED <<stage, runs, used, way, checkout, github>>

\* The run ended in a way that allows a retry of the stage, and one is left.
MayRetry == pc = "watch" /\ Retryable(Conclusion) /\ RetryLeft

Retry ==
  /\ Done /\ MayRetry
  /\ used' = used + 1
  /\ pc' = "dispatch"
  /\ UNCHANGED <<stage, runs, comment, current, way, checkout, github>>

\* The evidence of a hygiene run is read for a head that must still be there; a
\* verdict left by a red audit is looked for by the resumed script alone.
Usable(c) ==
  CASE stage = "hygiene" -> c = "success" /\ ~headMoved
    [] stage = "audit" -> c = "success" \/ (LeftVerdict(c) /\ way # "initial")
    [] OTHER -> Green(c)

Accept ==
  /\ pc \in {"watch", "rewatch"} /\ Done /\ ~MayRetry
  /\ Usable(Conclusion)
  /\ Leave("over")
  /\ UNCHANGED <<stage, runs, comment, github>>

\* shouldRearmFailedRemediationWorker.  Both of the heads it compares were read when
\* the session started, so the comparison always holds.
CanRearmWorker ==
  stage = "remediation" /\ way = "adopted" /\ pc = "watch" /\ OtherPlane
    /\ comment.recovered # checkout

RearmWorker ==
  /\ Done /\ ~MayRetry /\ ~Green(Conclusion)
  /\ CanRearmWorker
  /\ comment' = [comment EXCEPT !.next = RearmOf[stage], !.nonce = NewNonce, !.run = NoRun,
                                !.recovered = checkout]
  /\ pc' = "rearmed"
  /\ UNCHANGED <<stage, runs, current, used, way, checkout, github>>

\* The failed stage is stored, with its run, and the session throws.
FailStage ==
  /\ pc \in {"watch", "rewatch"} /\ Done /\ ~MayRetry
  /\ ~Green(Conclusion) /\ ~Usable(Conclusion) /\ ~CanRearmWorker
  /\ comment' = [comment EXCEPT !.next = FailedOf[stage], !.run = current]
  /\ Leave("threw")
  /\ UNCHANGED <<stage, runs, github>>

-----------------------------------------------------------------------------
(* A later session finds the stage in the comment.                           *)

\* Mutant: the stage loop of a later session starts from zero.
ForgottenRetries == 0

\* The retries that the nonce in the comment stands for.
StoredRetries == IF comment.nonce = NoNonce THEN 0 ELSE comment.retries

\* At another head the stage is not looked at any more.
Enter ==
  /\ comment' = [comment EXCEPT !.next = EntryAction(@)]
  /\ IF headMoved THEN Leave("over")
     ELSE /\ current' = comment.run
          /\ used' = StoredRetries
          /\ way' = IF comment.nonce = NoNonce THEN "fresh" ELSE "adopted"
          /\ checkout' = plane
          /\ pc' = CASE comment.run # NoRun -> "adopt"
                     [] comment.run = NoRun /\ comment.nonce # NoNonce -> "lookup"
                     [] OTHER -> IF stage = "hygiene" THEN "reserve" ELSE "dispatch"
  /\ UNCHANGED <<stage, runs, plane, headMoved>>

StartByPerson ==
  /\ pc = "none" /\ starts < MaxStarts
  /\ starts' = starts + 1 /\ UNCHANGED scheduled
  /\ Enter

StartScheduled ==
  /\ pc = "none" /\ scheduled
  /\ scheduled' = FALSE /\ UNCHANGED starts
  /\ Enter

\* A hygiene stage without a nonce gets one before anything is looked up.
ReserveHygiene ==
  /\ pc = "reserve"
  /\ comment' = [comment EXCEPT !.next = DispatchOf[stage], !.nonce = NewNonce]
  /\ pc' = "lookup"
  /\ UNCHANGED <<stage, runs, current, used, way, checkout, github>>

Recover ==
  /\ pc = "lookup"
  /\ \E i \in DOMAIN runs :
       /\ Listed(comment.nonce) = {i}
       /\ current' = i
       /\ comment' = [comment EXCEPT !.next = ObserveOf[stage], !.run = i]
  /\ pc' = IF stage = "remediation" THEN "adopt" ELSE "watch"
  /\ UNCHANGED <<stage, runs, used, way, checkout, github>>

\* Mutant: every stage dispatches what it does not find.
DispatchesUnseen == TRUE

\* No run is listed.  The hygiene branch dispatches the stored nonce in a stage of its
\* own, whose retries are not the stored ones; the other two refuse, by a throw.
DispatchesAgain == stage = "hygiene" /\ comment.next = DispatchOf["hygiene"]

DispatchAgain ==
  /\ pc = "lookup" /\ Listed(comment.nonce) = {}
  /\ DispatchesAgain
  /\ used' = 0 /\ way' = "fresh"
  /\ pc' = "dispatch"
  /\ UNCHANGED <<stage, runs, comment, current, checkout, github>>

AdoptResult ==
  /\ pc = "adopt" /\ Done
  /\ Usable(Conclusion)
  /\ ~(stage = "hygiene" /\ OtherPlane)
  /\ Leave("over")
  /\ UNCHANGED <<stage, runs, comment, github>>

\* A failed worker or audit goes through the stage loop, with the stored retries.
AdoptFailure ==
  /\ pc = "adopt" /\ Done
  /\ stage # "hygiene" /\ ~Usable(Conclusion)
  /\ ~(stage = "audit" /\ OtherPlane)
  /\ pc' = "watch"
  /\ UNCHANGED <<stage, runs, comment, current, used, way, checkout, github>>

AdoptHygieneFailure ==
  /\ pc = "adopt" /\ Done
  /\ stage = "hygiene" /\ ~Green(Conclusion)
  /\ ~(OtherPlane /\ comment.next = FailedOf["hygiene"])
  /\ comment' = [comment EXCEPT !.next = FailedOf["hygiene"]]
  /\ Leave("threw")
  /\ UNCHANGED <<stage, runs, github>>

\* Mutant: a failed audit is replaced whatever control plane it ran under.
CanRearmSameAudit == ~Green(Conclusion) /\ ~LeftVerdict(Conclusion)

\* Mutant: the verdict of the failed run is not considered.
CanRearmRedAudit == ~Green(Conclusion) /\ OtherPlane

\* shouldRearmFailedAuditWorkflow
CanRearmAudit == ~Green(Conclusion) /\ ~LeftVerdict(Conclusion) /\ OtherPlane

RearmAudit ==
  /\ pc = "adopt" /\ Done /\ stage = "audit"
  /\ CanRearmAudit
  /\ comment' = [comment EXCEPT !.next = RearmOf[stage], !.nonce = NewNonce, !.run = NoRun]
  /\ pc' = "rearmed"
  /\ UNCHANGED <<stage, runs, current, used, way, checkout, github>>

\* shouldRearmFailedTechnicalHygiene, shouldRearmStaleUnconsumedTechnicalHygiene
RearmHygiene ==
  /\ pc = "adopt" /\ Done /\ stage = "hygiene"
  /\ OtherPlane
  /\ Green(Conclusion) \/ comment.next = FailedOf["hygiene"]
  /\ comment' = [comment EXCEPT !.next = DispatchOf[stage], !.nonce = NewNonce, !.run = NoRun]
  /\ pc' = "lookup"
  /\ UNCHANGED <<stage, runs, current, used, way, checkout, github>>

-----------------------------------------------------------------------------
(* The end of a session, and what may follow it.                             *)

\* Any call may throw, and every wait has a deadline.
Throw ==
  /\ pc \notin {"none", "over", "threw", "scheduling"}
  /\ Leave("threw")
  /\ UNCHANGED <<stage, runs, comment, github>>

Kill ==
  /\ pc \notin {"none", "over"}
  /\ Leave("none")
  /\ UNCHANGED <<stage, runs, comment, github>>

\* Mutant: the count starts again in every failed session.
CountForgotten(phase) == 0

\* decideControllerContinuation: the count is of one phase at one head.
CountOf(phase) == IF comment.phase = phase THEN comment.count ELSE 0

MayContinue == Resumable(comment.next) /\ CountOf(comment.next) < MaxContinuations

ReserveContinuation ==
  /\ pc = "threw" /\ MayContinue
  /\ comment' = [comment EXCEPT !.phase = comment.next, !.count = CountOf(comment.next) + 1]
  /\ pc' = "scheduling"
  /\ UNCHANGED <<stage, runs, current, used, way, checkout, github>>

PostContinuation ==
  /\ pc = "scheduling"
  /\ scheduled' = TRUE
  /\ Leave("none")
  /\ UNCHANGED <<stage, runs, comment, plane, headMoved, starts>>

NoContinuation ==
  /\ pc = "threw" /\ ~MayContinue
  /\ Leave("none")
  /\ UNCHANGED <<stage, runs, comment, github>>

-----------------------------------------------------------------------------
(* GitHub, the runs and the people.                                          *)

RunListed ==
  /\ \E i \in DOMAIN runs : runs[i].phase = "posted" /\ runs' = [runs EXCEPT ![i].phase = "listed"]
  /\ UNCHANGED <<stage, comment, session, github>>

RunEnds ==
  /\ \E i \in DOMAIN runs, c \in Conclusions(stage), pushed \in BOOLEAN :
       /\ runs[i].phase = "listed"
       /\ pushed => stage # "audit" /\ c \notin {"rebuild-green", "rebuild-red"}
       /\ runs' = [runs EXCEPT ![i].phase = "done", ![i].conclusion = c, ![i].pushed = pushed]
       /\ headMoved' = (headMoved \/ pushed)
  /\ UNCHANGED <<stage, comment, session, plane, starts, scheduled>>

Push ==
  /\ ~headMoved /\ headMoved' = TRUE
  /\ UNCHANGED <<stage, runs, comment, session, plane, starts, scheduled>>

ReleaseControlPlane ==
  /\ plane < MaxControlPlane /\ plane' = plane + 1
  /\ UNCHANGED <<stage, runs, comment, session, headMoved, starts, scheduled>>

SessionStep ==
  \/ StoreNonce \/ PostDispatch \/ PostRearm \/ Observe
  \/ Retry \/ Accept \/ RearmWorker \/ FailStage
  \/ ReserveHygiene \/ Recover \/ DispatchAgain
  \/ AdoptResult \/ AdoptFailure \/ AdoptHygieneFailure \/ RearmAudit \/ RearmHygiene
  \/ Throw \/ ReserveContinuation \/ PostContinuation \/ NoContinuation

Next ==
  \/ SessionStep \/ Kill \/ StartByPerson \/ StartScheduled
  \/ RunListed \/ RunEnds \/ Push \/ ReleaseControlPlane

Fairness ==
  /\ WF_vars(SessionStep)
  /\ WF_vars(StartScheduled)

Spec == Init /\ [][Next]_vars /\ Fairness

-----------------------------------------------------------------------------
(* Properties.                                                               *)

\* A remediation worker or an audit is never running twice: a session that finds a
\* nonce without a run refuses, and a retry or a rearm follows a run that has ended,
\* in whatever order sessions die, people start new ones and runs become visible.
OneLiveRun ==
  stage # "hygiene" =>
    \A i, j \in DOMAIN runs : runs[i].phase # "done" /\ runs[j].phase # "done" => i = j

Retries == {i \in DOMAIN runs : runs[i].why = "retry"}

\* docs/delivery-v2.md:56: a stage is retried once, over all of its sessions.  It holds
\* for the two stages whose later sessions start from the stored count.
RetriedOnce == stage # "hygiene" => Cardinality(Retries) <= MaxInfraStageRetries

\* The result of a remediation or an audit ends its stage: nothing is dispatched after a
\* success, nor after a verdict that was left by an audit which then failed.
ResultStands ==
  stage # "hygiene" =>
    \A i \in DOMAIN runs :
      runs[i].conclusion \in {"success", "failure-verdict"} => i = Len(runs)

Rearms == {i \in DOMAIN runs : runs[i].why = "rearm"}

\* How the last run stands.  A result is what Usable accepts whoever looks at it, and nothing
\* may follow it; a report of the circuit breaker is still retried.
LastOutcome ==
  IF Len(runs) = 0 THEN "none"
  ELSE IF runs[Len(runs)].phase # "done" THEN "running"
  ELSE IF runs[Len(runs)].conclusion \in {"success", "failure-verdict"} THEN "result"
  ELSE "failed"

Promise == INSTANCE StagePromise WITH
  last <- LastOutcome, retried <- Retries # {}, rearmed <- Cardinality(Rearms),
  released <- plane

\* A remediation or an audit implements StagePromise: over all sessions, a run follows a failed
\* one only as the single retry or on account of a control plane that no other run used up.
StagePromiseKept ==
  /\ stage # "hygiene" => Promise!Init
  /\ [][stage # "hygiene" => Promise!Next]_(Promise!vars)

\* docs/delivery-v2/MASTER_SPEC.md:387: "A failed downstream worker is never retried
\* automatically after it changed the material PR head."  It does not hold: the recovery
\* under a new control plane compares two heads that the session read when it started.
RearmedRunPushedNothing ==
  stage = "remediation" =>
    \A i \in DOMAIN runs : runs[i].why = "rearm" => ~runs[runs[i].of].pushed

\* Sessions restart each other only finitely often: however they fail, without people
\* the stage comes to rest.
AutomationEnds == <>[](pc = "over" \/ (pc = "none" /\ ~scheduled))

=============================================================================
