# Verification of Delivery V2

TLA+ models, TLC runs and TLAPS proofs for the delivery controller of this
repository - the deterministic program that takes one GitHub issue through a
bounded AI worker, required CI, bounded remediation, an independent audit and
technical hygiene to a release status on one exact commit, or to a human - and
for the programs beside it: the accounting of provider runs, and the release
runtime of the VPS with its branch sweep.

Paths below are relative to the repository (`src/v2`, `scripts`, `.github/scripts`, `docs`).

## 1. The system

### Parts, their state, and what makes them correct

| Part | Source | State it keeps | Correct when |
|---|---|---|---|
| Remediation state machine | `src/v2/remediation-state-machine.mjs` | none: pure transitions of a delivery (status, head, risk, three attempt counters, CI and audit evidence, hygiene) | budgets are never exceeded, evidence never moves to another head |
| Operational controller | `src/v2/operational-controller.mjs`, `audit-policy.mjs`, `execution-policy.mjs` | none: wraps the state machine with audit policy, hygiene readiness, risk promotion and the conversions to and from the stored form | readiness needs CI, hygiene and the obliged audit whatever the order of their results; risk only rises |
| Persistent state | `src/v2/persistent-state.mjs` | the `delivery-v2-state` comment on the pull request: `{persistent, controller}` | what is written can be read back; a stale head or base is noticed |
| Initial session | `scripts/run-delivery-v2-controller.mjs` | in memory: the delivery, plan, pull request, expected base; in the comment: run ids and nonces | see the properties of section 3 |
| Resumed session | `scripts/resume-delivery-v2-controller.mjs` | the same, rebuilt from the comment; rearms of failed runs under a new control plane | nothing is launched twice, no evidence is revived |
| Stage dispatch | `src/v2/workflow-stage-recovery.mjs`, `dispatchWorkflowAndResolveRun` in both scripts | nonce, run id and retry count in the comment | one worker at a time, one infrastructure retry for each stage over all sessions |
| Continuation | `src/v2/controller-continuity.mjs`, `scripts/continue-delivery-v2-after-interruption.mjs` | a phase and a count in the comment | bounded, and only from resumable points |
| Worker, its outcome and its authorization | `src/v2/worker-material-outcome.mjs`, `.github/scripts/validate-delivery-v2-worker-authorization.mjs` | a GitHub workflow run | only the stored risk is served; a claim is not material |
| Audit run and verdict | `src/v2/controller-runtime.mjs`, `github-native-audit-runtime.mjs`, `audit-contract.mjs` | a run and its artifact | the verdict is about the head it audited |
| Technical hygiene | `src/v2/technical-hygiene.mjs`, `gh-aw-hygiene-artifact.mjs` | a run and its artifact | the result is about the head it examined |
| Release gate and status | `src/v2/release-gate.mjs`, `publishReleaseStatus` | the commit status of every head | a success stands only on complete evidence for that head |
| Bootstrap lease and re-entry guard | `scripts/guard-delivery-v2-reentry.mjs`, `scripts/reserve-delivery-v2-initial-attempt.mjs`, `src/v2/pre-material-recovery.mjs`, the first part of the initial session | a lease comment on the issue: status, attempts, nonce, worker, controller run and commit, last failure | one initial worker runs at a time; every run is charged or granted; the attempts are bounded and never fall |
| Provider accounting | `src/v2/controller-observability.mjs`, `metrics.mjs`, `metrics-store.mjs`, the publication step of `.github/workflows/delivery-v2-dispatch.yml` | an accumulator in the comment; a JSON store on the default branch, shared by all deliveries | a run is counted once, never lost behind an advance of the state; the store keeps what others wrote |
| Usage report | `src/v2/ai-usage-ledger.mjs` | none: rows made from the store | the groups of a report add up |
| VPS release runtime | `src/v2/vps-release-runtime.mjs`, `scripts/vps-release-hygiene.mjs`, `scripts/install-vps-release-layout.sh` | release directories with markers, the active link, a lock file | the active release is validated and moves forward; a rollback target is kept |
| Branch hygiene | `src/v2/branch-hygiene.mjs` | a lock file, and the branches of a repository | nothing is deleted that was not read again |
| Legacy adoption | `src/v2/legacy-adoption.mjs` and its callers in the guard and the resumed session | a checkpoint comment on a pull request that the controller did not make: head, audit budget, nonce, run, verdict | the checkpoint and the state comment agree; one audit for one head |
| Provider policy, telemetry and pricing, role worker, audit diffs | see `PROJECT.json` | records beside the protocol | not modelled, with the reason in section 6 |

### How they interact

`delivery-v2-dispatch.yml` runs guard, reservation, then one controller session,
in a concurrency group for each issue that does not cancel: **sessions of one
delivery never overlap**, but a session can die between any two steps (job
timeout, runner loss, an API call that throws), and the only thing it leaves is
the comment and the runs it dispatched. A worker goes on when nobody waits for
it. A session that throws, and is not killed, may schedule the next one. People
push, the base advances, and a new version of the control plane is released
whenever they like.

Every AI run is launched in three steps: a nonce and the charged attempt are
written to the comment, the workflow is dispatched with the nonce, and the id
of the run that carries it is written to the comment. When the run ends, it is
folded into the accumulator, which is written with the state that builds on it.
A delivery that ends publishes its record by a commit to the default branch, in
competition with other deliveries.

On the VPS a timer and people start release cycles: fetch `main`, validate the
commit in a worktree, switch the active link, run the branch sweep from the
active release, prune. The sweep can also be started by hand, beside a cycle.

### What is hard

Crashes between those steps; a head or base that moves while evidence is being
collected or is stored; runs adopted by a session that did not dispatch them;
runs that GitHub does not list yet; results that arrive in different orders in
the two scripts; rearms that reuse an attempt; counters kept while ceilings
change with the risk; accumulators and stores that several sessions and
deliveries write; cycles killed between two effects on the disk; branches that
change between two requests. `PROJECT.json` ("hazards") lists each of these
with the line where it bites.

## 2. The modules

| Module | What it is |
|---|---|
| `DeliveryState` | the delivery as a record, and every transition of the state machine, the operational controller and the persistent state as an operator on it. A guard `CanX` beside a transition `X` is where the code throws. |
| `DeliveryController` | EXTENDS `DeliveryState`. One pull request, its environment, the runs, the comment, and the session that is alive. One action for each step between two external effects. |
| `ReleasePromise` | the abstract specification: heads, the ones that owe an audit, CI and approvals seen, the head that was last looked at for a publication, the release status, worker runs granted and launched. |
| `BootstrapLease` | before there is a pull request: the lease, the guard, the reservation, the session up to the pull request, the finalizer, the initial workers with their authorization, and the runs that wait in the concurrency group. |
| `StageRecovery` | inside one stage of `DeliveryController`: nonces, dispatches, runs that are not listed yet, the infrastructure retry, adoption and rearm by later sessions, and the automatic restart of a failed session. |
| `StagePromise` | the abstract specification of a remediation or an audit: how its last run stands, its retry, the runs that replaced a failed one, the control planes released. |
| `LegacyAdoption` | EXTENDS `StageRecovery`. A pull request that the controller did not make: the checkpoint, and the audit stage beside it. |
| `UsageReport` | the rows of a metrics record, and what a report says of a group of rows. |
| `UsageAccounting` | EXTENDS `UsageReport`. The accumulator in memory and in the comment over the sessions of a delivery, the record, and the shared store. |
| `BranchHygiene` | the sweep that deletes incorporated branches, one request at a time, for several processes. |
| `VpsRuntime` | EXTENDS `BranchHygiene`. The release cycle that runs the sweep: worktrees, markers, the link, pruning, the process lock. |
| `MCDeliveryController`, `MCBootstrapLease`, `MCStageRecovery`, `MCLegacyAdoption`, `MCUsageAccounting`, `MCVpsRuntime` | constants for TLC. |
| `DeliveryState_proofs` | types and frame lemmas of every transition. |
| `DeliveryController_types`, `DeliveryController_safety` | type correctness; the inductive invariants, the safety theorems and the refinement of `ReleasePromise`. |
| `BootstrapLease_proofs` | type correctness of the bootstrap, the invariants of the session that holds the lease and of the workers, and their theorems. |
| `UsageAccounting_proofs` | the comment and the memory of the accounting, and the store. |
| `StageRecovery_proofs` | the order of the runs of a stage, its retry, and the refinement of `StagePromise`. |
| `LegacyAdoption_proofs` | the agreement of the two comments of an adoption; its audit refines `StagePromise` too; extends the one before. |
| `VpsRuntime_proofs` | types, the sweep, and the invariant of the release runtime. |

### DeliveryController

* `delivery` is `state` of a session; `planRisk`, `expectedBase`, `prBase`,
  `checkout` are `plan.risk.profile`, `expectedBaseSha`, `pullRequest.base.sha`
  as last fetched, and `resolveCheckedOutControlPlaneHeadSha()`. All are lost in
  a crash.
* `persistent`, `persistentBase`, `controller` are the comment. `Persist` is
  `persist(...)`: it converts the delivery (`Persisted` drops the hygiene result
  and the in-flight mark, which the code does not store in the persistent part)
  and every action that writes first checks `WithinCeilings`, or is shown by
  proof to be within them.
* `controller.workerRun`, `auditRun`, `hygieneRun` say whether the comment has a
  nonce without an id ("reserved"), an id ("observed"), or neither.
* `worker`, `audit`, `hygiene` are the run of the last nonce. The outcome of an
  audit or hygiene run is drawn at its dispatch; no action reads it before the
  run is correlated. A worker runs on its own and pushes when it likes.
* `remoteHead`, `base`, `headRisk`, `controlPlane`: GitHub. Heads are numbered
  in the order of the pushes. `headRisk` is the risk the changed paths of a head
  resolve to; requested risk is the automatic one.
* `pc` says where in the loop a session is: `loop` is the top of the loop,
  `worker`, `audit`, `hygiene`, `promoting` are inside of a stage, `recover` is
  the branch for a stored `implementing`, and `gate`, `ready`, `confirm`, `publish`
  and `released` are the places between the requests of the release.
* The release is one action for each request that can change or notice something.
  `RereadEvidence` is the read of the pull request, of CI and of the audit that only a
  resumed session makes; `EvaluateRelease` is the read before the merge preview and the
  gate; `MarkReadyForReview` the one before the mutation, and `ConfirmReadyForReview` the
  one after it, which is made only when the mutation was: the model leaves open whether the
  pull request was a draft. `Release` posts the status, `RecordRelease` writes the comment.
  `confirmed` is the head and base that the last of these reads showed; each of them ends
  the session when the identity has drifted (`ReleaseIdentityDrifts`). **Between the last
  read and the post the code does not look again**, so a push or an advance of the base
  there is followed by a success for the head and base that were current before it. What is
  promised is therefore what the last look showed (`PromiseKept`,
  `SuccessIsForConfirmedBase`), and nothing about the moment of the post; the status
  belongs to the commit, so a head that is pushed there has no success from it.

`Init` is the moment the initial session has seen its bootstrap worker succeed,
with any number of attempts that the risk taken from the issue allows. `Resume`
and `ResumeRearmingHygiene` are every later session, whoever starts it.

`greenOn`, `approvedOn`, `workerLaunches`, `auditLaunches` are history: no guard
that models code depends on the last two, and `EvidenceReread` uses the first to
say that GitHub still reports the check.

### BootstrapLease

* `lease` is the bootstrap comment. `attempts` is `implementationAttempts`, `run`
  and `head` are `controllerRunId` and `controllerHeadSha`, `worker` is
  `workerRunId`, `nonce` is `dispatchNonce`, `contract` is the fingerprint of the
  issue in `scopeBinding`, `recovery` is `recovery.currentControllerHeadSha`,
  `failure` is `lastFailure`, and `resumable` says whether the failure class, stage
  and conclusion of an exhausted lease are ones that a recovery accepts.
* `session.sha` is `GITHUB_SHA`, the commit the run was triggered for;
  `session.head` is the checked-out `HEAD`; the two differ for a run that waited
  (`queued`) while `head` advanced. `session.prior`, `attempt`, `nonce` and `worker`
  are the outputs of the guard and the reservation that the next step reads.
* `workers` are the dispatched runs in the order of their dispatch: "posted" is not
  listed yet, "queued" is listed, "checked" has seen a live controller, "running" has
  seen the lease, "done" has an outcome. The two reads of the authorization are two
  steps, because a session may end between them.
* `pr` is "open" without a state comment and "handed" with one; `prOf` is the worker
  that opened it. `Publish` opens it while the worker is still running, and `Finish` ends the
  run later, so that a session can adopt the pull request of a worker that has not completed.
  `MaterialEndsBootstrap` therefore says that no worker runs beside an open pull request but
  the one that opened it.
* `Decision` is `evaluateReentry` and `PersistMutation` its write. `Reserve` derives
  the recovery again (`RecoveryGranted`), as the script does. `Finalize` is the step
  "Persist exhausted initial attempt": the same guard after a failed step.
* `Init` has two leases of an earlier control plane, in which the worker was refused
  because the lease named another run: the recovery of such leases is in the code,
  and the present controller cannot produce them (`AuthorityIsCurrent`).
* The provider, the model, the target and the fingerprints that a lease is compared
  with are those of one issue, and equal. `grants` is history.

### StageRecovery

* `stage` is fixed in `Init`: the remediation and the audit start where the initial
  script has just charged an attempt; the hygiene worker is launched by the resumed
  script alone.
* `comment.next` is `controller.nextAction`, `nonce` and `run` are the nonce and run
  id of the stage, `retries` its stored retry count, `recovered` the control plane of
  the last recovery of a worker, `phase` and `count` the continuation.
* `runs` are the runs in the order of their dispatch. "posted" is a dispatch that
  GitHub accepted and does not list, "listed" is one that a session can correlate.
  `plane` is the control plane it ran, `why` and `of` are history.
* `used` is `retriesUsed` of `runWorkflowStageWithInfrastructureRecovery`; `way` says
  whether the session came to the stage as the initial script, afresh, or adopting
  what it found, because the three differ in what they accept and rearm.
* `Throw` and `Kill` are separate: only a session that throws reaches the
  continuation step. `starts` bounds the sessions that people start; scheduled ones
  are bounded by the code.
* A worker that goes on after a rebuild report without a patch is a success or a
  failure by its colour, as in the code. "timed-out" stands also for startup failures.

`DeliveryController` uses a stage as one launch with one outcome; the two share the
words of `nextAction`, and nothing else is composed.

### LegacyAdoption

* `checkpoint` is the adoption comment: `head` is `materialHeadSha`, `nonce`, `run` and
  `decided` are `legacyAudit`, `attempts` is `legacyAdoptionAuditAttempts`. `place` is "none"
  for a delivery that is not adopted; such a delivery is a stage of `StageRecovery`. Otherwise
  it says which session works before there is a state comment ("idle" is none), and
  "operating" is everything after that comment.
* `BeginAdoption` is the guard, `Refreeze` the evidence and the write after the second look at
  the pull request, `ReserveAudit` and `StoreState` the two writes that follow. `StartAudit`
  charges the audit in the state comment (`counted`). From there on the steps are those
  of `StageRecovery`, with the checkpoint written when a run has ended (`BindRun`) and when its
  verdict was read (`RecordResult`); `bound` is how far the session is with these two.
* `ledger` is what the state comment says of failed runs, on which `rearmLegacyAdoptionAudit`
  relies: those counted as failed, and the one a rearm replaced.
* A move of the base and a move of the head are one thing here. After the state comment a
  move ends the stage, as in `StageRecovery`. Left out are adoptions whose CI is red, which
  go to remediation, adoptions whose plan owes no audit, and the provenance checks, which
  only throw.

### UsageAccounting and UsageReport

* `comment.account` and `mem.account` are the accumulator: `ids` and `observed` are
  `providerRunIds` and `observedRunIds`, `ledger` the ledger entries, `failed` the
  failed audit runs, `whole` is `providerAccountingComplete`, `ledgerWhole` and
  `ciWhole` the two other completeness flags. `comment.done` is history: the runs
  whose results the stored state builds on.
* `open` is the stage the session waits for, with the ids of its run and of a retry; `way`
  says whether the session dispatched the run, adopted it, or replaced an adopted one. `Rearm`
  is the replacement under a new control plane, whichever run and conclusion made the code
  choose it; what it has counted of the replaced runs differs by stage, as in the code. A
  hygiene stage is then begun anew, with a retry of its own; a remediation is not retried any more.
* `origin` and `checkout` are the store on the default branch and in the working
  copy of the session. `Publish` is one attempt of the loop of the publication step.
* `Init` also has the comments that older controllers left: without a ledger, and
  without provider accounting or CI timing.
* Tokens, costs, durations, periods, and the implementation and remediation counters
  are left out: they ride on the same observation of a run. A dispatch and the
  comment that names the run are one step here; what lies between them is the subject
  of `StageRecovery`, and so is how often a control plane may replace a run: here it may
  do so until the runs are used up.

### VpsRuntime and BranchHygiene

* `active` is the target of the link, `releases` the directories, `marked` the ones
  with a validation marker, `newer` the order of their times, `dirty` the
  worktrees with local changes. `cycle[p]` is a run of `runReleaseCycle`: its step,
  the candidate, whether it only updates (`--update-only`) or sets the host up
  (`--bootstrap`), and the releases it is about to remove.
* `Decision` is `decideUpdate`, `Prepare`, `Move` and `Mark` are the parts of
  `prepareCandidate` with an effect of their own, `Promote` is `atomicSymlink`,
  `Prune` reads the directory and `Remove` takes one release.
* `processLock` and `runLock[f]` are lock files: free, held by a process, or left by one
  that is gone. The `flock` of the systemd service is subsumed by the process lock.
* `branches[b]` has the commit, whether the branch is there, and the reasons to keep
  it. `Gates` is the order of the requests of `evaluateBranch`; only the first answer
  carries the protection and the age of the listed commit. `since` and `repointed`
  are history.
* Around them: pushes, merges, rules, pull requests and runs that come and go, forced
  pushes of `main`, local changes, kills, lost requests and answers, removed locks,
  and a person who repoints the link. `MaxEvents` bounds all of these together.
* `RELEASE_GATES_VERSION`, leftovers of the staging directory, the dry run and the
  choice of the base branch in the last gate are left out. A cycle that people start
  only updates.

### Other abstractions

* The merge preview, fingerprints of the classifier, the artifact checks and
  every API call can only make a session throw: that is `Crash` in
  `DeliveryController`, possible at any step.
* A verdict for a candidate that is not the head of the delivery makes the code
  throw; that is again a `Crash` and `CanRecordAudit` is a guard.
* An audit of a head that is no longer the remote head ends red without a
  verdict: `assertTrustedAuditSource` refuses the CI run of another head.
* Re-arming a failed remediation because the title of the pull request was
  corrected is left out.
* The initial session keeps the ids of finished worker runs in the comment
  where the resumed one clears them; they are overwritten before they are read,
  so `DeliveryController` clears them in both.

## 3. What is checked

Deadlock is not checked in any run: each of these systems stops when nobody pushes,
nobody starts another session and no timer runs, or when a lock file that a killed
process left keeps everybody out.

| Run | Bounds | Shows |
|---|---|---|
| `delivery` | 2 heads, three risks, audits of standard changes required | `TypeOK`, `EvidenceBound`, `ReadyIsJustified`, `RiskCoversHead`, `SuccessStatusSound`, `NoStaleSuccess`, `CommentLoads`, and that the protocol refines `ReleasePromise` (`PromiseKept`) |
| `recovery` | 2 heads, one release of the control plane | `LaunchesAreCharged`, `AttemptsNeverDecrease`, `EscalationIsKept`, `SessionEnds` |
| `base` | 2 heads, one advance of the base | `SuccessIsForConfirmedBase` |
| `bootstrap` | 2 attempts, 2 control planes, 2 versions of the issue, 2 sessions after an earlier one | `TypeOK`, `SessionHoldsLease`, `OneWorkerRuns`, `AuthorityIsCurrent`, `RunsAreCharged`, `MaterialEndsBootstrap`, `AttemptsNeverFall`, `SessionEnds` |
| `bootstrap_grants` | 3 sessions after an earlier one, 1 version of the issue | `OneGrantPerCause` |
| `stages` | each of the three stages, and the audit of an adopted pull request; 3 runs, 1 session started by a person, 1 release of the control plane, 2 continuations of a phase, 1 move of the head before the state comment | `AdoptionTypeOK`, `OneLiveRun`, `ResultStands`, `CheckpointAgrees`, `AutomationEnds`, and that a remediation and an audit refine `StagePromise` (`StagePromiseKept`) |
| `accounting` | 3 provider runs, 2 heads, 1 record of another delivery | `TypeOK`, `StoredReadable`, `CountedOnce`, `AdvanceIsAccounted`, `GroupsAddUp`, `CountersNeverRestart`, `OthersKept` |
| `vps` | 1 branch with 2 commits; a timer and a person who start cycles, a person who sweeps, 2 lock files; 4 commits of main, one of them broken and one off its line; 2 releases kept; 3 events | `ActiveIsSound`, `DeletesWhatItReread`, `AdvancesAlongMain`, `RollbackKept`, `CatchesUp` |
| `red_verdict`, `rearm_moved`, `metrics_failure`, `adoption_stuck` | small | one statement of the documents or comments each, that the code does not keep (section 5) |

**Why the bounds are enough for what they show.** Two heads give every drift: one
head of which evidence exists and one for which it does not, with equal, higher
and lower risk. The attempts are bounded by the real ceilings of the program
(2, 2 and 3), which every run can exhaust. One release of the control plane and
one advance of the base separate "before" from "after"; a second one repeats
the first. The number of sessions and of crashes is not bounded in
`DeliveryController` and `UsageAccounting`. The other policy, under which a standard
change needs no audit, is covered by the theorems of section 4, which hold for both.

In the bootstrap, run 1 is the one before the model starts, so that a bound of three gives
two sessions: one that meets, or makes, something to recover, and one that meets what the
first left. `OneGrantPerCause` needs a third,
because a grant is spent by the session it was made for; it has a single version of the issue,
so that the grants for an edit of the issue are compared by the theorem `GrantsAreSingle` alone. Two attempts are the ceiling of
two of the three profiles, and give a last attempt and one before it. Two control planes
and two versions of the issue make every recovery possible. The bound on sessions also
bounds the workers; `TypeOK`, `SessionHoldsLease` and `AttemptsNeverFall` are proved for
every bound.

In `stages`, three runs are a first one, its retry, and a rearm or an illegal second
retry; the program allows three continuations of a phase, and two are one that is spent and
the last one. Continuations start sessions besides the one that a person starts, so that
several sessions follow each other. A run that is never listed, listed late, or listed
and never ended is any prefix of a behaviour. An adoption has one audit, and is begun by the
first session and once more by the one that a person starts, so that a checkpoint is left and
found in each of its places, with the head moved and not.

In `accounting`, three runs give a stage with a retry, or with a run that replaced an
adopted one, beside another stage; a stage with both, after a bootstrap worker, takes four
and is covered by the theorems alone. Two heads give a record and the one that follows it
for the same delivery; one foreign record is enough to be lost. In `vps`, main moves among
commits that descend from the active one, precede it, or do neither; three events are, for
example, a kill, the removal of the file it left, and a rollback.

**Fairness.** In `DeliveryController`, `WF(SessionStep)`: a living session takes its next
step, because every wait of the scripts has a deadline (`waitRequiredCheck`,
`waitWorkflowRun`, `waitHeadChange`) and the job is killed after 240 minutes, which is
`Crash`. `WF(WorkerRuns)`: workers are jobs with a timeout. Nothing is assumed of pushes,
crashes or new sessions, so `SessionEnds` is about one session and nothing says
that a delivery finishes. In the bootstrap the wait for the nonce and the one for the
pull request have deadlines of two and twelve minutes (`TimeOut`), and the wait for the
worker ends when the worker does: `WF` of the step of any worker.

In `StageRecovery`, `WF(SessionStep)`, of which `Throw` - a deadline - is always one
alternative, and `WF(StartScheduled)`: GitHub starts a workflow that was dispatched. In
`LegacyAdoption` the same, with `AuditSession` for the session of an adopted pull request; a
session may be killed at any point, and nothing is assumed of one before the state comment. In
`VpsRuntime`, `WF` of the step of each running cycle and sweep, whose commands have time
limits, and `WF(Start(Timer))`: the timer of the service is persistent. `AutomationEnds` and
`CatchesUp` therefore hold however the rest behaves. `UsageAccounting` states safety only.

## 4. What is proved

**The delivery.** For every `MaxHead`, `MaxBase`, `MaxControlPlane`, every set of plan
risks, either audit policy and any positive ceilings. The assumptions are the five named ones
in `DeliveryState` and `DeliveryController`; each says no more than the domain of
a constant.

* `TypeCorrect`: `Spec => []TypeOK`, from one lemma for each transition of
  `DeliveryState` and one for each action.
* `Safe`: `Spec => []SafetyInv`, from which follow `CommentAlwaysLoads`,
  `EvidenceIsBound`, `ReadinessIsJustified`, `RiskAlwaysCovers`,
  `SuccessIsSound`, and the action property `AttemptsAreKept`.

`SafetyInv` has four parts, because none of these is inductive alone:

* `EnvironmentInv`: the remote head is a pushed head, and an approval that a run
  holds is in the history, so that adopting it is sound;
* `CommentInv`: what is stored is sound for its own head and within the ceilings,
  so that what a resumed session loads is;
* `MemoryInv`: the same of the session, that its state is within the ceilings at
  every place from which it writes, and that its counters are at least the stored
  ones. The last is what makes `AttemptsNeverDecrease` hold on a write;
* `StatusInv`: `SuccessStatusSound`, and that heads not yet pushed have no status,
  so that choosing the risk of a new head breaks no older success.

A delivery whose CI is recorded or past must carry CI evidence (`CiJustified`):
`ReadyIsJustified` and the release need it across a reload, which drops the
hygiene result. The proof of a step has one lemma for each action (`...Safe`),
and `NextSafe` collects them.

Five further theorems rest on `SafetyInv`, each on an invariant of its own:

* `NoSuccessWhileEvaluating` (`NoStaleSuccess`) on `ProgressInv`, which says it of the later
  heads too: a session that starts marks the remote head pending, and nobody publishes a
  success for a head that is not the last one.
* `RunsArePaidFor` (`LaunchesAreCharged`) on `ChargedInv`. A run whose nonce is stored and
  which nobody has launched yet is `Owed`, and counts as launched; a worker that is launched
  again on its attempt is covered by `recoveredAt`, an audit by the control plane of the one
  before. `CheckoutInv` orders these under `controlPlane`. The initial session is the hard
  case, because it starts an audit without a look at the ceiling: `InitialInv` says that in
  it audits and remediations of their findings alternate (`AuditsAlternate`), so that the
  attempt it counts is there. `BootstrapInv` says what holds before the first comment.
* `EscalationsAreKept` (`EscalationIsKept`) on `StoredInv`: from its first write on, a session
  holds what the comment stores, so that what it writes over an escalation is that escalation
  or a rearm that the property allows.
* `PromiseIsKept` (`PromiseKept`), the refinement of `ReleasePromise`. `Owing`, `Granted` and
  `Launched` are the mapping. A push maps to `Push`, the reading of CI to `SeeGreen`, the
  launch of an audit that approves to `Approve`, every other write of a status to `Withdraw`, the
  last read of the release to `Confirm`, its post to `Publish`, the loss of the session in
  between to `Abandon`, a reservation or a new control plane to `Grant`, the launch of a worker to
  `Launch`, all else to a stutter. That the launch was granted is `ChargedInv`, that the last
  look was at the remote head, with sound evidence for it, is `SafetyInv`; that the status is
  posted for the head of that look, wherever the remote one has gone, is `ConfirmedHead`.
* `SuccessesAreCurrent` (`SuccessIsForConfirmedBase`) on `BaseInv`. The evidence a session holds
  was seen since the base of the pull request it fetched last (`Since`), and so was what the
  comment stores for the remote head since the base stored with it; the approval that a known
  audit still holds counts too (`AuditSince`). A session that resumes keeps the evidence only if
  the stored base is the current one, and every read of a release compares it again. `BaseKept`
  lists what a step may store and what it may do to the session; the invariant is proved from
  this list, with `StoredInv` and `BootstrapInv` beside it.

**The bootstrap.** For every number of attempts, sessions, control planes and versions of
the issue, from the two named assumptions of `BootstrapLease`: `BootstrapTypes`
(`TypeOK`, with the ceiling in it), `LeaseIsHeld` (`SessionHoldsLease`) and
`ChargesAreKept` (`AttemptsNeverFall`). All follow from `SessionInv`. `SessionHoldsLease`
is not inductive alone: that the lease a session works with is reserved comes from the
guard, which reads a lease that exists and has charged an attempt (`LeaseIsCharged`); the
attempts stay in range because the reservation starts from the attempts of the lease or
from one less (`PriorIsOfLease`); and a classification names a worker that was dispatched
(`WorkerIsKnown`). `DecisionCases` and `ReservedCases` say of every decision of the guard
which lease it was made on.

From `WorkersInv`, which needs `SessionInv` beside it, follow `WorkersRunAlone`
(`OneWorkerRuns`), `MaterialStands` (`MaterialEndsBootstrap`) and `AuthorityHolds`
(`AuthorityIsCurrent`). Two workers can not be compared step by step, because each checks the
lease by itself and long after its session may have died. The invariant therefore says that a
nonce authorizes one worker, which from then on is the only one that the lease and the session
may name (`OneRunPerNonce`); that a running worker carries the nonce of the lease, and that
neither it nor one about to run exists while a session reserves a new nonce (`RunningHolds`);
that a session dispatches only when no earlier worker with its nonce can run any more
(`EarlierAreDormant`), because the controller of those is gone (`OwnWorkers`); that whoever has
passed the check of its controller was dispatched by the run that the lease names
(`RunIsOfLease`); and that the pull request was opened by the worker that the lease authorized
last (`MaterialIsOfLease`), which is why a report of that worker is never retried. `SessionEffect`
lists what a step of a session may do to all of this, and `WorkerEffect` what a worker may;
`DecisionAwaits` says that the guard replaces no run that has not ended, and
`AuthorizedIsRecovered` that the run it recovers is the authorized one.

`GrantsAreSingle` (`OneGrantPerCause`) follows from `GrantsInv`: the lease remembers the last
control plane that granted a recovery and the last version of the issue that granted a
dispatch, and a rejected worker has lost its lease for good. The first is the delicate one,
because a session takes the lease over with the commit it was triggered for, which may be older
than the control plane that has just granted: every later session was triggered after that, so
its commit is at least as new (`RecoveriesInOrder`). `RunsArePaid` (`RunsAreCharged`) follows
from `ChargedInv`: of the runs of an attempt whose nonce no grant created there is at most one
(`OneUngrantedRun`), and the others map into the grants one to one. The retry of a refused
dispatch is the exception to be excluded: it creates a nonce for the same attempt without a
grant, and `MismatchRanNobody` shows from `AuthorityIsCurrent` that nobody has run then.

**The accounting.** For every number of runs, heads and other deliveries:
`NextSessionReads` (`StoredReadable`), `NoUnaccountedAdvance` (`AdvanceIsAccounted`),
`CountersContinue` (`CountersNeverRestart`) and `OtherRecordsStay` (`OthersKept`). The
inductive invariant `AInv` says of the comment and of the memory of the session that the
account can be read and covers what the state builds on, and that the memory continues the
comment: its account contains the stored one, which is what makes a write harmless. The
cardinalities in `Readable` follow from lemmas about one more observation (`Observed`) and
one more failed audit (`AuditFailed`). `OthersKept` rests on `StoreInv`, which says
which records other deliveries have put in the store.

`UsageTypes` (`TypeOK`), `RunsCountedOnce` (`CountedOnce`) and `ReportAddsUp` (`GroupsAddUp`)
follow from `TInv` beside `AInv`. `TInv` types the session at each place it can be in
(`MemTyped`, `StageTyped`) and says of every accumulator, held or stored, what its counters
count (`Counted`): the zero-usage runs are the observed ones without an entry, and in a complete
account the audit attempts are the observed audits. `CountedOnce` is not inductive without the
second, and the second not without the type of the stage, which says that the two runs of a
retried stage are audits or neither is one. All of this speaks of runs and heads as they were when it
was written; `Grows` says that runs are only added and heads only advance, so that it stays true.
`GroupsAddUp` sums over a ledger with folds. A sum over a set of unknown size is out of the
prover's reach, but those in this property have the three phases as their domain: the function
that a fold chooses is exhibited for no element and for one (`SumOfNone`, `SumOfOne`), and `SumOverPhases`
goes through the cardinalities from there. `StoresTyped` says that the stores, fetched and
published, have a single record of each delivery, with a finite ledger.

**The VPS.** For every set of commits, line of main, retention of at least two, set of
branches and of processes: `TypeCorrect`, `ActiveRelease` (`ActiveIsSound`),
`ForwardOnly` (`AdvancesAlongMain`), `DeletionsReread` (`DeletesWhatItReread`) and
`RollbackStays` (`RollbackKept`). `IInv` is
`TypeOK`, `Reread` and `RuntimeInv`. `Reread` says of a sweep between its second listing and
the deletion which gates the branch has passed since, unless it changed; `RuntimeInv` says
that at most one cycle holds the lock (`Locked`), that what has a directory and a marker
passed its gates (`MarkedPassed`), and at each step of a cycle what it may rely on of its
first reading (`CyclesHold`): that nobody else can have switched the link is what makes the
comparison at the start of a cycle still true at the switch. `RollbackStays` rests on `PruneInv`:
some directory of any set of them is the newest by its time (`Ranked`), so that the order by which
a prune keeps directories chooses some, and a cycle that prunes holds a release that is there
(`Spares`), which it keeps beside another one. Only this theorem needs `HistoryAssumption`, that
some commit of any set of releases leads to no other: a history of git is finite and has no circle, and
the releases that are installed at the start have the times of their commits.

**The stages.** For every set of stages, number of runs, sessions, control planes and
continuations, from the two named assumptions of `StageRecovery`: `TypeCorrect`,
`NeverTwice` (`OneLiveRun`), `RetryIsSingle` (`RetriedOnce`) and `ResultIsLast`
(`ResultStands`). None is inductive alone, because a session dispatches from what it reads in
the comment. `IInv` adds to `TypeOK` what makes the comment trustworthy: a nonce is stored
before anything is dispatched or looked for under it (`NonceFirst`); the runs carry
increasing nonces up to the stored one, and all but the last have ended without a result
(`RunsInOrder`); wherever a session may dispatch, the last has ended without a result too and the stored nonce
is still unused, and what a session waits for, and what the comment names, is the last run (`LastRun`);
and the stored count of retries is never below the retries made, nor that of a session below
the stored one (`RetryStored`). The last three are stated for the two stages that refuse a nonce
without a run: they fail for hygiene, which dispatches such a nonce again. The proof has one lemma for
the dispatches, one for the steps of the runs, and one for the steps that change no run.

`StageImplements` (`StagePromiseKept`) is the refinement of `StagePromise`: the state of the last
run, whether the retry was made, how many runs replaced a failed one, and the control planes released
since the stage began, which pay for those. A dispatch maps to `First`, `Retry` or `Rearm`, the end of a
run to `End`, a release of the control plane to `Release`, all else to a stutter. That a dispatch follows
a failed run, and that the retry was not made, is `IInv`. `PaidInv` adds that exactly the first
dispatch has no run before it (`FirstIsFirst`) and that there are at most as many replaced runs as the
control plane of the last run has predecessors (`RearmsPaid`). A failed run is replaced when its
control plane is not the one the session checked out. For an audit that means an older one, because an
audit is replaced only when its run was there before the session. A worker may be replaced after
the session retried it, under a control plane newer than its own checkout; that the account still
holds is because the session found the runs before the retry under a control plane up to its own
(`Unspent`). `RetriedOnce` is the part of the promise that `docs/delivery-v2.md:56` states; it is proved
and not checked in a run of its own.

**The adoption.** For the same constants and every number of moves of the head, from
`MovesAssumption` too: `AdoptionTypes` (`AdoptionTypeOK`), `CommentsAgree`
(`CheckpointAgrees`), and of the audit of an adopted pull request `AdoptedAuditsLiveAlone`
(`OneLiveRun`), `AdoptedAuditsRetryOnce` (`RetriedOnce`), `AdoptedVerdictStands`
(`ResultStands`) and `AdoptionImplements` (`StagePromiseKept`). The last four follow from `IInv` and
`PaidInv` of the stage, which an adoption keeps (`StageKept`, `PaidKept`): its steps are steps of a stage, or leave the stage alone, but for the write of
the state comment, the charge of the audit and the first dispatch, before which there is no
run. `CheckpointAgrees` is not inductive: a session reads the state comment, not the
checkpoint, so nothing but what is in the former keeps it from replacing a run whose verdict
is in the latter. `AdoptionInv` therefore adds that nothing is dispatched, bound or decided
before the state comment (`EarlyInv`); that only the session that charged the audit makes the
first dispatch (`FirstDispatch`); that the run which the state comment names carries its nonce
and is the one waited for (`NamedRun`); that a verdict in the checkpoint belongs to that run,
which every later session finds usable and so neither retries nor replaces (`DecidedInv`); and
what a session has written for the run it waited for (`BoundInv`). `Effect` lists what a
step may do to the session and to the run and the nonce of the comment; the parts of the
invariant are proved from this list.

**Only model-checked.** Liveness is out of the reach of the prover: both `SessionEnds`,
`AutomationEnds` and `CatchesUp`. Every safety invariant and every action property of a passing run
is stated by a theorem. The types of `VpsRuntime`
and `StageRecovery` are proved, and the run `stages` checks the latter with those of the
adoption. That run has the specification of the adoption, which contains the deliveries that
are not adopted; the theorems of `StageRecovery` are about its own `Spec`, those of the adoption
about both kinds.

## 5. Disagreements between the code and its documents

Each of these has a run that ends in a short counterexample, and a finding in
`PROJECT.json` with the quotation.

1. `red_verdict`: the audit branch accepts the approval of a red run, the release
   branch does not.
2. `rearm_moved`: a worker that pushed and then failed is launched again under a new
   control plane, because the two heads that are compared were read in one response.
3. `metrics_failure`: the initial session of a delivery that is ready fails when its
   record cannot be made, and a retried audit makes sure that it cannot.
4. `adoption_stuck`: the audit of an adopted pull request that was retried, or replaced after
   the session that waited for it died, can be bound to the checkpoint by no session, because
   a run is bound only when its stage has ended.

The following are behaviours of the models without a run of their own.

*Of a delivery:*

* A push, or an advance of the base, between the last read of the pull request and the post
  of the success is not noticed (`Release`): the older head gets a success when it is no longer
  the one to be merged, or when the base its evidence was made for is gone.
* The id of a hygiene run outlives the head it was dispatched for and is read again for
  the next one.
* The branch that would dispatch a reserved audit nonce is dead: the state is routed by its
  status first.
* After a crash inside a promotion the comment is current and still makes every session
  throw: `authorizePromotion` stores the new head beside the hygiene result of the previous
  one, and `Resume` applies the stored result on entry (`CanApplyHygiene`).
* A lower risk on the next head leaves counters above its ceilings; `Resume` is refused
  (`WithinCeilings`), the sessions throw instead of escalating.

*Of the bootstrap:*

* A context rebuild that a green workflow reports on the last attempt is recovered for ever
  instead of escalated: it is a success for the guard and a failure for the controller.
* An old failure in the lease makes the guard charge another attempt instead of
  reusing the one that was reserved and never dispatched.
* The commit a run was triggered for is recorded as its control plane, and the next session
  takes the one that is checked out for a change.
* On the last attempt a failed worker that nobody classified is escalated
  as exhausted instead of recovered (`DecideReserved`).
* A bootstrap worker recovered by its nonce is waited for without its id in the lease, and
  `RecordNoMaterial` then leaves the lease as it is, where the code throws.

*Of a stage:*

* A hygiene nonce that was stored and not dispatched is dispatched by the next session in a
  stage loop of its own, whose retries start at zero: three runs, where
  `docs/delivery-v2.md:56` speaks of one retry. A dispatch that is merely not listed yet is
  dispatched twice (`DispatchAgain`). The two other stages refuse instead, which is why
  `OneLiveRun` and `RetriedOnce` are about them.
* "Another control plane" is a comparison for equality: a worker that ran under a newer
  build than the session has checked out is rearmed as well (`CanRearmWorker`).
* The wait for an audit that timed out but left a verdict is a retry, not an acceptance,
  when the session reached the audit through the stage loop (`MayRetry` comes first).

*Of an adoption:*

* A head that moves after the reservation takes the only audit of the adoption with it
  (`Reconciled` keeps `attempts`): every later session is refused by `BudgetLeft`, where
  `docs/delivery-v2/MASTER_SPEC.md:946` speaks of a budget for the current head.
* In the code, a head that moves between the state comment and the first charge of the audit
  gives the new head's audit a nonce of its own, which the checkpoint never accepts, although
  `auditAttempts` is 1. The model ends the stage at that move.

*Of the accounting:*

* A record that calls itself complete may lack the bootstrap worker of a session that died
  before the pull request: the accumulator of an initial session starts empty
  (`scripts/run-delivery-v2-controller.mjs:1038`), and nothing marks the ledger as partial, where
  `docs/delivery-v2/MASTER_SPEC.md:759` says that every provider run is enumerated
  (`BeginInitial`).
* A resumed session labels the entries of remediation and hygiene runs "implementation",
  and says that it mirrors the initial one, which does not (`LedgerPhase`).
* The time of an audit is counted twice when its run is first recorded as failed and its
  verdict accepted later; `CountedOnce` is restricted to complete accounts for that reason.
* A resumed session does not count the first run of an audit that was retried, nor that of a
  hygiene run that it adopted, nor an audit or hygiene run that it replaces (`Rearm`).
* A session that dies between the stored release and its record leaves no record, and no
  later session makes one.
* One run may be in the records of two heads of a delivery, under two delivery ids.
* With an audit that made no call there is no audit row, and every group of the delivery shows
  its audit attempts: `GroupsAddUp` is about deliveries with audit rows.

*Of the VPS:*

* A killed cycle leaves its lock file, and every later one ends at once until a person
  removes it; killed between the directory and its marker, that commit is refused for ever.
  Both are part of `NeedsAPerson`.
* A person who repoints the link while a cycle sweeps or prunes may lose that release: the
  pruning keeps the release that the cycle executed. A rollback made during the gates is
  overridden by the switch. `repointed` in `ActiveIsSound` stands for this.
* A directory without a marker counts as a release that is kept, and may cost the only
  rollback (`RollbackKept`).
* A push between the last request and the deletion is lost, because the ref is deleted by
  name; a lost answer is reported as a branch that was preserved.
* The sweep that a person starts uses another lock file by default, so that two sweeps can
  run at once.

## 6. Plan, and what is not modelled

Next, in this order:

1. The composition of `BootstrapLease` with `DeliveryController`, whose `Init` is the state
   after `HandOver` or a `resume`: the attempts of the one are the `bootstrapAttempts` of the
   other.
2. The draft flag of the pull request, and the rollback of the mark when the last read fails.
3. The adoptions that go to remediation because their CI is red.

Not modelled:

* **Provider policy and dispatch**: a lookup in a configuration; it keeps no state.
* **GitHub API retry**: retries of idempotent reads; a call that fails for good is a crash.
* **Telemetry, budgets, pricing and summaries**: arithmetic on tokens and prices, and
  wording; pure functions of one record.
* **Role worker and executor**: one model process and its output; its outcome is an input
  of the modules above.
* **Audit diff bounding**: text processing without state.
* **The classification of paths, the construction of prompts and evidence bundles, the
  merge preview**: their results are free choices, and their failures crashes.
