----------------------------- MODULE BootstrapLease -----------------------------
(***************************************************************************)
(* One issue before it has a pull request: the bootstrap lease, the re-entry *)
(* guard, the reservation of initial attempts and the initial workers.      *)
(*                                                                          *)
(* A session is one run of delivery-v2-dispatch.yml, and does its steps in   *)
(* the order of that workflow: the guard reads the lease and decides, the    *)
(* reservation charges an attempt, the controller takes the lease over,      *)
(* dispatches a worker, waits for it, classifies how it ended and reserves   *)
(* the next attempt; when a step after the guard fails, the guard runs once  *)
(* more to persist an exhausted budget.  The concurrency group lets one      *)
(* session run and one wait.  A session may die between any two steps; what  *)
(* survives is the lease, a comment on the issue, and the workers, which go  *)
(* on by themselves: they appear late in the list of runs, and check by      *)
(* themselves that the controller that dispatched them still holds the lease.*)
(***************************************************************************)
EXTENDS Naturals, Sequences, FiniteSets

CONSTANTS
  MaxAttempts,   \* implementation attempts that the risk profile allows
  MaxHead,       \* bound on releases of the control plane
  MaxContract,   \* bound on edits of the issue
  MaxRuns        \* bound on sessions

ASSUME MaxAttemptsAssumption == MaxAttempts \in Nat \ {0}
ASSUME EnvironmentAssumption ==
  /\ MaxHead \in Nat \ {0}
  /\ MaxContract \in Nat \ {0}
  /\ MaxRuns \in Nat

VARIABLES
  head, contract,   \* the released control plane, and the text of the issue
  queued,           \* the commit of the run that waits for its turn, or 0
  lease,            \* the bootstrap comment on the issue
  workers,          \* every worker that was dispatched, in that order
  pr, prOf,         \* the managed pull request, and the worker that opened it
  session, pc,      \* the session that runs, and the step it is at
  nonces,           \* how many dispatch nonces have been created
  grants            \* history: the attempts that may be run once more, and why

world == <<head, contract, queued>>
vars == <<world, lease, workers, pr, prOf, session, pc, nonces, grants>>

-----------------------------------------------------------------------------
(* What a worker may end with.  The authorization step of the worker refuses  *)
(* the first three; a structured report of a context rebuild may come with a  *)
(* red workflow or a green one.                                               *)
NotExecuted == {"mismatch", "denied", "startup"}
RebuildReports == {"rebuild", "green-rebuild"}
NoMaterial == {"empty", "ambiguous"}
Successful == {"patch", "green-rebuild"} \cup NoMaterial
Broken == {"broken", "scope", "cancelled"}
Endings == Successful \cup {"rebuild"} \cup Broken
Outcomes == Endings \cup NotExecuted
MayPublish == {"patch", "rebuild", "green-rebuild", "broken", "cancelled", "ambiguous"}

Statuses == {"none", "reserved", "exhausted", "nonrecoverable"}
Steps == {"idle", "guard", "reserve", "start", "dispatch", "correlate", "wait",
          "retry", "publish", "finalize"}

Worker == [nonce : Nat, run : Nat, head : Nat, attempt : Nat,
           status : {"posted", "queued", "checked", "running", "done"},
           outcome : Outcomes \cup {"none"}]
Failure == [attempt : Nat, worker : Nat, kind : Outcomes \cup {"none"}]
Lease == [status : Statuses, attempts : 0 .. MaxAttempts, run : Nat, head : Nat,
          worker : Nat, nonce : Nat, contract : Nat, recovery : Nat,
          failure : Failure, resumable : BOOLEAN]
Session == [id : Nat, sha : Nat, head : Nat, prior : Nat, attempt : Nat,
            nonce : Nat, worker : Nat, first : Nat, scopeFixed : BOOLEAN]

NoFailure == [attempt |-> 0, worker |-> 0, kind |-> "none"]
NoLease == [status |-> "none", attempts |-> 0, run |-> 0, head |-> 0,
            worker |-> 0, nonce |-> 0, contract |-> 0, recovery |-> 0,
            failure |-> NoFailure, resumable |-> FALSE]
NoSession == [id |-> 1, sha |-> 0, head |-> 0, prior |-> 0, attempt |-> 0,
              nonce |-> 0, worker |-> 0, first |-> 0, scopeFixed |-> FALSE]

Done(w) == workers[w].status = "done"
Succeeded(w) == Done(w) /\ workers[w].outcome \in Successful
Executed(w) == \/ workers[w].status = "running"
               \/ Done(w) /\ workers[w].outcome \notin NotExecuted
Carrying(nonce) == {w \in DOMAIN workers : workers[w].nonce = nonce}
Listed(nonce) == {w \in Carrying(nonce) : workers[w].status # "posted"}
Live(run) == session.id = run /\ pc # "idle"

-----------------------------------------------------------------------------
(* The guard.  The worker it recovers is the one whose id the lease holds, or  *)
(* the only listed run that carries the nonce of the lease.                   *)
Ambiguous == lease.worker = 0 /\ Cardinality(Listed(lease.nonce)) > 1

Recovered ==
  IF lease.worker # 0 THEN lease.worker
  ELSE IF Listed(lease.nonce) = {} THEN 0
  ELSE CHOOSE w \in Listed(lease.nonce) : TRUE

(* Mutant of PreviousHead: the recovery already granted is forgotten.         *)
LeaseHead == lease.head

PreviousHead == IF lease.recovery # 0 THEN lease.recovery ELSE lease.head
ControlPlaneChanged == PreviousHead # session.head

FailureObserved == /\ lease.failure.kind # "none"
                   /\ lease.failure.attempt = lease.attempts
IsRecoverable(kind) == kind \in RebuildReports \cup {"mismatch"}

AtCeiling == lease.attempts >= MaxAttempts

DecideAfterFailure(retry) ==
  IF ~IsRecoverable(lease.failure.kind) THEN "stop"
  ELSE IF AtCeiling THEN "exhaust" ELSE retry

(* A patch that the material scope guard rejected, and that the corrected      *)
(* scope of the same contract accepts, with no pull request in any state.     *)
ScopeCorrected ==
  /\ lease.failure.kind = "scope" /\ lease.failure.worker = Recovered
  /\ session.scopeFixed
  /\ lease.contract = contract
  /\ prOf = 0

LegacyMismatch ==
  /\ lease.failure.kind = "mismatch" /\ lease.failure.worker = Recovered
  /\ ControlPlaneChanged

(* Mutant of DecideReserved: a worker that has not ended counts as failed.      *)
DecideReservedOnConclusion ==
  LET w == Recovered IN
  IF w = 0
  THEN IF FailureObserved THEN DecideAfterFailure("retry") ELSE "reuse"
  ELSE IF Succeeded(w)
  THEN IF lease.contract # contract THEN "rearm-contract"
       ELSE IF ControlPlaneChanged THEN "grant" ELSE "recover"
  ELSE "retry"

DecideReserved ==
  LET w == Recovered IN
  IF w = 0
  THEN IF FailureObserved THEN DecideAfterFailure("retry") ELSE "reuse"
  ELSE IF ~Done(w) THEN "recover"
  ELSE IF Succeeded(w)
  THEN IF lease.contract # contract THEN "rearm-contract"
       ELSE IF ControlPlaneChanged THEN "grant" ELSE "recover"
  ELSE IF FailureObserved /\ lease.failure.worker = w
  THEN DecideAfterFailure("retry")
  ELSE IF AtCeiling THEN "exhaust" ELSE "recover"

(* Mutant of DecideWithoutPullRequest: a terminal lease decides as a reserved   *)
(* one.                                                                       *)
DecideOnAnyLease == IF lease.status = "none" THEN "new" ELSE DecideReserved

DecideWithoutPullRequest ==
  CASE lease.status = "none" -> "new"
    [] lease.status = "exhausted" ->
         IF lease.resumable /\ ControlPlaneChanged THEN "grant" ELSE "stop"
    [] lease.status = "nonrecoverable" ->
         IF ScopeCorrected THEN "rearm-scope"
         ELSE IF LegacyMismatch THEN "rearm-legacy" ELSE "stop"
    [] lease.status = "reserved" -> DecideReserved

Decision ==
  CASE pr = "handed" -> "resume"
    [] pr # "handed" /\ Ambiguous -> "refuse"
    [] pr = "open" /\ ~Ambiguous ->
         IF Recovered # 0 /\ Succeeded(Recovered) /\ lease.status # "exhausted"
         THEN IF lease.status = "reserved" THEN "recover" ELSE "refuse"
         ELSE "adopt"
    [] pr \in {"none", "closed"} /\ ~Ambiguous -> DecideWithoutPullRequest

(* "refuse" is an error that the guard throws, "resume" a delivery that has a    *)
(* state comment, "stop" a decision that runs no controller.                  *)
Rearms == {"rearm-contract", "rearm-scope", "rearm-legacy"}

(* Mutant of Rearmed: the attempt that is run again is given back.             *)
RearmedUncharged(decision) ==
  [lease EXCEPT !.status = "reserved", !.attempts = IF @ > 1 THEN @ - 1 ELSE @,
                !.run = session.id,
                !.head = session.head, !.worker = 0, !.nonce = nonces + 1,
                !.contract = IF decision = "rearm-legacy" THEN @ ELSE contract,
                !.recovery = IF decision = "rearm-scope" THEN 0 ELSE session.head,
                !.failure = IF decision = "rearm-contract" THEN @ ELSE NoFailure]

(* The lease of a new dispatch on the attempt already charged.                *)
Rearmed(decision) ==
  [lease EXCEPT !.status = "reserved", !.run = session.id,
                !.head = session.head, !.worker = 0, !.nonce = nonces + 1,
                !.contract = IF decision = "rearm-legacy" THEN @ ELSE contract,
                !.recovery = IF decision = "rearm-scope" THEN 0 ELSE session.head,
                !.failure = IF decision = "rearm-contract" THEN @ ELSE NoFailure]

(* What made the last attempt fail decides whether a later control plane may   *)
(* try it once more: the failure on record if there is one, however old it is, *)
(* and the conclusion of the recovered run otherwise.                          *)
Resumable ==
  IF lease.failure.kind # "none" THEN lease.failure.kind = "rebuild"
  ELSE Recovered # 0

ExhaustedLease ==
  [lease EXCEPT !.status = "exhausted",
                !.head = PreviousHead,
                !.worker = IF Recovered # 0 THEN Recovered ELSE @,
                !.resumable = Resumable]

GrantOf(decision) ==
  [attempt |-> lease.attempts, reason |-> decision, nonce |-> nonces + 1,
   key |-> CASE decision = "grant" -> session.head
             [] decision = "rearm-contract" -> contract
             [] OTHER -> Recovered]

(* persistReentryMutation: the only writes of the guard to the lease.          *)
PersistMutation(decision) ==
  /\ lease' = CASE decision \in Rearms -> Rearmed(decision)
                [] decision = "exhaust" -> ExhaustedLease
                [] OTHER -> lease
  /\ nonces' = IF decision \in Rearms THEN nonces + 1 ELSE nonces
  /\ grants' = IF decision \in Rearms THEN grants \cup {GrantOf(decision)}
               ELSE grants
  /\ pr' = IF decision = "adopt" THEN "handed" ELSE pr

-----------------------------------------------------------------------------
(* What goes on around the sessions.                                          *)

AdvanceControlPlane ==
  /\ head < MaxHead
  /\ head' = head + 1
  /\ UNCHANGED <<contract, queued, lease, workers, pr, prOf, session, pc, nonces, grants>>

EditIssue ==
  /\ contract < MaxContract
  /\ contract' = contract + 1
  /\ UNCHANGED <<head, queued, lease, workers, pr, prOf, session, pc, nonces, grants>>

ClosePullRequest ==
  /\ pr \in {"open", "handed"}
  /\ pr' = "closed"
  /\ UNCHANGED <<world, lease, workers, prOf, session, pc, nonces, grants>>

(* Somebody dispatches the workflow.  A run that was waiting is replaced.     *)
Trigger ==
  /\ session.id < MaxRuns
  /\ queued # head
  /\ queued' = head
  /\ UNCHANGED <<head, contract, lease, workers, pr, prOf, session, pc, nonces, grants>>

(* The waiting run starts, and checks out the control plane of this moment;   *)
(* GITHUB_SHA stays the commit it was triggered for.                          *)
StartRun(scopeFixed) ==
  /\ pc = "idle" /\ queued # 0
  /\ session' = [NoSession EXCEPT !.id = session.id + 1, !.sha = queued,
                                  !.head = head, !.scopeFixed = scopeFixed]
  /\ pc' = "guard"
  /\ queued' = 0
  /\ UNCHANGED <<head, contract, lease, workers, pr, prOf, nonces, grants>>

-----------------------------------------------------------------------------
(* The workers.                                                               *)

SetWorker(w, status, outcome) ==
  workers' = [workers EXCEPT ![w].status = status, ![w].outcome = outcome]

Appear(w) ==
  /\ workers[w].status = "posted"
  /\ SetWorker(w, "queued", "none")
  /\ UNCHANGED <<world, lease, pr, prOf, session, pc, nonces, grants>>

CheckController(w) ==
  /\ workers[w].status = "queued"
  /\ IF Live(workers[w].run)
     THEN SetWorker(w, "checked", "none")
     ELSE SetWorker(w, "done", "denied")
  /\ UNCHANGED <<world, lease, pr, prOf, session, pc, nonces, grants>>

UniquelyCorrelated(w) == Listed(workers[w].nonce) = {w}

HoldsActiveLease(w) ==
  lease.status = "reserved" /\ lease.nonce = workers[w].nonce

CheckLease(w) ==
  /\ workers[w].status = "checked"
  /\ IF lease.run # workers[w].run THEN SetWorker(w, "done", "mismatch")
     ELSE IF HoldsActiveLease(w) /\ UniquelyCorrelated(w)
     THEN SetWorker(w, "running", "none")
     ELSE SetWorker(w, "done", "denied")
  /\ UNCHANGED <<world, lease, pr, prOf, session, pc, nonces, grants>>

(* The job is cancelled, or never starts.                                     *)
NeverStart(w) ==
  /\ workers[w].status \in {"queued", "checked"}
  /\ SetWorker(w, "done", "startup")
  /\ UNCHANGED <<world, lease, pr, prOf, session, pc, nonces, grants>>

(* The safe output of the worker opens the pull request; its run goes on.       *)
Publish(w) ==
  /\ workers[w].status = "running"
  /\ prOf # w
  /\ pr' = "open" /\ prOf' = w
  /\ UNCHANGED <<world, lease, workers, session, pc, nonces, grants>>

Finish(w, outcome) ==
  /\ workers[w].status = "running"
  /\ prOf = w => outcome \in MayPublish
  /\ SetWorker(w, "done", outcome)
  /\ UNCHANGED <<world, lease, pr, prOf, session, pc, nonces, grants>>

WorkerStep(w) ==
  \/ Appear(w)
  \/ CheckController(w)
  \/ CheckLease(w)
  \/ NeverStart(w)
  \/ Publish(w)
  \/ \E outcome \in Endings : Finish(w, outcome)

-----------------------------------------------------------------------------
(* The guard step of a session.                                               *)

(* The run is over; all that is left of it is that its id has been used.      *)
SessionEnd ==
  /\ pc' = "idle"
  /\ session' = [NoSession EXCEPT !.id = session.id]

GuardStops ==
  /\ pc = "guard"
  /\ Decision \in {"resume", "refuse", "stop", "exhaust", "adopt"}
  /\ PersistMutation(Decision)
  /\ SessionEnd
  /\ UNCHANGED <<world, workers, prOf>>

GuardReserves ==
  /\ pc = "guard"
  /\ Decision \in {"new", "retry", "grant"}
  /\ session' = [session EXCEPT !.prior =
                   IF Decision = "grant" THEN lease.attempts - 1 ELSE lease.attempts]
  /\ pc' = "reserve"
  /\ UNCHANGED <<world, lease, workers, pr, prOf, nonces, grants>>

GuardReuses ==
  /\ pc = "guard"
  /\ Decision \in {"reuse"} \cup Rearms
  /\ PersistMutation(Decision)
  /\ session' = [session EXCEPT !.attempt = lease'.attempts, !.nonce = lease'.nonce]
  /\ pc' = "start"
  /\ UNCHANGED <<world, workers, prOf>>

GuardRecovers ==
  /\ pc = "guard"
  /\ Decision = "recover"
  /\ session' = [session EXCEPT !.attempt = lease.attempts, !.nonce = lease.nonce,
                                !.worker = Recovered]
  /\ pc' = "start"
  /\ UNCHANGED <<world, lease, workers, pr, prOf, nonces, grants>>

-----------------------------------------------------------------------------
(* The reservation derives the recovery once more from the lease.             *)

RecoveryGranted ==
  /\ ControlPlaneChanged
  /\ \/ lease.status = "exhausted" /\ lease.resumable
     \/ lease.status = "reserved" /\ Recovered # 0 /\ Succeeded(Recovered)

RecoveryConsistent ==
  /\ ~ (lease.status = "reserved" /\ Ambiguous)
  /\ RecoveryGranted <=> session.prior + 1 = lease.attempts
  /\ lease.status = "exhausted" => RecoveryGranted

CanReserve == RecoveryConsistent /\ session.prior < MaxAttempts

Reserve ==
  /\ pc = "reserve" /\ CanReserve
  /\ lease' = [NoLease EXCEPT !.status = "reserved", !.attempts = session.prior + 1,
                              !.run = session.id, !.head = session.head,
                              !.nonce = nonces + 1, !.contract = contract,
                              !.recovery = IF RecoveryGranted THEN session.head ELSE 0]
  /\ nonces' = nonces + 1
  /\ grants' = IF RecoveryGranted THEN grants \cup {GrantOf("grant")} ELSE grants
  /\ session' = [session EXCEPT !.attempt = session.prior + 1, !.nonce = nonces + 1]
  /\ pc' = "start"
  /\ UNCHANGED <<world, workers, pr, prOf>>

ReserveRefused ==
  /\ pc = "reserve" /\ ~CanReserve
  /\ pc' = "finalize"
  /\ UNCHANGED <<world, lease, workers, pr, prOf, session, nonces, grants>>

(* The plan asks for a narrower scope: nothing is dispatched, and the session  *)
(* ends well.                                                                 *)
NeedsScope ==
  /\ pc = "start" \/ (pc = "reserve" /\ RecoveryConsistent)
  /\ SessionEnd
  /\ UNCHANGED <<world, lease, workers, pr, prOf, nonces, grants>>

-----------------------------------------------------------------------------
(* The controller.                                                            *)

(* Mutant of Transferred: the run that reserved the attempt keeps the lease.   *)
KeptAuthority(l) == l

(* transferBootstrapControllerAuthority, with GITHUB_SHA as the control plane. *)
Transferred(l) == [l EXCEPT !.run = session.id, !.head = session.sha]

StartRecovered ==
  /\ pc = "start" /\ session.worker # 0
  /\ session' = [session EXCEPT !.first = session.worker]
  /\ pc' = "wait"
  /\ UNCHANGED <<world, lease, workers, pr, prOf, nonces, grants>>

StartWithAuthority ==
  /\ pc = "start" /\ session.worker = 0
  /\ lease.status = "reserved"
  /\ lease' = Transferred(lease)
  /\ session' = [session EXCEPT !.first = Len(workers) + 1]
  /\ pc' = "dispatch"
  /\ UNCHANGED <<world, workers, pr, prOf, nonces, grants>>

Dispatch ==
  /\ pc = "dispatch"
  /\ workers' = Append(workers,
       [nonce |-> session.nonce, run |-> session.id, head |-> session.head,
        attempt |-> session.attempt, status |-> "posted", outcome |-> "none"])
  /\ pc' = "correlate"
  /\ UNCHANGED <<world, lease, pr, prOf, session, nonces, grants>>

Correlate(w) ==
  /\ pc = "correlate"
  /\ Listed(session.nonce) = {w}
  /\ lease' = [lease EXCEPT !.worker = w]
  /\ session' = [session EXCEPT !.worker = w]
  /\ pc' = "wait"
  /\ UNCHANGED <<world, workers, pr, prOf, nonces, grants>>

CorrelateAmbiguous ==
  /\ pc = "correlate"
  /\ Cardinality(Listed(session.nonce)) > 1
  /\ pc' = "finalize"
  /\ UNCHANGED <<world, lease, workers, pr, prOf, session, nonces, grants>>

Ended(outcomes) ==
  pc = "wait" /\ Done(session.worker) /\ workers[session.worker].outcome \in outcomes

PublishedSince == prOf # 0 /\ prOf >= session.first

(* Mutant of RetryableFailure: published material does not end the bootstrap.  *)
FailureWithMaterial ==
  \/ Ended(RebuildReports)
  \/ Ended({"mismatch"}) /\ lease.run # session.id

RetryableFailure ==
  \/ Ended(RebuildReports) /\ ~PublishedSince
  \/ Ended({"mismatch"}) /\ lease.run # session.id

Recorded(status) ==
  [lease EXCEPT !.status = status, !.worker = session.worker,
                !.failure = [attempt |-> session.attempt, worker |-> session.worker,
                             kind |-> workers[session.worker].outcome]]

ObserveMaterial ==
  /\ Ended({"patch"})
  /\ pc' = "publish"
  /\ UNCHANGED <<world, lease, workers, pr, prOf, session, nonces, grants>>

RecordRetryable ==
  /\ RetryableFailure
  /\ lease' = Recorded("reserved")
  /\ pc' = "retry"
  /\ UNCHANGED <<world, workers, pr, prOf, session, nonces, grants>>

(* recordInitialSuccessfulNoMaterial throws when the lease does not hold the   *)
(* id of the worker; the session ends the same way.                           *)
RecordNoMaterial ==
  /\ Ended(NoMaterial)
  /\ lease' = IF lease.worker = session.worker THEN Recorded("nonrecoverable") ELSE lease
  /\ pc' = "finalize"
  /\ UNCHANGED <<world, workers, pr, prOf, session, nonces, grants>>

RecordFailure ==
  /\ Ended(Outcomes \ ({"patch"} \cup NoMaterial)) /\ ~RetryableFailure
  /\ lease' = Recorded("nonrecoverable")
  /\ pc' = "finalize"
  /\ UNCHANGED <<world, workers, pr, prOf, session, nonces, grants>>

(* Mutant of NextAttempt: a retry is not charged.                             *)
SameAttempt == session.attempt

NextAttempt ==
  IF lease.failure.kind = "mismatch" THEN session.attempt ELSE session.attempt + 1

(* Mutant of BudgetLeft: one attempt too many.                                *)
BudgetLeftOffByOne == session.attempt <= MaxAttempts

BudgetLeft == NextAttempt <= MaxAttempts

ReserveNext ==
  /\ pc = "retry" /\ BudgetLeft
  /\ lease' = [Transferred(lease) EXCEPT !.attempts = NextAttempt, !.worker = 0,
                                         !.nonce = nonces + 1]
  /\ nonces' = nonces + 1
  /\ session' = [session EXCEPT !.attempt = NextAttempt, !.nonce = nonces + 1,
                                !.worker = 0]
  /\ pc' = "dispatch"
  /\ UNCHANGED <<world, workers, pr, prOf, grants>>

BudgetExhausted ==
  /\ pc = "retry" /\ ~BudgetLeft
  /\ pc' = "finalize"
  /\ UNCHANGED <<world, lease, workers, pr, prOf, session, nonces, grants>>

(* The pull request is found, and the delivery goes on as in                   *)
(* DeliveryController.                                                        *)
HandOver ==
  /\ pc = "publish" /\ PublishedSince
  /\ pr' = IF pr = "open" THEN "handed" ELSE pr
  /\ SessionEnd
  /\ UNCHANGED <<world, lease, workers, prOf, nonces, grants>>

(* Mutant of TimeOut: the search for a pull request has no limit.             *)
TimeOutOfCorrelation ==
  /\ pc = "correlate"
  /\ pc' = "finalize"
  /\ UNCHANGED <<world, lease, workers, pr, prOf, session, nonces, grants>>

(* The run with the nonce is not listed in time, or no pull request is found.   *)
TimeOut ==
  /\ pc \in {"correlate", "publish"}
  /\ pc' = "finalize"
  /\ UNCHANGED <<world, lease, workers, pr, prOf, session, nonces, grants>>

(* An API call throws.                                                        *)
Fail ==
  /\ pc \in {"reserve", "start", "dispatch", "wait", "retry"}
  /\ pc' = "finalize"
  /\ UNCHANGED <<world, lease, workers, pr, prOf, session, nonces, grants>>

(* "Persist exhausted initial attempt": the guard again, in the same session.  *)
Finalize ==
  /\ pc = "finalize"
  /\ PersistMutation(Decision)
  /\ SessionEnd
  /\ UNCHANGED <<world, workers, prOf>>

Crash ==
  /\ pc # "idle"
  /\ SessionEnd
  /\ UNCHANGED <<world, lease, workers, pr, prOf, nonces, grants>>

SessionStep ==
  \/ GuardStops \/ GuardReserves \/ GuardReuses \/ GuardRecovers
  \/ Reserve \/ ReserveRefused \/ NeedsScope
  \/ StartRecovered \/ StartWithAuthority
  \/ Dispatch
  \/ \E w \in DOMAIN workers : Correlate(w)
  \/ CorrelateAmbiguous
  \/ ObserveMaterial \/ RecordRetryable \/ RecordNoMaterial \/ RecordFailure
  \/ ReserveNext \/ BudgetExhausted
  \/ HandOver \/ TimeOut \/ Finalize

-----------------------------------------------------------------------------
(* An issue starts without a lease, or with one that an earlier control plane  *)
(* left behind: its worker 1 was dispatched by run 1 while the lease still      *)
(* named run 0, and was refused; that control plane may have recorded the       *)
(* refusal as not recoverable.                                                 *)
LegacyWorker == [nonce |-> 1, run |-> 1, head |-> 1, attempt |-> 1,
                 status |-> "done", outcome |-> "mismatch"]
LegacyLease ==
  [NoLease EXCEPT !.status = "reserved", !.attempts = 1, !.head = 1,
                  !.worker = 1, !.nonce = 1, !.contract = 1]
LegacyEscalation ==
  [LegacyLease EXCEPT !.status = "nonrecoverable",
     !.failure = [attempt |-> 1, worker |-> 1, kind |-> "mismatch"]]

Init ==
  /\ head = 1 /\ contract = 1 /\ queued = 0
  /\ pr = "none" /\ prOf = 0
  /\ session = NoSession /\ pc = "idle"
  /\ grants = {}
  /\ \/ lease = NoLease /\ workers = <<>> /\ nonces = 0
     \/ lease \in {LegacyLease, LegacyEscalation} /\ workers = <<LegacyWorker>> /\ nonces = 1

Next ==
  \/ AdvanceControlPlane \/ EditIssue \/ ClosePullRequest \/ Trigger
  \/ \E scopeFixed \in BOOLEAN : StartRun(scopeFixed)
  \/ \E w \in DOMAIN workers : WorkerStep(w)
  \/ SessionStep
  \/ Fail
  \/ Crash

Spec == Init /\ [][Next]_vars

(* The workflow executes its steps and GitHub its jobs; nobody has to release a  *)
(* control plane, edit the issue or dispatch the workflow again.               *)
FairSpec == /\ Spec
            /\ WF_vars(SessionStep)
            /\ WF_vars(\E w \in DOMAIN workers : WorkerStep(w))

-----------------------------------------------------------------------------
(* Every variable stays in its domain; in particular the lease never charges   *)
(* more attempts than the risk profile allows.                                *)
TypeOK ==
  /\ head \in 1 .. MaxHead /\ contract \in 1 .. MaxContract
  /\ queued \in 0 .. MaxHead
  /\ lease \in Lease
  /\ workers \in Seq(Worker)
  /\ pr \in {"none", "open", "handed", "closed"}
  /\ prOf \in 0 .. Len(workers)
  /\ session \in Session /\ pc \in Steps
  /\ lease.worker <= Len(workers) /\ session.worker <= Len(workers)
  /\ nonces \in Nat
  /\ grants \subseteq [attempt : Nat, reason : Rearms \cup {"grant"},
                        nonce : Nat, key : Nat]

(* From the moment it has a nonce until it has handed over, a session finds    *)
(* the lease reserved, for its attempt and with its nonce: the drift checks of  *)
(* recordInitialWorkerCorrelation, recordInitialWorkerFailure and               *)
(* reserveNextInitialAttempt never throw, whatever crashes and the finalizer    *)
(* of earlier sessions left behind.                                           *)
SessionHoldsLease ==
  pc \in {"start", "dispatch", "correlate", "wait", "retry"} =>
    /\ lease.status = "reserved"
    /\ lease.attempts = session.attempt
    /\ lease.nonce = session.nonce

(* Two initial workers never run at the same time, although sessions die,       *)
(* dispatched runs appear late and the same nonce may be dispatched twice.     *)
OneWorkerRuns ==
  \A v, w \in DOMAIN workers :
    workers[v].status = "running" /\ workers[w].status = "running" => v = w

(* No worker that carries the nonce of the lease was ever refused because the   *)
(* lease named another run: a session takes the lease over before it dispatches,*)
(* and takes none over while a worker of the last session may still read it.   *)
(* Only the workers that an earlier control plane dispatched end that way.     *)
AuthorityIsCurrent ==
  \A w \in Carrying(lease.nonce) :
    workers[w].outcome = "mismatch" => workers[w] = LegacyWorker

(* An attempt is run once, and once more for each grant on record: a new        *)
(* control plane, an edited issue or a corrected scope.  Nothing else, no       *)
(* crash or retry, makes a worker run on an attempt that was already run.      *)
RunsAreCharged ==
  \A a \in 1 .. MaxAttempts :
    Cardinality({w \in DOMAIN workers : workers[w].attempt = a /\ Executed(w)})
      <= 1 + Cardinality({g \in grants : g.attempt = a})

(* One control plane grants one recovery over all attempts of the issue, and so  *)
(* does one edit of the issue, one rejected patch and one refused worker.       *)
OneGrantPerCause ==
  \A g, h \in grants : g.reason = h.reason /\ g.key = h.key => g = h

(* While the pull request is open no bootstrap worker runs but the one that      *)
(* opened it, whose run may still go on when a later session adopts the pull    *)
(* request: whatever failure it reports, published material ends the bootstrap. *)
MaterialEndsBootstrap ==
  pr \in {"open", "handed"} =>
    \A w \in DOMAIN workers : workers[w].status = "running" => w = prOf

(* The attempts on record never fall, not even when a recovery subtracts one    *)
(* and lets the reservation add it again, and never grow by more than one.     *)
AttemptsNeverFall ==
  [][lease.attempts <= lease'.attempts /\ lease'.attempts <= lease.attempts + 1]_vars

(* Every session that starts ends: no retry loop and no wait is endless while   *)
(* its worker makes progress.                                                 *)
SessionEnds == pc = "guard" ~> pc = "idle"

=============================================================================
