------------------------- MODULE BootstrapLease_proofs --------------------------
(***************************************************************************)
(* Type correctness of the bootstrap, and what a session knows of the lease: *)
(* no sequence of sessions, crashes, late workers, releases of the control   *)
(* plane and edits of the issue charges more attempts than allowed, or makes  *)
(* the lease drift under the session that holds it; and two initial workers   *)
(* never run together, nor one beside the pull request that another opened,   *)
(* nor more often than the attempts and the grants on record pay for.          *)
(***************************************************************************)
EXTENDS BootstrapLease, FiniteSetTheorems, TLAPS

(* The type invariant by groups of variables.                                *)

WorldOK ==
  /\ head \in 1 .. MaxHead /\ contract \in 1 .. MaxContract
  /\ queued \in 0 .. MaxHead
LeaseOK == lease \in Lease /\ lease.worker <= Len(workers)
WorkersOK ==
  /\ workers \in Seq(Worker)
  /\ pr \in {"none", "open", "handed", "closed"} /\ prOf \in 0 .. Len(workers)
SessionOK == session \in Session /\ pc \in Steps /\ session.worker <= Len(workers)
HistoryOK ==
  /\ nonces \in Nat
  /\ grants \subseteq [attempt : Nat, reason : Rearms \cup {"grant"}, nonce : Nat, key : Nat]

\* The groups make up the invariant.
LEMMA TypeGroups == TypeOK <=> WorldOK /\ LeaseOK /\ WorkersOK /\ SessionOK /\ HistoryOK
BY DEF TypeOK, WorldOK, LeaseOK, WorkersOK, SessionOK, HistoryOK

\* The groups make up the invariant in the next state too.
LEMMA TypeGroupsNext ==
  WorldOK' /\ LeaseOK' /\ WorkersOK' /\ SessionOK' /\ HistoryOK' => TypeOK'
BY DEF TypeOK, WorldOK, LeaseOK, WorkersOK, SessionOK, HistoryOK

\* A group whose variables do not change stays well typed.
LEMMA UnchangedGroups ==
  /\ WorldOK /\ UNCHANGED world => WorldOK'
  /\ LeaseOK /\ UNCHANGED <<lease, workers>> => LeaseOK'
  /\ WorkersOK /\ UNCHANGED <<workers, pr, prOf>> => WorkersOK'
  /\ SessionOK /\ UNCHANGED <<session, pc, workers>> => SessionOK'
  /\ HistoryOK /\ UNCHANGED <<nonces, grants>> => HistoryOK'
BY DEF world, WorldOK, LeaseOK, WorkersOK, SessionOK, HistoryOK

-----------------------------------------------------------------------------
(* The helpers.                                                              *)

\* The empty records belong to their types.
LEMMA EmptyTypes ==
  /\ NoFailure \in Failure /\ NoLease \in Lease /\ NoSession \in Session
  /\ LegacyWorker \in Worker /\ LegacyLease \in Lease /\ LegacyEscalation \in Lease
<1>1. 0 \in 0 .. MaxAttempts /\ 1 \in 0 .. MaxAttempts
  BY MaxAttemptsAssumption
<1>2. NoFailure \in Failure
  BY DEF NoFailure, Failure
<1>3. NoLease \in Lease
  BY <1>1, <1>2 DEF NoLease, Lease, Statuses
<1>4. NoSession \in Session
  BY DEF NoSession, Session
<1>5. LegacyWorker \in Worker
  BY DEF LegacyWorker, Worker, Outcomes, NotExecuted
<1>6. LegacyLease \in Lease
  BY <1>1, <1>2, <1>3 DEF LegacyLease, NoLease, Lease, Statuses
<1>7. [attempt |-> 1, worker |-> 1, kind |-> "mismatch"] \in Failure
  BY DEF Failure, Outcomes, NotExecuted
<1>8. LegacyEscalation \in Lease
  BY <1>6, <1>7 DEF LegacyEscalation, Lease, Statuses
<1> QED
  BY <1>2, <1>3, <1>4, <1>5, <1>6, <1>8

\* What the initial leases and an ended session say.
LEMMA EmptyFields ==
  /\ NoSession.worker = 0 /\ NoLease.worker = 0 /\ NoLease.status = "none"
  /\ \A l \in {LegacyLease, LegacyEscalation} : l.worker = 1 /\ l.attempts = 1
<1>1. NoSession.worker = 0 /\ NoLease.worker = 0 /\ NoLease.status = "none"
  BY DEF NoSession, NoLease
<1>2. LegacyLease.worker = 1 /\ LegacyLease.attempts = 1
  BY EmptyTypes DEF LegacyLease, Lease
<1>3. LegacyEscalation.worker = 1 /\ LegacyEscalation.attempts = 1
  BY <1>2, EmptyTypes DEF LegacyEscalation, Lease
<1> QED
  BY <1>1, <1>2, <1>3

\* The worker that the guard recovers is one that was dispatched, or none.
LEMMA RecoveredKnown ==
  ASSUME LeaseOK, WorkersOK
  PROVE  Recovered \in 0 .. Len(workers)
<1>1. Len(workers) \in Nat /\ DOMAIN workers = 1 .. Len(workers)
  BY DEF WorkersOK
<1>2. lease.worker \in Nat /\ lease.worker <= Len(workers)
  BY DEF LeaseOK, Lease
<1>3. CASE Listed(lease.nonce) # {} /\ lease.worker = 0
  <2>1. (CHOOSE w \in Listed(lease.nonce) : TRUE) \in Listed(lease.nonce)
    BY <1>3
  <2>2. Listed(lease.nonce) \subseteq 1 .. Len(workers)
    BY <1>1 DEF Listed, Carrying
  <2> QED
    BY <1>1, <1>3, <2>1, <2>2 DEF Recovered
<1> QED
  BY <1>1, <1>2, <1>3 DEF Recovered

\* Writing the state of one worker keeps the sequence of workers well typed,
\* and everything but the status and the outcome of that worker.
LEMMA SetWorkerType ==
  ASSUME WorkersOK, NEW w \in DOMAIN workers, NEW s, NEW o,
         s \in {"posted", "queued", "checked", "running", "done"},
         o \in Outcomes \cup {"none"}, SetWorker(w, s, o)
  PROVE  /\ workers' \in Seq(Worker) /\ Len(workers') = Len(workers)
         /\ DOMAIN workers' = DOMAIN workers
         /\ \A v \in DOMAIN workers :
              /\ v # w => workers'[v] = workers[v]
              /\ workers'[v].nonce = workers[v].nonce
              /\ workers'[v].run = workers[v].run
              /\ workers'[v].attempt = workers[v].attempt
         /\ workers'[w].status = s /\ workers'[w].outcome = o
<1> DEFINE e == [workers[w] EXCEPT !.status = s, !.outcome = o]
<1>1. workers \in Seq(Worker) /\ w \in 1 .. Len(workers) /\ workers[w] \in Worker
  BY DEF WorkersOK
<1>2. e \in Worker
  BY <1>1 DEF Worker
<1>3. workers' = [workers EXCEPT ![w] = e]
  BY <1>1 DEF SetWorker, Worker
<1>4. e.nonce = workers[w].nonce /\ e.run = workers[w].run /\ e.attempt = workers[w].attempt
      /\ e.status = s /\ e.outcome = o
  BY <1>1 DEF Worker
<1> HIDE DEF e
<1>5. workers' \in Seq(Worker) /\ Len(workers') = Len(workers)
  BY <1>1, <1>2, <1>3
<1>6. DOMAIN workers' = DOMAIN workers /\ \A v \in DOMAIN workers : v # w => workers'[v] = workers[v]
  BY <1>1, <1>3
<1>7. workers'[w] = e
  BY <1>1, <1>3
<1> QED
  BY <1>1, <1>4, <1>5, <1>6, <1>7

\* A session that ends holds nothing.
LEMMA SessionEndType == ASSUME SessionOK, SessionEnd, UNCHANGED workers PROVE SessionOK'
<1>1. session' = [NoSession EXCEPT !.id = session.id]
  BY DEF SessionEnd
<1>2. session.id \in Nat
  BY DEF SessionOK, Session
<1>3. session' \in Session /\ session'.worker = 0
  BY <1>1, <1>2 DEF NoSession, Session
<1>4. Len(workers) >= 0 /\ pc' = "idle"
  BY DEF SessionEnd, SessionOK, Session
<1> QED
  BY <1>3, <1>4 DEF SessionOK, Steps

-----------------------------------------------------------------------------
(* The inductive invariant: what a session knows of the lease.                *)

(* A lease that exists has charged an attempt, which a grant may subtract.     *)
LeaseIsCharged == lease.status # "none" => lease.attempts >= 1

(* The reservation starts from the attempts of the lease, or, to run the last  *)
(* one again, from one less.                                                  *)
PriorIsOfLease ==
  pc = "reserve" => \/ session.prior = lease.attempts
                    \/ session.prior + 1 = lease.attempts

(* A session that waits, or classifies, knows its worker.                     *)
WorkerIsKnown == pc \in {"wait", "retry"} => session.worker # 0

SessionInv == TypeOK /\ SessionHoldsLease /\ LeaseIsCharged /\ PriorIsOfLease /\ WorkerIsKnown

\* The parts other than the types speak of the session, the step and the lease only.
LEMMA SessionInvUnchanged ==
  ASSUME SessionInv, TypeOK', UNCHANGED <<lease, session, pc>>
  PROVE  SessionInv'
BY DEF SessionInv, SessionHoldsLease, LeaseIsCharged, PriorIsOfLease, WorkerIsKnown

\* The invariant holds initially.
LEMMA SessionInvInit == Init => SessionInv
<1> SUFFICES ASSUME Init PROVE SessionInv
  OBVIOUS
<1> DEFINE Fresh == lease = NoLease /\ workers = <<>>
           Legacy == lease \in {LegacyLease, LegacyEscalation} /\ workers = <<LegacyWorker>>
<1>1. (Fresh \/ Legacy) /\ nonces \in Nat
  BY DEF Init
<1>2. workers \in Seq(Worker) /\ Len(workers) \in Nat /\ (Legacy => Len(workers) = 1)
  <2>1. <<>> \in Seq(Worker) /\ <<LegacyWorker>> \in Seq(Worker) /\ Len(<<LegacyWorker>>) = 1
    BY EmptyTypes
  <2>2. workers \in Seq(Worker)
    BY <1>1, <2>1
  <2>3. Legacy => Len(workers) = 1
    BY <2>1
  <2> QED
    BY <2>2, <2>3
<1>3. lease \in Lease /\ lease.worker <= Len(workers)
  <2>1. CASE Fresh
    <3>1. lease \in Lease /\ lease.worker = 0
      BY <2>1, EmptyTypes, EmptyFields
    <3> QED
      BY <1>2, <3>1
  <2>2. CASE Legacy
    <3>1. lease \in Lease /\ lease.worker = 1
      BY <2>2, EmptyTypes, EmptyFields
    <3> QED
      BY <1>2, <2>2, <3>1
  <2> QED
    BY <1>1, <2>1, <2>2
<1>4. LeaseIsCharged
  BY <1>1, EmptyFields DEF LeaseIsCharged
<1> HIDE DEF Fresh, Legacy
<1>5. WorldOK /\ HistoryOK /\ pr = "none" /\ prOf = 0
  BY <1>1, EnvironmentAssumption DEF Init, WorldOK, HistoryOK
<1>6. session \in Session /\ session.worker = 0 /\ pc = "idle"
  BY EmptyTypes, EmptyFields DEF Init
<1>7. TypeOK
  BY <1>2, <1>3, <1>5, <1>6, TypeGroups DEF LeaseOK, WorkersOK, SessionOK, Steps
<1> QED
  BY <1>4, <1>6, <1>7 DEF SessionInv, SessionHoldsLease, PriorIsOfLease, WorkerIsKnown

-----------------------------------------------------------------------------
(* Around the sessions.                                                      *)

\* A release, an edit, a closed pull request, a dispatch.
LEMMA EnvironmentInv ==
  ASSUME SessionInv, AdvanceControlPlane \/ EditIssue \/ ClosePullRequest \/ Trigger
  PROVE  SessionInv'
<1>1. WorldOK' /\ UNCHANGED <<lease, workers, prOf, session, pc, nonces, grants>>
      /\ pr' \in {pr, "closed"}
  <2> USE EnvironmentAssumption DEF SessionInv, TypeOK, WorldOK
  <2>1. CASE AdvanceControlPlane
    BY <2>1 DEF AdvanceControlPlane
  <2>2. CASE EditIssue
    BY <2>2 DEF EditIssue
  <2>3. CASE ClosePullRequest
    BY <2>3 DEF ClosePullRequest, world
  <2>4. CASE Trigger
    BY <2>4 DEF Trigger
  <2> QED
    BY <2>1, <2>2, <2>3, <2>4
<1>2. TypeOK'
  BY <1>1, TypeGroupsNext DEF SessionInv, TypeOK, WorldOK, LeaseOK, WorkersOK, SessionOK, HistoryOK
<1> QED
  BY <1>1, <1>2, SessionInvUnchanged

\* A session starts and knows nothing.
LEMMA StartRunInv ==
  ASSUME SessionInv, NEW b \in BOOLEAN, StartRun(b)
  PROVE  SessionInv'
<1>1. session.id \in Nat /\ queued \in Nat /\ head \in Nat
  BY EnvironmentAssumption DEF SessionInv, TypeOK, Session
<1>2. session' = [NoSession EXCEPT !.id = session.id + 1, !.sha = queued,
                                   !.head = head, !.scopeFixed = b]
  BY DEF StartRun
<1>3. session' \in Session /\ session'.worker = 0
  <2>1. NoSession \in Session /\ session.id + 1 \in Nat
    BY <1>1, EmptyTypes
  <2> DEFINE n == [NoSession EXCEPT !.id = session.id + 1, !.sha = queued,
                                    !.head = head, !.scopeFixed = b]
  <2>2. n \in Session /\ n.worker = NoSession.worker
    BY <1>1, <2>1 DEF Session
  <2>3. session' = n
    BY <1>2
  <2> HIDE DEF n
  <2> QED
    BY <2>2, <2>3, EmptyFields
<1>4. /\ UNCHANGED <<head, contract, lease, workers, pr, prOf, nonces, grants>>
      /\ queued' = 0 /\ pc' = "guard"
  BY DEF StartRun
<1>5. SessionOK'
  BY <1>3, <1>4 DEF SessionInv, TypeOK, SessionOK, Steps
<1>6. TypeOK'
  BY <1>4, <1>5, EnvironmentAssumption, TypeGroups, TypeGroupsNext, UnchangedGroups
  DEF SessionInv, WorldOK
<1> QED
  BY <1>4, <1>6 DEF SessionInv, SessionHoldsLease, LeaseIsCharged, PriorIsOfLease, WorkerIsKnown

\* The workers write nothing of the lease.
LEMMA WorkerInv ==
  ASSUME SessionInv, NEW w \in DOMAIN workers, WorkerStep(w)
  PROVE  SessionInv'
<1>1. WorkersOK
  BY TypeGroups DEF SessionInv
<1>2. \/ \E s \in {"queued", "checked", "running", "done"}, o \in Outcomes \cup {"none"} :
            SetWorker(w, s, o)
      \/ UNCHANGED workers
  <2>1. CASE \E o \in Endings : Finish(w, o)
    BY <2>1 DEF Finish, Outcomes
  <2>2. CASE Appear(w) \/ CheckController(w) \/ CheckLease(w) \/ NeverStart(w)
    BY <2>2 DEF Appear, CheckController, CheckLease, NeverStart, Outcomes, NotExecuted
  <2>3. CASE Publish(w)
    BY <2>3 DEF Publish
  <2> QED
    BY <2>1, <2>2, <2>3 DEF WorkerStep
<1>3. workers' \in Seq(Worker) /\ Len(workers') = Len(workers)
  BY <1>1, <1>2, SetWorkerType DEF WorkersOK
<1>4. UNCHANGED <<world, lease, session, pc, nonces, grants>>
      /\ (UNCHANGED <<pr, prOf>> \/ (pr' = "open" /\ prOf' = w))
  BY DEF WorkerStep, Appear, CheckController, CheckLease, NeverStart, Publish, Finish
<1>5. w \in 0 .. Len(workers)
  BY <1>1 DEF WorkersOK
<1>6. TypeOK'
  BY <1>3, <1>4, <1>5, TypeGroupsNext
  DEF SessionInv, TypeOK, WorldOK, LeaseOK, WorkersOK, SessionOK, HistoryOK, world
<1> QED
  BY <1>4, <1>6, SessionInvUnchanged

-----------------------------------------------------------------------------
(* The decisions of the guard.                                               *)

\* Every decision is made in one of these ways.
LEMMA DecisionCases ==
  ASSUME TypeOK
  PROVE  \/ Decision \in {"resume", "refuse", "adopt"}
         \/ Decision = "recover" /\ lease.status = "reserved" /\ Recovered # 0
         \/ Decision = "new" /\ lease.status = "none"
         \/ Decision \in {"grant", "stop"} /\ lease.status = "exhausted"
         \/ Decision \in {"rearm-scope", "rearm-legacy", "stop"} /\ lease.status = "nonrecoverable"
         \/ Decision = DecideReserved /\ lease.status = "reserved"
<1>1. pr \in {"none", "open", "handed", "closed"}
      /\ lease.status \in {"none", "reserved", "exhausted", "nonrecoverable"}
  BY DEF TypeOK, Lease, Statuses
<1>2. CASE pr = "handed"
  BY <1>2 DEF Decision
<1>3. CASE pr # "handed" /\ Ambiguous
  BY <1>3 DEF Decision
<1>4. CASE pr = "open" /\ ~Ambiguous
  BY <1>4 DEF Decision
<1>5. CASE pr \in {"none", "closed"} /\ ~Ambiguous
  <2>1. Decision = DecideWithoutPullRequest
    BY <1>5 DEF Decision
  <2>2. CASE lease.status = "none"
    BY <2>1, <2>2 DEF DecideWithoutPullRequest
  <2>3. CASE lease.status = "exhausted"
    BY <2>1, <2>3 DEF DecideWithoutPullRequest
  <2>4. CASE lease.status = "nonrecoverable"
    BY <2>1, <2>4 DEF DecideWithoutPullRequest
  <2>5. CASE lease.status = "reserved"
    BY <2>1, <2>5 DEF DecideWithoutPullRequest
  <2> QED
    BY <1>1, <2>2, <2>3, <2>4, <2>5
<1> QED
  BY <1>1, <1>2, <1>3, <1>4, <1>5

\* The decisions on a reserved lease.
LEMMA ReservedCases ==
  \/ DecideReserved = "retry"
  \/ DecideReserved \in {"exhaust", "stop"}
  \/ DecideReserved = "reuse" /\ Recovered = 0
  \/ DecideReserved = "recover" /\ Recovered # 0
  \/ DecideReserved \in {"rearm-contract", "grant"} /\ Recovered # 0 /\ Succeeded(Recovered)
<1>1. DecideAfterFailure("retry") \in {"retry", "exhaust", "stop"}
  BY DEF DecideAfterFailure
<1> QED
  BY <1>1 DEF DecideReserved

\* What is written back, subtracted from or used again is a lease that was there.
LEMMA DecisionReadLease ==
  ASSUME TypeOK
  PROVE  /\ Decision \in Rearms \cup {"exhaust", "grant"} => lease.status # "none"
         /\ Decision \in {"reuse", "recover"} => lease.status = "reserved"
         /\ Decision = "recover" => Recovered # 0
BY DecisionCases, ReservedCases DEF Rearms

\* The numbers of a well-typed state.
LEMMA Numbers ==
  ASSUME TypeOK
  PROVE  /\ Recovered \in Nat /\ Recovered <= Len(workers) /\ Len(workers) \in Nat
         /\ contract \in Nat /\ nonces \in Nat /\ session.head \in Nat /\ session.id \in Nat
         /\ lease.attempts \in Nat /\ lease.attempts <= MaxAttempts /\ MaxAttempts \in Nat
<1>1. LeaseOK /\ WorkersOK
  BY TypeGroups
<1>2. Recovered \in 0 .. Len(workers) /\ Len(workers) \in Nat
  BY <1>1, RecoveredKnown DEF WorkersOK
<1> QED
  BY <1>2, MaxAttemptsAssumption, EnvironmentAssumption DEF TypeOK, Lease, Session

\* A new dispatch on the attempt already charged is reserved, for nobody yet.
LEMMA RearmedType ==
  ASSUME TypeOK, NEW d
  PROVE  /\ Rearmed(d) \in Lease /\ Rearmed(d).worker = 0 /\ Rearmed(d).status = "reserved"
         /\ Rearmed(d).attempts = lease.attempts /\ Rearmed(d).nonce = nonces + 1
<1>1. lease \in Lease /\ NoFailure \in Failure
  BY EmptyTypes DEF TypeOK
<1> DEFINE r == IF d = "rearm-scope" THEN 0 ELSE session.head
           f == IF d = "rearm-contract" THEN lease.failure ELSE NoFailure
           c == IF d = "rearm-legacy" THEN lease.contract ELSE contract
<1>2. r \in Nat /\ f \in Failure /\ c \in Nat
  BY <1>1, Numbers DEF Lease
<1>3. Rearmed(d) = [lease EXCEPT !.status = "reserved", !.run = session.id,
                      !.head = session.head, !.worker = 0, !.nonce = nonces + 1,
                      !.contract = c, !.recovery = r, !.failure = f]
  BY <1>1 DEF Rearmed, Lease
<1> HIDE DEF r, f, c
<1>4. session.id \in Nat /\ session.head \in Nat /\ contract \in Nat /\ nonces + 1 \in Nat
  BY Numbers
<1>5. Rearmed(d) \in Lease
  <2> DEFINE k == [lease EXCEPT !.status = "reserved", !.run = session.id,
                                !.head = session.head, !.worker = 0]
  <2>1. lease \in Lease
    BY <1>1
  <2>2. k \in Lease
    BY <1>4, <2>1 DEF Lease, Statuses
  <2>3. Rearmed(d) = [k EXCEPT !.nonce = nonces + 1, !.contract = c, !.recovery = r,
                               !.failure = f]
    BY <1>3
  <2> HIDE DEF k
  <2> QED
    BY <1>2, <1>4, <2>2, <2>3 DEF Lease
<1>6. Rearmed(d).worker = 0 /\ Rearmed(d).status = "reserved"
      /\ Rearmed(d).attempts = lease.attempts /\ Rearmed(d).nonce = nonces + 1
  BY <1>1, <1>3 DEF Lease
<1> QED
  BY <1>5, <1>6

\* An exhausted lease keeps its attempts and names a worker that exists.
LEMMA ExhaustedType ==
  ASSUME TypeOK
  PROVE  /\ ExhaustedLease \in Lease /\ ExhaustedLease.attempts = lease.attempts
         /\ ExhaustedLease.worker <= Len(workers) /\ ExhaustedLease.status = "exhausted"
<1>1. lease \in Lease /\ lease.worker <= Len(workers)
  BY DEF TypeOK
<1> DEFINE w == IF Recovered # 0 THEN Recovered ELSE lease.worker
<1>2. w \in Nat /\ w <= Len(workers) /\ PreviousHead \in Nat /\ Resumable \in BOOLEAN
  BY <1>1, Numbers DEF Lease, PreviousHead, Resumable
<1>3. ExhaustedLease = [lease EXCEPT !.status = "exhausted", !.head = PreviousHead,
                                     !.worker = w, !.resumable = Resumable]
  BY <1>1 DEF ExhaustedLease, Lease
<1> HIDE DEF w
<1> QED
  BY <1>1, <1>2, <1>3 DEF Lease, Statuses

\* A grant is well typed.
LEMMA GrantType ==
  ASSUME TypeOK, NEW d \in Rearms \cup {"grant"}
  PROVE  GrantOf(d) \in [attempt : Nat, reason : Rearms \cup {"grant"}, nonce : Nat, key : Nat]
BY Numbers DEF GrantOf

\* What the guard writes is well typed, and charges nothing.
LEMMA PersistMutationType ==
  ASSUME SessionInv, PersistMutation(Decision), UNCHANGED workers
  PROVE  /\ LeaseOK' /\ HistoryOK' /\ pr' \in {"none", "open", "handed", "closed"}
         /\ lease'.attempts = lease.attempts /\ LeaseIsCharged'
         /\ Decision \in Rearms => lease'.status = "reserved" /\ lease'.worker = 0
         /\ Decision \notin Rearms \cup {"exhaust"} => lease' = lease
<1>1. TypeOK /\ lease \in Lease /\ lease.worker <= Len(workers) /\ LeaseIsCharged
  BY DEF SessionInv, TypeOK
<1>2. nonces' \in Nat /\ pr' \in {"none", "open", "handed", "closed"}
  BY <1>1 DEF TypeOK, PersistMutation
<1>3. HistoryOK'
  BY <1>1, <1>2, GrantType DEF PersistMutation, HistoryOK, TypeOK
<1>4. CASE Decision \in Rearms
  <2>1. lease' = Rearmed(Decision)
    BY <1>4 DEF PersistMutation, Rearms
  <2> QED
    <3>1. lease' \in Lease /\ lease'.worker = 0 /\ lease'.status = "reserved"
          /\ lease'.attempts = lease.attempts
      BY <1>1, <2>1, RearmedType
    <3>2. lease.attempts >= 1
      BY <1>1, <1>4, DecisionReadLease DEF LeaseIsCharged
    <3>3. 0 <= Len(workers)
      BY <1>1, Numbers
    <3>4. LeaseOK' /\ LeaseIsCharged'
      BY <3>1, <3>2, <3>3 DEF LeaseOK, LeaseIsCharged
    <3> QED
      BY <1>2, <1>3, <1>4, <3>1, <3>4
<1>5. CASE Decision = "exhaust"
  <2>1. lease' = ExhaustedLease /\ Decision \notin Rearms
    BY <1>5 DEF PersistMutation, Rearms
  <2> QED
    BY <1>1, <1>2, <1>3, <1>5, <2>1, ExhaustedType, DecisionReadLease DEF LeaseOK, LeaseIsCharged
<1>6. CASE Decision \notin Rearms \cup {"exhaust"}
  <2>1. lease' = lease
    BY <1>6 DEF PersistMutation
  <2> QED
    BY <1>1, <1>2, <1>3, <1>6, <2>1 DEF LeaseOK, LeaseIsCharged
<1> QED
  BY <1>4, <1>5, <1>6

-----------------------------------------------------------------------------
(* The steps of a session.                                                   *)

\* A session that ends leaves nothing to hold.
LEMMA SessionEndInv ==
  ASSUME SessionInv, SessionEnd, UNCHANGED <<world, workers, prOf>>,
         LeaseOK', HistoryOK', LeaseIsCharged', pr' \in {"none", "open", "handed", "closed"}
  PROVE  SessionInv'
<1>1. SessionOK'
  BY SessionEndType, TypeGroups DEF SessionInv
<1>2. WorldOK' /\ WorkersOK'
  BY TypeGroups, UnchangedGroups DEF SessionInv, WorkersOK
<1>3. TypeOK'
  BY <1>1, <1>2, TypeGroupsNext
<1>4. pc' = "idle"
  BY DEF SessionEnd
<1> QED
  BY <1>3, <1>4 DEF SessionInv, SessionHoldsLease, PriorIsOfLease, WorkerIsKnown

\* A session that gives up goes to the finalizer, with nothing to hold either.
LEMMA ToFinalizerInv ==
  ASSUME SessionInv, pc' = "finalize", UNCHANGED <<world, workers, pr, prOf, session>>,
         LeaseOK', HistoryOK', LeaseIsCharged'
  PROVE  SessionInv'
<1>1. SessionOK' /\ WorldOK' /\ WorkersOK'
  BY TypeGroups, UnchangedGroups DEF SessionInv, SessionOK, WorkersOK, Steps
<1>2. TypeOK'
  BY <1>1, TypeGroupsNext
<1> QED
  BY <1>2 DEF SessionInv, SessionHoldsLease, PriorIsOfLease, WorkerIsKnown

\* The guard stops, or the finalizer runs it once more.
LEMMA GuardEndsInv ==
  ASSUME SessionInv, GuardStops \/ Finalize
  PROVE  SessionInv'
<1>1. PersistMutation(Decision) /\ SessionEnd /\ UNCHANGED <<world, workers, prOf>>
  BY DEF GuardStops, Finalize
<1> QED
  BY <1>1, PersistMutationType, SessionEndInv

\* The session dies, or there is nothing to do, or it hands over.
LEMMA QuietEndsInv ==
  ASSUME SessionInv, NeedsScope \/ HandOver \/ Crash
  PROVE  SessionInv'
<1>1. SessionEnd /\ UNCHANGED <<world, lease, workers, prOf, nonces, grants>>
      /\ pr' \in {"none", "open", "handed", "closed"}
  BY DEF SessionInv, TypeOK, NeedsScope, HandOver, Crash
<1>2. LeaseOK' /\ HistoryOK' /\ LeaseIsCharged'
  BY <1>1, TypeGroups, UnchangedGroups DEF SessionInv, LeaseIsCharged
<1> QED
  BY <1>1, <1>2, SessionEndInv

\* The steps that only give up.
LEMMA GivesUpInv ==
  ASSUME SessionInv,
         ReserveRefused \/ CorrelateAmbiguous \/ BudgetExhausted \/ TimeOut \/ Fail
  PROVE  SessionInv'
<1>1. pc' = "finalize" /\ UNCHANGED <<world, lease, workers, pr, prOf, session, nonces, grants>>
  BY DEF ReserveRefused, CorrelateAmbiguous, BudgetExhausted, TimeOut, Fail
<1>2. LeaseOK' /\ HistoryOK' /\ LeaseIsCharged'
  BY <1>1, TypeGroups, UnchangedGroups DEF SessionInv, LeaseIsCharged
<1> QED
  BY <1>1, <1>2, ToFinalizerInv

\* The guard asks for a reservation.
LEMMA GuardReservesInv ==
  ASSUME SessionInv, GuardReserves
  PROVE  SessionInv'
<1> DEFINE p == IF Decision = "grant" THEN lease.attempts - 1 ELSE lease.attempts
<1>1. TypeOK /\ Decision \in {"new", "retry", "grant"} /\ lease.attempts \in Nat
  BY Numbers DEF GuardReserves, SessionInv
<1>2. Decision = "grant" => lease.attempts >= 1
  BY <1>1, DecisionReadLease DEF SessionInv, LeaseIsCharged
<1>3. p \in Nat /\ (p = lease.attempts \/ p + 1 = lease.attempts)
  BY <1>1, <1>2
<1>4. session' = [session EXCEPT !.prior = p] /\ pc' = "reserve"
      /\ UNCHANGED <<world, lease, workers, pr, prOf, nonces, grants>>
  BY DEF GuardReserves
<1> HIDE DEF p
<1>5. session' \in Session /\ session'.prior = p /\ session'.worker = session.worker
  BY <1>1, <1>3, <1>4 DEF TypeOK, Session
<1>6. SessionOK'
  BY <1>1, <1>4, <1>5 DEF TypeOK, SessionOK, Steps
<1>7. TypeOK'
  BY <1>1, <1>4, <1>6, TypeGroups, TypeGroupsNext, UnchangedGroups
<1> QED
  BY <1>3, <1>4, <1>5, <1>7
  DEF SessionInv, SessionHoldsLease, LeaseIsCharged, PriorIsOfLease, WorkerIsKnown

\* The guard hands an attempt that is charged to the controller.
LEMMA GuardHandsOnInv ==
  ASSUME SessionInv, GuardReuses \/ GuardRecovers
  PROVE  SessionInv'
<1>1. TypeOK
  BY DEF SessionInv
<1>2. /\ UNCHANGED <<world, workers, prOf>> /\ pc' = "start"
      /\ LeaseOK' /\ HistoryOK' /\ LeaseIsCharged' /\ lease'.status = "reserved"
      /\ pr' \in {"none", "open", "handed", "closed"}
  <2>1. CASE GuardReuses
    BY <1>1, <2>1, PersistMutationType, DecisionReadLease DEF GuardReuses, Rearms
  <2>2. CASE GuardRecovers
    <3>1. Decision = "recover" /\ UNCHANGED <<world, workers, prOf, lease, pr, nonces, grants>>
          /\ pc' = "start"
      BY <2>2 DEF GuardRecovers
    <3>2. lease.status = "reserved"
      BY <1>1, <3>1, DecisionReadLease
    <3> QED
      BY <1>1, <3>1, <3>2, TypeGroups, UnchangedGroups DEF SessionInv, LeaseIsCharged, TypeOK
  <2> QED
    BY <2>1, <2>2
<1>3. lease'.attempts \in Nat /\ lease'.nonce \in Nat
  BY <1>2, MaxAttemptsAssumption DEF LeaseOK, Lease
<1>4. \E w \in Nat : /\ w <= Len(workers)
                     /\ session' = [session EXCEPT !.attempt = lease'.attempts,
                                                   !.nonce = lease'.nonce, !.worker = w]
  <2>1. CASE GuardReuses
    <3>1. session' = [session EXCEPT !.attempt = lease'.attempts, !.nonce = lease'.nonce]
      BY <2>1 DEF GuardReuses
    <3>2. session \in Session /\ session.worker \in Nat /\ session.worker <= Len(workers)
      BY <1>1 DEF TypeOK, Session
    <3>3. session' = [session EXCEPT !.attempt = lease'.attempts,
                        !.nonce = lease'.nonce, !.worker = session.worker]
      BY <3>1, <3>2 DEF Session
    <3> QED
      BY <3>2, <3>3
  <2>2. CASE GuardRecovers
    <3>1. session' = [session EXCEPT !.attempt = lease'.attempts, !.nonce = lease'.nonce,
                                     !.worker = Recovered]
      BY <2>2 DEF GuardRecovers
    <3> QED
      BY <1>1, <3>1, Numbers
  <2> QED
    BY <2>1, <2>2
<1>5. PICK w \in Nat : /\ w <= Len(workers)
                       /\ session' = [session EXCEPT !.attempt = lease'.attempts,
                                                     !.nonce = lease'.nonce, !.worker = w]
  BY <1>4
<1>6. session' \in Session /\ session'.worker = w
      /\ session'.attempt = lease'.attempts /\ session'.nonce = lease'.nonce
  BY <1>1, <1>3, <1>5 DEF TypeOK, Session
<1>7. SessionOK'
  BY <1>2, <1>5, <1>6 DEF SessionOK, Steps
<1>8. WorldOK' /\ WorkersOK'
  BY <1>1, <1>2, TypeGroups, UnchangedGroups DEF WorkersOK
<1>9. TypeOK'
  BY <1>2, <1>7, <1>8, TypeGroupsNext
<1> QED
  BY <1>2, <1>6, <1>9 DEF SessionInv, SessionHoldsLease, PriorIsOfLease, WorkerIsKnown

\* The reservation writes a lease of its own.
LEMMA ReserveInv ==
  ASSUME SessionInv, Reserve
  PROVE  SessionInv'
<1>1. TypeOK /\ session \in Session /\ session.prior \in Nat /\ session.worker <= Len(workers)
  BY DEF SessionInv, TypeOK, Session
<1> DEFINE r == IF RecoveryGranted THEN session.head ELSE 0
           l == [NoLease EXCEPT !.status = "reserved", !.attempts = session.prior + 1,
                                !.run = session.id, !.head = session.head]
<1>2. r \in Nat /\ session.prior + 1 \in 0 .. MaxAttempts /\ session.prior + 1 >= 1
  BY <1>1, Numbers DEF Reserve, CanReserve
<1>3. NoLease \in Lease /\ NoLease.worker = 0
  BY EmptyTypes, EmptyFields
<1>4. session.id \in Nat /\ session.head \in Nat /\ contract \in Nat /\ nonces + 1 \in Nat
  BY <1>1, Numbers
<1>5. l \in Lease /\ l.worker = 0 /\ l.status = "reserved" /\ l.attempts = session.prior + 1
  BY <1>2, <1>3, <1>4 DEF Lease, Statuses
<1>6. lease' = [l EXCEPT !.nonce = nonces + 1, !.contract = contract, !.recovery = r]
  BY DEF Reserve
<1> HIDE DEF l, r
<1>7. lease' \in Lease /\ lease'.worker = 0 /\ lease'.status = "reserved"
      /\ lease'.attempts = session.prior + 1 /\ lease'.nonce = nonces + 1
  BY <1>2, <1>4, <1>5, <1>6 DEF Lease
<1>8. session' = [session EXCEPT !.attempt = session.prior + 1, !.nonce = nonces + 1]
      /\ UNCHANGED <<world, workers, pr, prOf>> /\ pc' = "start"
  BY DEF Reserve
<1>9. session' \in Session /\ session'.attempt = session.prior + 1
      /\ session'.nonce = nonces + 1 /\ session'.worker = session.worker
  <2>1. session \in Session /\ session.prior + 1 \in Nat /\ nonces + 1 \in Nat
    BY <1>1, <1>4
  <2>2. session' = [session EXCEPT !.attempt = session.prior + 1, !.nonce = nonces + 1]
    BY <1>8
  <2> QED
    BY <2>1, <2>2 DEF Session
<1>10. HistoryOK'
  BY <1>1, <1>4, GrantType DEF Reserve, HistoryOK, TypeOK
<1>11. SessionOK' /\ LeaseOK'
  <2>1. Len(workers') = Len(workers) /\ Len(workers) \in Nat
    BY <1>1, <1>8, Numbers
  <2>2. SessionOK'
    BY <1>1, <1>8, <1>9, <2>1 DEF SessionOK, Steps
  <2>3. LeaseOK'
    BY <1>7, <2>1 DEF LeaseOK
  <2> QED
    BY <2>2, <2>3
<1>12. TypeOK'
  BY <1>1, <1>8, <1>10, <1>11, TypeGroups, TypeGroupsNext, UnchangedGroups
<1> QED
  BY <1>2, <1>7, <1>8, <1>9, <1>12
  DEF SessionInv, SessionHoldsLease, LeaseIsCharged, PriorIsOfLease, WorkerIsKnown

\* The controller that takes the lease over keeps what was charged.
LEMMA TransferredType ==
  ASSUME TypeOK
  PROVE  /\ Transferred(lease) \in Lease
         /\ Transferred(lease).worker = lease.worker /\ Transferred(lease).status = lease.status
         /\ Transferred(lease).attempts = lease.attempts /\ Transferred(lease).nonce = lease.nonce
<1>1. lease \in Lease /\ session.id \in Nat /\ session.sha \in Nat
  BY DEF TypeOK, Session
<1> QED
  BY <1>1 DEF Transferred, Lease

\* The controller starts, with a worker to recover or one to dispatch.
LEMMA StartInv ==
  ASSUME SessionInv, StartRecovered \/ StartWithAuthority
  PROVE  SessionInv'
<1>1. TypeOK /\ session \in Session /\ pc = "start"
  BY DEF SessionInv, TypeOK, StartRecovered, StartWithAuthority
<1>2. \E f \in Nat : session' = [session EXCEPT !.first = f]
  BY <1>1, Numbers DEF StartRecovered, StartWithAuthority, Session
<1>3. session' \in Session /\ session'.worker = session.worker
      /\ session'.attempt = session.attempt /\ session'.nonce = session.nonce
  BY <1>1, <1>2 DEF Session
<1>4. UNCHANGED <<world, workers, pr, prOf, nonces, grants>> /\ pc' \in {"wait", "dispatch"}
      /\ (pc' = "wait" => session.worker # 0)
  BY DEF StartRecovered, StartWithAuthority
<1>5. /\ lease' \in Lease /\ lease'.worker = lease.worker /\ lease'.status = lease.status
      /\ lease'.attempts = lease.attempts /\ lease'.nonce = lease.nonce
  <2>1. CASE StartRecovered
    BY <1>1, <2>1 DEF StartRecovered, TypeOK
  <2>2. CASE StartWithAuthority
    BY <1>1, <2>2, TransferredType DEF StartWithAuthority
  <2> QED
    BY <2>1, <2>2
<1>6. LeaseOK' /\ SessionOK'
  BY <1>1, <1>3, <1>4, <1>5 DEF TypeOK, LeaseOK, SessionOK, Steps
<1>7. TypeOK'
  BY <1>1, <1>4, <1>6, TypeGroups, TypeGroupsNext, UnchangedGroups
<1> QED
  BY <1>1, <1>3, <1>4, <1>5, <1>7
  DEF SessionInv, SessionHoldsLease, LeaseIsCharged, PriorIsOfLease, WorkerIsKnown

\* A dispatched worker is posted behind the others.
LEMMA DispatchInv ==
  ASSUME SessionInv, Dispatch
  PROVE  SessionInv'
<1> DEFINE n == [nonce |-> session.nonce, run |-> session.id, head |-> session.head,
                 attempt |-> session.attempt, status |-> "posted", outcome |-> "none"]
<1>1. TypeOK /\ session \in Session /\ workers \in Seq(Worker)
  BY DEF SessionInv, TypeOK
<1>2. n \in Worker
  BY <1>1 DEF Session, Worker
<1>3. workers' = Append(workers, n) /\ pc = "dispatch" /\ pc' = "correlate"
      /\ UNCHANGED <<world, lease, pr, prOf, session, nonces, grants>>
  BY DEF Dispatch
<1> HIDE DEF n
<1>4. workers' \in Seq(Worker) /\ Len(workers') = Len(workers) + 1 /\ Len(workers) \in Nat
  BY <1>1, <1>2, <1>3
<1>5. WorkersOK' /\ LeaseOK' /\ SessionOK'
  <2>1. /\ lease \in Lease /\ lease.worker \in Nat /\ lease.worker <= Len(workers)
        /\ session.worker \in Nat /\ session.worker <= Len(workers)
        /\ pr \in {"none", "open", "handed", "closed"} /\ prOf \in 0 .. Len(workers)
    BY <1>1 DEF TypeOK, Lease, Session
  <2>2. WorkersOK'
    BY <1>3, <1>4, <2>1 DEF WorkersOK
  <2>3. LeaseOK'
    BY <1>3, <1>4, <2>1 DEF LeaseOK
  <2>4. SessionOK'
    BY <1>1, <1>3, <1>4, <2>1 DEF SessionOK, Steps
  <2> QED
    BY <2>2, <2>3, <2>4
<1>6. TypeOK'
  BY <1>1, <1>3, <1>5, TypeGroups, TypeGroupsNext, UnchangedGroups
<1> QED
  BY <1>3, <1>6
  DEF SessionInv, SessionHoldsLease, LeaseIsCharged, PriorIsOfLease, WorkerIsKnown

\* The worker that is found is written into the lease and waited for.
LEMMA CorrelateInv ==
  ASSUME SessionInv, NEW w \in DOMAIN workers, Correlate(w)
  PROVE  SessionInv'
<1>1. TypeOK /\ session \in Session /\ lease \in Lease /\ w \in Nat /\ w <= Len(workers) /\ w # 0
  BY DEF SessionInv, TypeOK
<1>2. lease' = [lease EXCEPT !.worker = w] /\ session' = [session EXCEPT !.worker = w]
      /\ pc = "correlate" /\ pc' = "wait"
      /\ UNCHANGED <<world, workers, pr, prOf, nonces, grants>>
  BY DEF Correlate
<1>3. /\ lease' \in Lease /\ lease'.worker = w /\ lease'.status = lease.status
      /\ lease'.attempts = lease.attempts /\ lease'.nonce = lease.nonce
  BY <1>1, <1>2 DEF Lease
<1>4. session' \in Session /\ session'.worker = w
      /\ session'.attempt = session.attempt /\ session'.nonce = session.nonce
  BY <1>1, <1>2 DEF Session
<1>5. LeaseOK' /\ SessionOK'
  BY <1>1, <1>2, <1>3, <1>4 DEF LeaseOK, SessionOK, Steps
<1>6. TypeOK'
  BY <1>1, <1>2, <1>5, TypeGroups, TypeGroupsNext, UnchangedGroups
<1> QED
  BY <1>1, <1>2, <1>3, <1>4, <1>6
  DEF SessionInv, SessionHoldsLease, LeaseIsCharged, PriorIsOfLease, WorkerIsKnown

\* What a classification writes keeps the attempt and the nonce.
LEMMA RecordedType ==
  ASSUME SessionInv, pc = "wait", NEW s \in {"reserved", "nonrecoverable"}
  PROVE  /\ Recorded(s) \in Lease /\ Recorded(s).worker <= Len(workers)
         /\ Recorded(s).status = s /\ Recorded(s).attempts = lease.attempts
         /\ Recorded(s).nonce = lease.nonce
<1>1. lease \in Lease /\ workers \in Seq(Worker) /\ session \in Session
      /\ session.worker <= Len(workers)
  BY DEF SessionInv, TypeOK
<1>2. session.worker # 0 /\ session.worker \in Nat /\ session.attempt \in Nat
  BY <1>1 DEF SessionInv, WorkerIsKnown, Session
<1>3. workers[session.worker] \in Worker
  BY <1>1, <1>2
<1> DEFINE f == [attempt |-> session.attempt, worker |-> session.worker,
                 kind |-> workers[session.worker].outcome]
<1>4. f \in Failure
  BY <1>2, <1>3 DEF Failure, Worker
<1>5. Recorded(s) = [lease EXCEPT !.status = s, !.worker = session.worker, !.failure = f]
  BY DEF Recorded
<1> HIDE DEF f
<1> QED
  BY <1>1, <1>2, <1>4, <1>5 DEF Lease, Statuses

\* The session classifies how its worker ended.
LEMMA ClassifyInv ==
  ASSUME SessionInv, ObserveMaterial \/ RecordRetryable \/ RecordNoMaterial \/ RecordFailure
  PROVE  SessionInv'
<1>1. UNCHANGED <<world, workers, pr, prOf, session, nonces, grants>> /\ pc = "wait"
  BY DEF ObserveMaterial, RecordRetryable, RecordNoMaterial, RecordFailure, Ended,
         RetryableFailure
<1>2. TypeOK /\ lease \in Lease /\ lease.worker <= Len(workers) /\ lease.status = "reserved"
  BY <1>1 DEF SessionInv, TypeOK, SessionHoldsLease
<1>3. LeaseOK' /\ lease'.attempts = lease.attempts /\ lease'.nonce = lease.nonce
      /\ pc' \in {"publish", "finalize", "retry"} /\ (pc' = "retry" => lease'.status = "reserved")
  <2>1. CASE ObserveMaterial
    BY <1>1, <1>2, <2>1 DEF ObserveMaterial, LeaseOK
  <2>2. CASE RecordRetryable
    BY <1>1, <2>2, RecordedType DEF RecordRetryable, LeaseOK
  <2>3. CASE RecordNoMaterial
    <3>1. lease' \in {lease, Recorded("nonrecoverable")} /\ pc' = "finalize"
      BY <2>3 DEF RecordNoMaterial
    <3>2. CASE lease' = lease
      BY <1>1, <1>2, <3>1, <3>2 DEF LeaseOK
    <3>3. CASE lease' = Recorded("nonrecoverable")
      BY <1>1, <3>1, <3>3, RecordedType DEF LeaseOK
    <3> QED
      BY <3>1, <3>2, <3>3
  <2>4. CASE RecordFailure
    BY <1>1, <2>4, RecordedType DEF RecordFailure, LeaseOK
  <2> QED
    BY <2>1, <2>2, <2>3, <2>4
<1>4. LeaseIsCharged'
  BY <1>2, <1>3 DEF SessionInv, LeaseIsCharged
<1>5. SessionOK'
  BY <1>1, <1>2, <1>3 DEF TypeOK, SessionOK, Steps
<1>6. TypeOK'
  BY <1>1, <1>2, <1>3, <1>5, TypeGroups, TypeGroupsNext, UnchangedGroups
<1> QED
  BY <1>1, <1>3, <1>4, <1>6
  DEF SessionInv, SessionHoldsLease, PriorIsOfLease, WorkerIsKnown

\* The session charges the next attempt, or runs the refused one again.
LEMMA ReserveNextInv ==
  ASSUME SessionInv, ReserveNext
  PROVE  SessionInv'
<1>1. TypeOK /\ session \in Session /\ session.attempt \in Nat /\ nonces \in Nat
      /\ pc = "retry" /\ Len(workers) \in Nat /\ MaxAttempts \in Nat
  BY Numbers DEF SessionInv, TypeOK, Session, ReserveNext
<1>2. NextAttempt \in Nat /\ NextAttempt >= session.attempt /\ NextAttempt <= MaxAttempts
  BY <1>1 DEF NextAttempt, ReserveNext, BudgetLeft
<1>3. lease.status = "reserved" /\ lease.attempts >= 1 /\ lease.attempts = session.attempt
  BY <1>1 DEF SessionInv, SessionHoldsLease, LeaseIsCharged
<1> DEFINE l == Transferred(lease)
           a == NextAttempt
<1>4. l \in Lease /\ l.status = "reserved" /\ a \in 0 .. MaxAttempts /\ a >= 1
  BY <1>1, <1>2, <1>3, TransferredType
<1>5. lease' = [l EXCEPT !.attempts = a, !.worker = 0, !.nonce = nonces + 1]
      /\ session' = [session EXCEPT !.attempt = a, !.nonce = nonces + 1, !.worker = 0]
      /\ nonces' = nonces + 1 /\ pc' = "dispatch"
      /\ UNCHANGED <<world, workers, pr, prOf, grants>>
  BY DEF ReserveNext
<1> HIDE DEF l, a
<1>6. lease' \in Lease /\ lease'.worker = 0 /\ lease'.status = "reserved"
      /\ lease'.attempts = a /\ lease'.nonce = nonces + 1
  <2>1. lease' = [l EXCEPT !.attempts = a, !.worker = 0, !.nonce = nonces + 1]
    BY <1>5
  <2>2. nonces + 1 \in Nat /\ 0 \in Nat
    BY <1>1
  <2> QED
    BY <1>4, <2>1, <2>2 DEF Lease
<1>7. session' \in Session /\ session'.worker = 0
      /\ session'.attempt = a /\ session'.nonce = nonces + 1
  <2>1. session' = [session EXCEPT !.attempt = a, !.nonce = nonces + 1, !.worker = 0]
    BY <1>5
  <2>2. session \in Session /\ a \in Nat /\ nonces + 1 \in Nat /\ 0 \in Nat
    BY <1>1, <1>4
  <2> QED
    BY <2>1, <2>2 DEF Session
<1>8. LeaseOK' /\ SessionOK'
  <2>1. Len(workers') \in Nat
    BY <1>1, <1>5
  <2> QED
    BY <1>5, <1>6, <1>7, <2>1 DEF LeaseOK, SessionOK, Steps
<1>9. HistoryOK'
  BY <1>1, <1>5 DEF TypeOK, HistoryOK
<1>10. TypeOK'
  BY <1>1, <1>5, <1>8, <1>9, TypeGroups, TypeGroupsNext, UnchangedGroups
<1> QED
  BY <1>4, <1>5, <1>6, <1>7, <1>10
  DEF SessionInv, SessionHoldsLease, LeaseIsCharged, PriorIsOfLease, WorkerIsKnown

-----------------------------------------------------------------------------
(* The theorems.                                                             *)

\* Every step keeps the invariant.
LEMMA SessionInvNext == SessionInv /\ [Next]_vars => SessionInv'
<1> SUFFICES ASSUME SessionInv, [Next]_vars PROVE SessionInv'
  OBVIOUS
<1>1. CASE AdvanceControlPlane \/ EditIssue \/ ClosePullRequest \/ Trigger
  BY <1>1, EnvironmentInv
<1>2. CASE \E b \in BOOLEAN : StartRun(b)
  BY <1>2, StartRunInv
<1>3. CASE \E w \in DOMAIN workers : WorkerStep(w)
  BY <1>3, WorkerInv
<1>4. CASE GuardStops \/ Finalize
  BY <1>4, GuardEndsInv
<1>5. CASE NeedsScope \/ HandOver \/ Crash
  BY <1>5, QuietEndsInv
<1>6. CASE ReserveRefused \/ CorrelateAmbiguous \/ BudgetExhausted \/ TimeOut \/ Fail
  BY <1>6, GivesUpInv
<1>7. CASE GuardReserves
  BY <1>7, GuardReservesInv
<1>8. CASE GuardReuses \/ GuardRecovers
  BY <1>8, GuardHandsOnInv
<1>9. CASE Reserve
  BY <1>9, ReserveInv
<1>10. CASE StartRecovered \/ StartWithAuthority
  BY <1>10, StartInv
<1>11. CASE Dispatch
  BY <1>11, DispatchInv
<1>12. CASE \E w \in DOMAIN workers : Correlate(w)
  BY <1>12, CorrelateInv
<1>13. CASE ObserveMaterial \/ RecordRetryable \/ RecordNoMaterial \/ RecordFailure
  BY <1>13, ClassifyInv
<1>14. CASE ReserveNext
  BY <1>14, ReserveNextInv
<1>15. CASE UNCHANGED vars
  <2>1. UNCHANGED <<world, lease, workers, pr, prOf, session, pc, nonces, grants>>
    BY <1>15 DEF vars
  <2>2. TypeOK'
    BY <2>1, TypeGroups, TypeGroupsNext, UnchangedGroups DEF SessionInv
  <2> QED
    BY <2>1, <2>2, SessionInvUnchanged
<1> QED
  BY <1>1, <1>2, <1>3, <1>4, <1>5, <1>6, <1>7, <1>8, <1>9, <1>10, <1>11, <1>12, <1>13,
     <1>14, <1>15 DEF Next, SessionStep

\* The invariant always holds.
LEMMA SessionInvHolds == Spec => []SessionInv
BY SessionInvInit, SessionInvNext, PTL DEF Spec

\* No sequence of sessions, crashes and retries charges more attempts than the
\* profile allows, or takes any variable out of its domain.
THEOREM BootstrapTypes == Spec => []TypeOK
<1>1. SessionInv => TypeOK
  BY DEF SessionInv
<1> QED
  BY <1>1, SessionInvHolds, PTL

\* The drift checks of the controller never throw: the lease is reserved with
\* the attempt and the nonce of the session that holds it.
THEOREM LeaseIsHeld == Spec => []SessionHoldsLease
<1>1. SessionInv => SessionHoldsLease
  BY DEF SessionInv
<1> QED
  BY <1>1, SessionInvHolds, PTL

AttemptsKept == lease.attempts <= lease'.attempts /\ lease'.attempts <= lease.attempts + 1

\* Only the reservation and the retry of a session change the attempts.
LEMMA AttemptsStep == SessionInv /\ [Next]_vars => AttemptsKept
<1> SUFFICES ASSUME SessionInv, [Next]_vars PROVE AttemptsKept
  OBVIOUS
<1>1. TypeOK /\ lease \in Lease /\ lease.attempts \in Nat
  BY Numbers DEF SessionInv, TypeOK
<1>2. CASE lease'.attempts = lease.attempts
  BY <1>1, <1>2 DEF AttemptsKept
<1>3. CASE Reserve
  <2>1. pc = "reserve" /\ session.prior \in Nat
    <3>1. session \in Session /\ pc = "reserve"
      BY <1>1, <1>3 DEF Reserve, TypeOK
    <3> QED
      BY <3>1 DEF Session
  <2>2. lease'.attempts = session.prior + 1
    <3>1. lease' = [NoLease EXCEPT !.status = "reserved", !.attempts = session.prior + 1,
                      !.run = session.id, !.head = session.head,
                      !.nonce = nonces + 1, !.contract = contract,
                      !.recovery = IF RecoveryGranted THEN session.head ELSE 0]
      BY <1>3 DEF Reserve
    <3> QED
      BY <3>1 DEF NoLease
  <2> QED
    BY <1>1, <2>1, <2>2 DEF SessionInv, PriorIsOfLease, AttemptsKept
<1>4. CASE ReserveNext
  <2>1. lease.attempts = session.attempt
    BY <1>4 DEF ReserveNext, SessionInv, SessionHoldsLease
  <2>2. NextAttempt \in {session.attempt, session.attempt + 1}
    BY DEF NextAttempt
  <2>3. lease' = [Transferred(lease) EXCEPT !.attempts = NextAttempt, !.worker = 0,
                                            !.nonce = nonces + 1]
    BY <1>4 DEF ReserveNext
  <2>4. lease'.attempts = NextAttempt
    BY <1>1, <2>3, TransferredType DEF Lease
  <2> QED
    BY <1>1, <2>1, <2>2, <2>4 DEF AttemptsKept
<1>5. CASE GuardStops \/ GuardReuses \/ Finalize
  <2>1. PersistMutation(Decision) /\ UNCHANGED workers
    BY <1>5 DEF GuardStops, GuardReuses, Finalize
  <2> QED
    BY <1>2, <2>1, PersistMutationType
<1>6. CASE StartWithAuthority
  BY <1>1, <1>2, <1>6, TransferredType DEF StartWithAuthority
<1>7. CASE \E w \in DOMAIN workers : Correlate(w)
  BY <1>1, <1>2, <1>7 DEF Correlate, Lease
<1>8. CASE RecordRetryable \/ RecordNoMaterial \/ RecordFailure
  <2>1. pc = "wait"
    BY <1>8 DEF RecordRetryable, RecordNoMaterial, RecordFailure, Ended, RetryableFailure
  <2>2. lease' \in {lease, Recorded("reserved"), Recorded("nonrecoverable")}
    BY <1>8 DEF RecordRetryable, RecordNoMaterial, RecordFailure
  <2> QED
    BY <1>2, <2>1, <2>2, RecordedType
<1>9. CASE UNCHANGED lease
  BY <1>2, <1>9
<1>10. ASSUME Next
       PROVE  \/ Reserve \/ ReserveNext \/ GuardStops \/ GuardReuses \/ Finalize
              \/ StartWithAuthority \/ (\E w \in DOMAIN workers : Correlate(w))
              \/ RecordRetryable \/ RecordNoMaterial \/ RecordFailure
              \/ UNCHANGED lease
  <2>1. CASE \E w \in DOMAIN workers : WorkerStep(w)
    BY <2>1 DEF WorkerStep, Appear, CheckController, CheckLease, NeverStart, Publish, Finish
  <2>2. CASE \E b \in BOOLEAN : StartRun(b)
    BY <2>2 DEF StartRun
  <2>3. CASE AdvanceControlPlane \/ EditIssue \/ ClosePullRequest \/ Trigger \/ Fail \/ Crash
    BY <2>3 DEF AdvanceControlPlane, EditIssue, ClosePullRequest, Trigger, Fail, Crash
  <2>4. CASE SessionStep
    <3>1. CASE \/ GuardReserves \/ GuardRecovers \/ ReserveRefused \/ NeedsScope
               \/ StartRecovered \/ Dispatch \/ CorrelateAmbiguous \/ ObserveMaterial
               \/ BudgetExhausted \/ HandOver \/ TimeOut
      BY <3>1 DEF GuardReserves, GuardRecovers, ReserveRefused, NeedsScope, StartRecovered,
         Dispatch, CorrelateAmbiguous, ObserveMaterial, BudgetExhausted, HandOver, TimeOut
    <3> QED
      BY <2>4, <3>1 DEF SessionStep
  <2> QED
    BY <1>10, <2>1, <2>2, <2>3, <2>4 DEF Next
<1> QED
  BY <1>3, <1>4, <1>5, <1>6, <1>7, <1>8, <1>9, <1>10 DEF vars

\* The attempts on record never fall, and no step charges two.
THEOREM ChargesAreKept == Spec => AttemptsNeverFall
<1>1. SessionInv /\ [Next]_vars =>
        [lease.attempts <= lease'.attempts /\ lease'.attempts <= lease.attempts + 1]_vars
  BY AttemptsStep DEF AttemptsKept
<1> QED
  BY <1>1, SessionInvHolds, PTL DEF Spec, AttemptsNeverFall
-----------------------------------------------------------------------------
(* The inductive invariant of the workers.                                   *)

(* A worker that has not passed the check of its controller, or that ended       *)
(* without running.                                                          *)
Dormant(w) ==
  workers[w].status \in {"posted", "queued"} \/ (Done(w) /\ ~Executed(w))

(* A nonce that is created is carried by nobody.                              *)
NoncesAreFresh ==
  /\ lease.nonce <= nonces
  /\ \A w \in DOMAIN workers : workers[w].nonce <= nonces

(* What the lease and the session name is a listed run with the nonce of the   *)
(* lease, and a session at a place before it correlates names none.           *)
NamesAreListed ==
  /\ lease.worker # 0 => lease.worker \in Listed(lease.nonce)
  /\ pc \in {"guard", "reserve", "dispatch", "correlate"} => session.worker = 0
  /\ pc \in {"start", "wait", "retry"} /\ session.worker # 0 =>
       session.worker \in Listed(lease.nonce)
  /\ pc = "retry" => Done(session.worker)

(* The workers of the running session are those it dispatched since it started. *)
OwnWorkers ==
  /\ \A w \in DOMAIN workers : workers[w].run <= session.id
  /\ pc \in {"guard", "reserve", "start"} =>
       \A w \in DOMAIN workers : workers[w].run < session.id
  /\ pc \in {"dispatch", "correlate", "wait", "retry"} =>
       /\ session.first <= Len(workers) + 1
       /\ \A w \in DOMAIN workers : w < session.first => workers[w].run < session.id

(* A nonce authorizes one worker, which the lease and the session then name.   *)
OneRunPerNonce ==
  \A w \in DOMAIN workers : Executed(w) =>
    /\ \A v \in Carrying(workers[w].nonce) : Executed(v) => v = w
    /\ workers[w].nonce = lease.nonce =>
         /\ lease.worker \in {0, w}
         /\ pc \in {"start", "wait", "retry"} => session.worker \in {0, w}

(* A running worker holds the lease, and no session reserves beside it; nor     *)
(* can one start while the reservation is made.                               *)
RunningHolds ==
  /\ \A w \in DOMAIN workers : workers[w].status = "running" =>
       lease.status = "reserved" /\ workers[w].nonce = lease.nonce /\ pc # "reserve"
  /\ pc = "reserve" /\ lease.status = "reserved" =>
       \A w \in Carrying(lease.nonce) :
         workers[w].status = "checked" => Listed(lease.nonce) # {w}

(* A session dispatches only when no earlier worker with its nonce can run.     *)
EarlierAreDormant ==
  /\ pc = "start" /\ session.worker = 0 => \A w \in Carrying(lease.nonce) : Dormant(w)
  /\ pc \in {"dispatch", "correlate"} =>
       \A w \in Carrying(lease.nonce) : w < session.first => Dormant(w)
  /\ pc \in {"wait", "retry"} => session.worker >= session.first \/ Dormant(session.worker)

(* The pull request was opened by the worker that the lease authorized last.    *)
MaterialIsOfLease ==
  pr \in {"open", "handed"} =>
    /\ prOf # 0 /\ Executed(prOf) /\ workers[prOf].nonce = lease.nonce
    /\ pc \notin {"reserve", "retry"}

(* The lease names the run that dispatched whoever may still read it.          *)
RunIsOfLease ==
  /\ pc = "dispatch" => lease.run = session.id
  /\ \A w \in Carrying(lease.nonce) :
       /\ workers[w].status = "checked" => workers[w].run = lease.run
       /\ workers[w].run = session.id /\ pc # "idle" => lease.run = session.id

WorkersInv ==
  /\ NoncesAreFresh /\ NamesAreListed /\ OwnWorkers /\ OneRunPerNonce /\ RunningHolds
  /\ EarlierAreDormant /\ MaterialIsOfLease /\ RunIsOfLease /\ AuthorityIsCurrent

-----------------------------------------------------------------------------
(* What a step of a session does to what the workers depend on.              *)

NobodyRuns == \A w \in DOMAIN workers : workers[w].status # "running"

\* A listed run with the nonce of the lease, and the authorized one if there is one.
Suits(u) ==
  u \in Listed(lease.nonce)
    /\ \A w \in DOMAIN workers : Executed(w) /\ workers[w].nonce = lease.nonce => u = w

SameLease ==
  lease'.nonce = lease.nonce /\ lease'.status = lease.status /\ lease'.run = lease.run
    /\ lease'.worker = lease.worker

SameSession ==
  session'.id = session.id /\ session'.worker = session.worker /\ session'.first = session.first

Settles ==
  /\ pc' = pc /\ SameSession /\ SameLease /\ nonces' = nonces /\ pr' \in {pr, "closed"}

Begins ==
  /\ pc = "idle" /\ pc' = "guard" /\ session'.id = session.id + 1 /\ session'.worker = 0
  /\ SameLease /\ nonces' = nonces /\ pr' = pr

Ends ==
  /\ pc # "idle" /\ pc' \in {"idle", "finalize", "publish"} /\ session'.id = session.id
  /\ nonces' = nonces /\ lease'.nonce = lease.nonce /\ lease'.run = lease.run
  /\ lease'.worker = lease.worker \/ Suits(lease'.worker)
  /\ lease'.status = lease.status \/ NobodyRuns
  /\ pr' = pr \/ (pr = "open" /\ pr' = "handed")

Renews ==
  /\ NobodyRuns /\ pr \notin {"open", "handed"} /\ pr' = pr
  /\ nonces' = nonces + 1 /\ lease'.nonce = nonces + 1 /\ lease'.worker = 0
  /\ session'.id = session.id
  /\ \/ pc' = "idle"
     \/ pc \in {"guard", "reserve"} /\ pc' = "start" /\ session'.worker = 0
     \/ /\ pc = "retry" /\ pc' = "dispatch" /\ session'.worker = 0
        /\ session'.first = session.first /\ lease'.run = session.id

Asks ==
  /\ pc = "guard" /\ pc' = "reserve" /\ SameSession /\ SameLease /\ nonces' = nonces
  /\ pr \notin {"open", "handed"} /\ pr' = pr /\ NobodyRuns
  /\ lease.status = "reserved" =>
       \A w \in Carrying(lease.nonce) :
         workers[w].status = "checked" => Listed(lease.nonce) # {w}

Reuses ==
  /\ pc = "guard" /\ pc' = "start" /\ SameSession /\ SameLease /\ nonces' = nonces /\ pr' = pr
  /\ Listed(lease.nonce) = {}

Recovers ==
  /\ pc = "guard" /\ pc' = "start" /\ SameLease /\ nonces' = nonces /\ pr' = pr
  /\ session'.id = session.id /\ Suits(session'.worker)

Follows ==
  /\ pc = "start" /\ pc' = "wait" /\ SameLease /\ nonces' = nonces /\ pr' = pr
  /\ session'.id = session.id /\ session'.worker = session.worker
  /\ session.worker # 0 /\ session'.first = session.worker

Takes ==
  /\ pc = "start" /\ pc' = "dispatch" /\ nonces' = nonces /\ pr' = pr
  /\ lease'.nonce = lease.nonce /\ lease'.status = lease.status /\ lease'.worker = lease.worker
  /\ lease'.run = session.id
  /\ session.worker = 0 /\ session'.worker = 0 /\ session'.id = session.id
  /\ session'.first = Len(workers) + 1

Finds ==
  /\ pc = "correlate" /\ pc' = "wait" /\ nonces' = nonces /\ pr' = pr
  /\ lease'.nonce = lease.nonce /\ lease'.status = lease.status /\ lease'.run = lease.run
  /\ session'.id = session.id /\ session'.first = session.first
  /\ Listed(lease.nonce) = {session'.worker} /\ lease'.worker = session'.worker

Retries ==
  /\ pc = "wait" /\ pc' = "retry" /\ nonces' = nonces /\ pr' = pr
  /\ pr \notin {"open", "handed"}
  /\ lease'.nonce = lease.nonce /\ lease'.status = lease.status /\ lease'.run = lease.run
  /\ SameSession /\ Done(session.worker) /\ lease'.worker = session.worker

SessionEffect ==
  /\ UNCHANGED <<workers, prOf>>
  /\ \/ Settles \/ Begins \/ Ends \/ Renews \/ Asks \/ Reuses \/ Recovers \/ Follows
     \/ Takes \/ Finds \/ Retries

\* The numbers that the parts of the invariant compare.
LEMMA WorkerNumbers ==
  ASSUME TypeOK
  PROVE  /\ Len(workers) \in Nat /\ DOMAIN workers = 1 .. Len(workers)
         /\ \A w \in DOMAIN workers :
              workers[w] \in Worker /\ workers[w].nonce \in Nat /\ workers[w].run \in Nat
         /\ lease \in Lease /\ lease.nonce \in Nat /\ lease.worker \in Nat /\ nonces \in Nat
         /\ session \in Session /\ session.id \in Nat /\ session.worker \in Nat
         /\ session.first \in Nat
<1>1. workers \in Seq(Worker) /\ lease \in Lease /\ session \in Session /\ nonces \in Nat
  BY DEF TypeOK
<1>2. Len(workers) \in Nat /\ DOMAIN workers = 1 .. Len(workers)
      /\ \A w \in DOMAIN workers : workers[w] \in Worker
  BY <1>1
<1>3. \A w \in DOMAIN workers : workers[w].nonce \in Nat /\ workers[w].run \in Nat
  BY <1>2 DEF Worker
<1> QED
  BY <1>1, <1>2, <1>3 DEF Lease, Session

\* A worker that has been authorized is listed.
LEMMA ExecutedListed ==
  ASSUME NEW w \in DOMAIN workers, Executed(w)
  PROVE  w \in Listed(workers[w].nonce) /\ workers[w].status # "checked" /\ ~Dormant(w)
BY DEF Executed, Listed, Carrying, Done, Dormant

\* A nonce of the lease is an old one or the next, and the names stay listed runs.
LEMMA EffectNonces ==
  ASSUME SessionInv, WorkersInv, SessionEffect
  PROVE  NoncesAreFresh' /\ NamesAreListed'
<1>a. /\ NoncesAreFresh /\ NamesAreListed /\ UNCHANGED <<workers, prOf>>
      /\ TypeOK /\ WorkerIsKnown
  BY DEF WorkersInv, SessionEffect, SessionInv
<1>n. /\ \A w \in DOMAIN workers : workers[w].nonce \in Nat
      /\ lease.nonce \in Nat /\ nonces \in Nat
  BY <1>a, WorkerNumbers
<1>1. NoncesAreFresh'
  BY <1>a, <1>n DEF NoncesAreFresh, SessionEffect, Settles, Begins, Ends, Renews, Asks, Reuses,
     Recovers, Follows, Takes, Finds, Retries, SameLease
<1>2. \A n : Listed(n)' = Listed(n)
  BY <1>a DEF Listed, Carrying
<1>3. NamesAreListed'
  <2>1. lease'.worker # 0 =>
          lease'.nonce = lease.nonce /\ lease'.worker \in Listed(lease.nonce)
    BY <1>a DEF NamesAreListed, WorkerIsKnown, SessionEffect, Settles, Begins, Ends, Renews,
       Asks, Reuses, Recovers, Follows, Takes, Finds, Retries, SameLease, Suits
  <2>2. pc' \in {"guard", "reserve", "dispatch", "correlate"} => session'.worker = 0
    BY <1>a DEF NamesAreListed, SessionEffect, Settles, Begins, Ends, Renews,
       Asks, Reuses, Recovers, Follows, Takes, Finds, Retries, SameSession
  <2>3. pc' \in {"start", "wait", "retry"} /\ session'.worker # 0 =>
          lease'.nonce = lease.nonce /\ session'.worker \in Listed(lease.nonce)
    BY <1>a DEF NamesAreListed, SessionEffect, Settles, Begins, Ends, Renews,
       Asks, Reuses, Recovers, Follows, Takes, Finds, Retries, SameSession, SameLease, Suits
  <2>4. pc' = "retry" => Done(session'.worker)
    BY <1>a DEF NamesAreListed, SessionEffect, Settles, Begins, Ends, Renews,
       Asks, Reuses, Recovers, Follows, Takes, Finds, Retries, SameSession
  <2> QED
    BY <2>1, <2>2, <2>3, <2>4, <1>a DEF NamesAreListed, Listed, Carrying, Done
<1> QED
  BY <1>1, <1>3

\* Under a step of a session nobody starts to run; a new nonce is carried by nobody.
LEMMA EffectRuns ==
  ASSUME SessionInv, WorkersInv, SessionEffect
  PROVE  OwnWorkers' /\ OneRunPerNonce' /\ RunningHolds'
<1>a. /\ NoncesAreFresh /\ NamesAreListed /\ OwnWorkers /\ OneRunPerNonce /\ RunningHolds
      /\ UNCHANGED <<workers, prOf>> /\ TypeOK
  BY DEF WorkersInv, SessionEffect, SessionInv
<1>n. /\ Len(workers) \in Nat /\ DOMAIN workers = 1 .. Len(workers)
      /\ \A w \in DOMAIN workers : workers[w].nonce \in Nat /\ workers[w].run \in Nat
      /\ lease.nonce \in Nat /\ nonces \in Nat /\ session.id \in Nat /\ session.worker \in Nat
      /\ session.first \in Nat
  BY <1>a, WorkerNumbers
<1>f. \A w \in DOMAIN workers : workers[w].nonce <= nonces /\ workers[w].nonce # nonces + 1
  BY <1>a, <1>n DEF NoncesAreFresh
<1>1. OwnWorkers'
  <2>1. \A w \in DOMAIN workers : workers[w].run <= session'.id
    BY <1>a, <1>n DEF OwnWorkers, SessionEffect, Settles, Begins, Ends, Renews, Asks, Reuses,
       Recovers, Follows, Takes, Finds, Retries, SameSession
  <2>2. pc' \in {"guard", "reserve", "start"} =>
          \A w \in DOMAIN workers : workers[w].run < session'.id
    BY <1>a, <1>n DEF OwnWorkers, SessionEffect, Settles, Begins, Ends, Renews, Asks, Reuses,
       Recovers, Follows, Takes, Finds, Retries, SameSession
  <2>3. pc' \in {"dispatch", "correlate", "wait", "retry"} =>
          /\ session'.first <= Len(workers) + 1
          /\ \A w \in DOMAIN workers : w < session'.first => workers[w].run < session'.id
    <3>1. session.worker # 0 /\ pc = "start" => session.worker <= Len(workers)
      BY <1>a, <1>n DEF TypeOK
    <3> QED
      BY <1>a, <1>n, <3>1 DEF OwnWorkers, SessionEffect, Settles, Begins, Ends, Renews, Asks,
         Reuses, Recovers, Follows, Takes, Finds, Retries, SameSession
  <2> QED
    BY <2>1, <2>2, <2>3, <1>a DEF OwnWorkers
<1>2. OneRunPerNonce'
  <2> SUFFICES ASSUME NEW w \in DOMAIN workers, Executed(w)
               PROVE  /\ \A v \in Carrying(workers[w].nonce) : Executed(v) => v = w
                      /\ workers[w].nonce = lease'.nonce =>
                           /\ lease'.worker \in {0, w}
                           /\ pc' \in {"start", "wait", "retry"} => session'.worker \in {0, w}
    BY <1>a DEF OneRunPerNonce, Executed, Done, Carrying
  <2>1. \A v \in Carrying(workers[w].nonce) : Executed(v) => v = w
    BY <1>a DEF OneRunPerNonce
  <2>2. workers[w].nonce = lease.nonce =>
          /\ lease.worker \in {0, w}
          /\ pc \in {"start", "wait", "retry"} => session.worker \in {0, w}
          /\ w \in Listed(lease.nonce)
    BY <1>a, ExecutedListed DEF OneRunPerNonce
  <2>3. workers[w].nonce = lease'.nonce => lease'.nonce = lease.nonce
    BY <1>a, <1>f DEF SessionEffect, Settles, Begins, Ends, Renews, Asks, Reuses,
       Recovers, Follows, Takes, Finds, Retries, SameLease
  <2>4. \A u : Suits(u) /\ workers[w].nonce = lease.nonce => u = w
    BY DEF Suits
  <2>5. workers[w].nonce = lease'.nonce => lease'.worker \in {0, w}
    BY <2>2, <2>3, <2>4, <1>a DEF SessionEffect, Settles, Begins, Ends, Renews, Asks, Reuses,
       Recovers, Follows, Takes, Finds, Retries, SameLease
  <2>6. workers[w].nonce = lease'.nonce /\ pc' \in {"start", "wait", "retry"} =>
          session'.worker \in {0, w}
    BY <2>2, <2>3, <2>4, <1>a DEF NamesAreListed, SessionEffect, Settles, Begins, Ends, Renews,
       Asks, Reuses, Recovers, Follows, Takes, Finds, Retries, SameSession
  <2> QED
    BY <2>1, <2>5, <2>6
<1>3. RunningHolds'
  <2>1. ASSUME NEW w \in DOMAIN workers, workers[w].status = "running"
        PROVE  lease'.status = "reserved" /\ workers[w].nonce = lease'.nonce /\ pc' # "reserve"
    <3>1. lease.status = "reserved" /\ workers[w].nonce = lease.nonce /\ pc # "reserve"
      BY <1>a, <2>1 DEF RunningHolds
    <3>2. ~NobodyRuns
      BY <2>1 DEF NobodyRuns
    <3> QED
      BY <3>1, <3>2, <1>a DEF SessionEffect, Settles, Begins, Ends, Renews, Asks, Reuses,
         Recovers, Follows, Takes, Finds, Retries, SameLease
  <2>2. pc' = "reserve" /\ lease'.status = "reserved" =>
          /\ lease'.nonce = lease.nonce
          /\ \A w \in Carrying(lease.nonce) :
               workers[w].status = "checked" => Listed(lease.nonce) # {w}
    BY <1>a DEF RunningHolds, SessionEffect, Settles, Begins, Ends, Renews, Asks, Reuses,
       Recovers, Follows, Takes, Finds, Retries, SameLease
  <2> QED
    BY <2>1, <2>2, <1>a DEF RunningHolds, Listed, Carrying
<1> QED
  BY <1>1, <1>2, <1>3

\* What a session takes over, dispatches and publishes is of the last authorized worker.
LEMMA EffectLease ==
  ASSUME SessionInv, WorkersInv, SessionEffect
  PROVE  EarlierAreDormant' /\ MaterialIsOfLease' /\ RunIsOfLease' /\ AuthorityIsCurrent'
<1>a. /\ NoncesAreFresh /\ NamesAreListed /\ OwnWorkers /\ OneRunPerNonce
      /\ EarlierAreDormant /\ MaterialIsOfLease /\ RunIsOfLease /\ AuthorityIsCurrent
      /\ UNCHANGED <<workers, prOf>> /\ TypeOK
  BY DEF WorkersInv, SessionEffect, SessionInv
<1>n. /\ Len(workers) \in Nat /\ DOMAIN workers = 1 .. Len(workers)
      /\ \A w \in DOMAIN workers : workers[w].nonce \in Nat /\ workers[w].run \in Nat
      /\ lease.nonce \in Nat /\ nonces \in Nat /\ session.id \in Nat /\ session.worker \in Nat
      /\ session.first \in Nat
  BY <1>a, WorkerNumbers
<1>f. /\ \A w \in DOMAIN workers : workers[w].nonce <= nonces /\ workers[w].nonce # nonces + 1
      /\ Carrying(nonces + 1) = {}
  BY <1>a, <1>n DEF NoncesAreFresh, Carrying
<1>c. lease'.nonce \in {lease.nonce, nonces + 1} /\ (lease'.nonce # lease.nonce => Renews)
  BY <1>a DEF SessionEffect, Settles, Begins, Ends, Renews, Asks, Reuses, Recovers, Follows,
     Takes, Finds, Retries, SameLease
<1>s. \A n : Carrying(n)' = Carrying(n)
  BY <1>a DEF Carrying
<1>1. EarlierAreDormant'
  <2>1. pc' = "start" /\ session'.worker = 0 => \A w \in Carrying(lease'.nonce) : Dormant(w)
    <3>1. CASE Settles
      BY <1>a, <3>1 DEF Settles, SameSession, SameLease, EarlierAreDormant
    <3>2. CASE Renews
      BY <1>f, <3>2 DEF Renews
    <3>3. CASE Reuses
      BY <3>3 DEF Reuses, SameLease, Listed, Dormant
    <3>4. CASE Recovers
      BY <3>4, <1>n DEF Recovers, Suits, Listed, Carrying
    <3> QED
      BY <3>1, <3>2, <3>3, <3>4 DEF SessionEffect, Begins, Ends, Asks, Follows, Takes, Finds,
         Retries
  <2>2. pc' \in {"dispatch", "correlate"} =>
          \A w \in Carrying(lease'.nonce) : w < session'.first => Dormant(w)
    <3>1. CASE Settles
      BY <1>a, <3>1 DEF Settles, SameSession, SameLease, EarlierAreDormant
    <3>2. CASE Renews
      BY <1>f, <3>2 DEF Renews
    <3>3. CASE Takes
      BY <1>a, <3>3 DEF Takes, EarlierAreDormant
    <3> QED
      BY <3>1, <3>2, <3>3 DEF SessionEffect, Begins, Ends, Asks, Reuses, Recovers, Follows,
         Finds, Retries
  <2>3. pc' \in {"wait", "retry"} => session'.worker >= session'.first \/ Dormant(session'.worker)
    <3>1. CASE Settles \/ Retries
      BY <1>a, <3>1 DEF Settles, Retries, SameSession, EarlierAreDormant
    <3>2. CASE Follows
      BY <1>n, <3>2 DEF Follows
    <3>3. CASE Finds
      <4>1. session'.worker \in Carrying(lease.nonce) /\ session'.first = session.first
        BY <3>3 DEF Finds, Listed
      <4>2. session'.worker < session.first => Dormant(session'.worker)
        BY <1>a, <3>3, <4>1 DEF Finds, EarlierAreDormant
      <4> QED
        BY <4>1, <4>2, <1>n DEF Carrying
    <3> QED
      BY <3>1, <3>2, <3>3 DEF SessionEffect, Begins, Ends, Renews, Asks, Reuses, Recovers, Takes
  <2> QED
    BY <2>1, <2>2, <2>3, <1>a DEF EarlierAreDormant, Dormant, Done, Executed, Carrying
<1>2. MaterialIsOfLease'
  <2> SUFFICES ASSUME pr' \in {"open", "handed"}
               PROVE  /\ prOf # 0 /\ Executed(prOf)
                      /\ workers[prOf].nonce = lease'.nonce /\ pc' \notin {"reserve", "retry"}
    BY <1>a DEF MaterialIsOfLease, Done, Executed
  <2>1. pr \in {"open", "handed"}
    BY DEF SessionEffect, Settles, Begins, Ends, Renews, Asks, Reuses, Recovers, Follows, Takes,
       Finds, Retries
  <2>2. ~Renews /\ ~Asks /\ ~Retries
    BY <2>1 DEF Renews, Asks, Retries
  <2>3. pc' \notin {"reserve", "retry"}
    BY <1>a, <2>1, <2>2 DEF MaterialIsOfLease, SessionEffect, Settles, Begins, Ends, Reuses,
       Recovers, Follows, Takes, Finds
  <2> QED
    BY <1>a, <1>c, <2>1, <2>2, <2>3 DEF MaterialIsOfLease
<1>3. RunIsOfLease'
  <2>1. pc' = "dispatch" => lease'.run = session'.id
    BY <1>a DEF RunIsOfLease, SessionEffect, Settles, Begins, Ends, Renews, Asks, Reuses,
       Recovers, Follows, Takes, Finds, Retries, SameSession, SameLease
  <2>2. ASSUME NEW w \in Carrying(lease'.nonce)
        PROVE  /\ workers[w].status = "checked" => workers[w].run = lease'.run
               /\ workers[w].run = session'.id /\ pc' # "idle" => lease'.run = session'.id
    <3>1. w \in Carrying(lease.nonce) /\ ~Renews
      BY <1>c, <1>f, <2>2 DEF Renews
    <3>2. w \in DOMAIN workers
      BY <3>1 DEF Carrying
    <3>3. CASE Takes
      <4>1. Dormant(w) /\ workers[w].run < session.id
        BY <1>a, <3>1, <3>2, <3>3 DEF Takes, EarlierAreDormant, OwnWorkers
      <4> QED
        BY <3>3, <4>1, <1>n, <3>2 DEF Takes, Dormant, Done
    <3>4. CASE Begins
      <4>1. workers[w].run <= session.id
        BY <1>a, <3>2 DEF OwnWorkers
      <4> QED
        BY <1>a, <3>1, <3>2, <3>4, <4>1, <1>n DEF Begins, RunIsOfLease, SameLease
    <3>5. CASE ~Takes /\ ~Begins
      BY <1>a, <3>1, <3>5 DEF RunIsOfLease, SessionEffect, Settles, Ends, Asks, Reuses,
         Recovers, Follows, Finds, Retries, SameSession, SameLease
    <3> QED
      BY <3>3, <3>4, <3>5
  <2> QED
    BY <2>1, <2>2, <1>a DEF RunIsOfLease, Carrying
<1>4. AuthorityIsCurrent'
  <2>1. \A w \in Carrying(lease'.nonce) :
          workers[w].outcome = "mismatch" => workers[w] = LegacyWorker
    BY <1>a, <1>c, <1>f DEF AuthorityIsCurrent
  <2> QED
    BY <2>1, <1>a DEF AuthorityIsCurrent, Carrying, LegacyWorker
<1> QED
  BY <1>1, <1>2, <1>3, <1>4

-----------------------------------------------------------------------------
(* What the guard decides while a worker may still run.                      *)

\* The runs with one nonce are finitely many, and unless they are ambiguous the
\* one that was authorized is the one that the guard recovers.
LEMMA AuthorizedIsRecovered ==
  ASSUME SessionInv, WorkersInv, ~Ambiguous,
         NEW w \in DOMAIN workers, Executed(w), workers[w].nonce = lease.nonce
  PROVE  Recovered = w
<1>1. Len(workers) \in Nat /\ DOMAIN workers = 1 .. Len(workers)
  BY WorkerNumbers DEF SessionInv
<1>2. w \in Listed(lease.nonce) /\ w # 0
  BY <1>1, ExecutedListed
<1>3. lease.worker \in {0, w}
  BY DEF WorkersInv, OneRunPerNonce
<1>4. CASE lease.worker = w
  BY <1>2, <1>4 DEF Recovered
<1>5. CASE lease.worker = 0
  <2>1. IsFiniteSet(Listed(lease.nonce)) /\ Cardinality(Listed(lease.nonce)) \in Nat
    <3>1. Listed(lease.nonce) \subseteq 1 .. Len(workers)
      BY <1>1 DEF Listed, Carrying
    <3>2. IsFiniteSet(1 .. Len(workers))
      BY <1>1, FS_Interval
    <3>3. IsFiniteSet(Listed(lease.nonce))
      BY <3>1, <3>2, FS_Subset
    <3> QED
      BY <3>3, FS_CardinalityType
  <2>2. Cardinality(Listed(lease.nonce)) <= 1
    BY <1>5, <2>1 DEF Ambiguous
  <2>3. Cardinality(Listed(lease.nonce)) # 0
    BY <1>2, <2>1, FS_EmptySet
  <2>4. Cardinality(Listed(lease.nonce)) = 1
    BY <2>1, <2>2, <2>3
  <2>5. Listed(lease.nonce) = {w}
    BY <1>2, <2>1, <2>4, FS_Singleton
  <2> QED
    BY <1>5, <2>5 DEF Recovered
<1> QED
  BY <1>3, <1>4, <1>5

\* What the guard recovers is a listed run with the nonce of the lease.
LEMMA RecoveredIsListed ==
  ASSUME SessionInv, WorkersInv
  PROVE  Recovered = 0 \/ Recovered \in Listed(lease.nonce)
<1>1. lease.worker # 0 => lease.worker \in Listed(lease.nonce)
  BY DEF WorkersInv, NamesAreListed
<1>2. Listed(lease.nonce) # {} =>
        (CHOOSE w \in Listed(lease.nonce) : TRUE) \in Listed(lease.nonce)
  OBVIOUS
<1> QED
  BY <1>1, <1>2 DEF Recovered

\* Nor is another run with that nonce authorized.
LEMMA RecoveredSuits ==
  ASSUME SessionInv, WorkersInv, ~Ambiguous, Recovered # 0
  PROVE  Suits(Recovered)
BY RecoveredIsListed, AuthorizedIsRecovered DEF Suits

\* The decisions that name a worker are made on one candidate only, and an open
\* pull request is adopted.
LEMMA DecisionReadsRuns ==
  ASSUME TypeOK
  PROVE  /\ Decision \notin {"resume", "refuse"} => ~Ambiguous
         /\ Decision \notin {"resume", "refuse", "adopt", "recover"} =>
              pr \notin {"open", "handed"}
         /\ Decision = "adopt" => pr = "open"
<1>1. pr \in {"none", "open", "handed", "closed"}
  BY DEF TypeOK
<1>2. CASE pr = "handed"
  BY <1>2 DEF Decision
<1>3. CASE pr # "handed" /\ Ambiguous
  BY <1>3 DEF Decision
<1>4. CASE pr = "open" /\ ~Ambiguous
  BY <1>4 DEF Decision
<1>5. CASE pr \in {"none", "closed"} /\ ~Ambiguous
  <2>1. Decision = DecideWithoutPullRequest
    BY <1>5 DEF Decision
  <2>2. DecideWithoutPullRequest # "adopt"
    <3>1. lease.status \in {"none", "reserved", "exhausted", "nonrecoverable"}
      BY DEF TypeOK, Lease, Statuses
    <3>2. CASE lease.status = "none"
      BY <3>2 DEF DecideWithoutPullRequest
    <3>3. CASE lease.status = "exhausted"
      BY <3>3 DEF DecideWithoutPullRequest
    <3>4. CASE lease.status = "nonrecoverable"
      BY <3>4 DEF DecideWithoutPullRequest
    <3>5. CASE lease.status = "reserved"
      BY <3>5, ReservedCases DEF DecideWithoutPullRequest
    <3> QED
      BY <3>1, <3>2, <3>3, <3>4, <3>5
  <2> QED
    BY <1>5, <2>1, <2>2
<1> QED
  BY <1>1, <1>2, <1>3, <1>4, <1>5

\* A run that has not ended is recovered, never replaced.
LEMMA DecisionAwaits ==
  ASSUME TypeOK, lease.status = "reserved", Recovered # 0, ~Done(Recovered)
  PROVE  Decision \in {"resume", "refuse", "adopt", "recover"}
<1>1. pr \in {"none", "open", "handed", "closed"}
  BY DEF TypeOK
<1>2. CASE pr = "handed"
  BY <1>2 DEF Decision
<1>3. CASE pr # "handed" /\ Ambiguous
  BY <1>3 DEF Decision
<1>4. CASE pr = "open" /\ ~Ambiguous
  BY <1>4 DEF Decision
<1>5. CASE pr \in {"none", "closed"} /\ ~Ambiguous
  <2>1. Decision = DecideWithoutPullRequest
    BY <1>5 DEF Decision
  <2>2. DecideWithoutPullRequest = DecideReserved
    BY DEF DecideWithoutPullRequest
  <2>3. DecideReserved = "recover"
    BY DEF DecideReserved
  <2> QED
    BY <2>1, <2>2, <2>3
<1> QED
  BY <1>1, <1>2, <1>3, <1>4, <1>5

\* Only a decision that replaces nothing is made while a worker runs.
LEMMA DecisionWhileRunning ==
  ASSUME SessionInv, WorkersInv, Decision \notin {"resume", "refuse", "adopt", "recover"}
  PROVE  NobodyRuns
<1> SUFFICES ASSUME NEW w \in DOMAIN workers, workers[w].status = "running"
             PROVE  FALSE
  BY DEF NobodyRuns
<1>1. TypeOK /\ ~Ambiguous
  BY DecisionReadsRuns DEF SessionInv
<1>2. lease.status = "reserved" /\ workers[w].nonce = lease.nonce
  BY DEF WorkersInv, RunningHolds
<1>3. Executed(w) /\ ~Done(w)
  BY DEF Executed, Done
<1>4. Recovered = w /\ w # 0
  BY <1>1, <1>2, <1>3, AuthorizedIsRecovered, WorkerNumbers
<1> QED
  BY <1>1, <1>2, <1>3, <1>4, DecisionAwaits

\* While the session waits or retries, the only worker that may run is its own.
LEMMA OwnWorkerEnded ==
  ASSUME SessionInv, WorkersInv, pc \in {"wait", "retry"}
  PROVE  /\ Suits(session.worker)
         /\ Done(session.worker) => NobodyRuns
         /\ pr \in {"open", "handed"} => prOf = session.worker
<1>1. session.worker # 0 /\ session.worker \in Listed(lease.nonce)
  BY DEF SessionInv, WorkerIsKnown, WorkersInv, NamesAreListed
<1>2. \A w \in DOMAIN workers :
        Executed(w) /\ workers[w].nonce = lease.nonce => session.worker = w
  BY <1>1 DEF WorkersInv, OneRunPerNonce
<1>3. Suits(session.worker)
  BY <1>1, <1>2 DEF Suits
<1>4. Done(session.worker) => NobodyRuns
  BY <1>2 DEF NobodyRuns, Done, Executed, WorkersInv, RunningHolds
<1>5. pr \in {"open", "handed"} => prOf = session.worker
  <2>1. prOf \in 0 .. Len(workers) /\ DOMAIN workers = 1 .. Len(workers) /\ Len(workers) \in Nat
    BY WorkerNumbers DEF SessionInv, TypeOK
  <2> QED
    BY <1>2, <2>1 DEF WorkersInv, MaterialIsOfLease
<1> QED
  BY <1>3, <1>4, <1>5

-----------------------------------------------------------------------------
(* The effect of every step that no worker takes.                            *)

\* What the guard writes: a new dispatch, an exhausted budget, an adoption, or nothing.
LEMMA MutationEffect ==
  ASSUME SessionInv, WorkersInv, PersistMutation(Decision)
  PROVE  \/ /\ Decision \in Rearms /\ NobodyRuns /\ pr \notin {"open", "handed"} /\ pr' = pr
            /\ nonces' = nonces + 1 /\ lease'.nonce = nonces + 1 /\ lease'.worker = 0
         \/ /\ Decision \notin Rearms
            /\ nonces' = nonces /\ lease'.nonce = lease.nonce /\ lease'.run = lease.run
            /\ lease'.worker = lease.worker \/ Suits(lease'.worker)
            /\ lease'.status = lease.status \/ NobodyRuns
            /\ pr' = pr \/ (pr = "open" /\ pr' = "handed")
<1>1. TypeOK /\ lease \in Lease
  BY DEF SessionInv, TypeOK
<1>2. CASE Decision \in Rearms
  <2>1. lease' = Rearmed(Decision) /\ nonces' = nonces + 1 /\ pr' = pr
    BY <1>2 DEF PersistMutation, Rearms
  <2>2. lease'.nonce = nonces + 1 /\ lease'.worker = 0
    BY <1>1, <2>1, RearmedType
  <2>3. NobodyRuns /\ pr \notin {"open", "handed"}
    BY <1>1, <1>2, DecisionReadsRuns, DecisionWhileRunning DEF Rearms
  <2> QED
    BY <1>2, <2>1, <2>2, <2>3
<1>3. CASE Decision = "exhaust"
  <2>1. lease' = ExhaustedLease /\ nonces' = nonces /\ pr' = pr /\ Decision \notin Rearms
    BY <1>3 DEF PersistMutation, Rearms
  <2>2. lease'.nonce = lease.nonce /\ lease'.run = lease.run
        /\ lease'.worker = IF Recovered # 0 THEN Recovered ELSE lease.worker
    BY <1>1, <2>1 DEF ExhaustedLease, Lease
  <2>3. NobodyRuns /\ ~Ambiguous
    BY <1>1, <1>3, DecisionReadsRuns, DecisionWhileRunning
  <2>4. lease'.worker = lease.worker \/ Suits(lease'.worker)
    BY <2>2, <2>3, RecoveredSuits
  <2> QED
    BY <2>1, <2>2, <2>3, <2>4
<1>4. CASE Decision \notin Rearms \cup {"exhaust"}
  <2>1. lease' = lease /\ nonces' = nonces
    BY <1>4 DEF PersistMutation
  <2>2. pr' = pr \/ (pr = "open" /\ pr' = "handed")
    BY <1>1, DecisionReadsRuns DEF PersistMutation
  <2> QED
    BY <1>4, <2>1, <2>2
<1> QED
  BY <1>2, <1>3, <1>4

\* Around the sessions nothing changes but a pull request that is closed.
LEMMA EnvironmentEffect ==
  ASSUME SessionInv, WorkersInv,
         \/ AdvanceControlPlane \/ EditIssue \/ ClosePullRequest \/ Trigger
         \/ UNCHANGED vars
  PROVE  SessionEffect
<1>1. UNCHANGED <<lease, workers, prOf, session, pc, nonces>> /\ pr' \in {pr, "closed"}
  BY DEF AdvanceControlPlane, EditIssue, ClosePullRequest, Trigger, vars
<1> QED
  BY <1>1 DEF SessionEffect, Settles, SameLease, SameSession

\* A session starts.
LEMMA StartRunEffect ==
  ASSUME SessionInv, WorkersInv, NEW b \in BOOLEAN, StartRun(b)
  PROVE  SessionEffect
<1>1. session' = [NoSession EXCEPT !.id = session.id + 1, !.sha = queued,
                                   !.head = head, !.scopeFixed = b]
  BY DEF StartRun
<1>2. session'.id = session.id + 1 /\ session'.worker = 0
  BY <1>1 DEF NoSession
<1> QED
  BY <1>2 DEF StartRun, SessionEffect, Begins, SameLease

\* A session that is over keeps its id.
LEMMA EndedId == SessionEnd => session'.id = session.id /\ pc' = "idle"
BY DEF SessionEnd, NoSession

\* The guard stops, or the finalizer leaves a new dispatch behind.
LEMMA GuardEndsEffect ==
  ASSUME SessionInv, WorkersInv, GuardStops \/ Finalize
  PROVE  SessionEffect
<1>1. /\ PersistMutation(Decision) /\ UNCHANGED <<workers, prOf>> /\ pc # "idle"
      /\ session'.id = session.id /\ pc' = "idle"
  BY EndedId DEF GuardStops, Finalize
<1> QED
  BY <1>1, MutationEffect DEF SessionEffect, Ends, Renews

\* The session ends and writes nothing.
LEMMA QuietEndsEffect ==
  ASSUME SessionInv, WorkersInv, NeedsScope \/ HandOver \/ Crash
  PROVE  SessionEffect
<1>1. UNCHANGED <<lease, workers, prOf, nonces>> /\ pr' \in {pr, IF pr = "open" THEN "handed" ELSE pr}
      /\ session'.id = session.id /\ pc # "idle" /\ pc' = "idle"
  BY EndedId DEF NeedsScope, HandOver, Crash
<1> QED
  BY <1>1 DEF SessionEffect, Ends

\* The session goes to the finalizer, or looks for the pull request.
LEMMA GivesUpEffect ==
  ASSUME SessionInv, WorkersInv,
         \/ ReserveRefused \/ CorrelateAmbiguous \/ BudgetExhausted \/ TimeOut \/ Fail
         \/ ObserveMaterial
  PROVE  SessionEffect
<1>1. UNCHANGED <<lease, workers, pr, prOf, nonces, session>> /\ pc # "idle"
      /\ pc' \in {"finalize", "publish"}
  BY DEF ReserveRefused, CorrelateAmbiguous, BudgetExhausted, TimeOut, Fail, ObserveMaterial,
         Ended
<1> QED
  BY <1>1 DEF SessionEffect, Ends

\* A reservation is asked for while nobody runs or may come to.
LEMMA GuardReservesEffect ==
  ASSUME SessionInv, WorkersInv, GuardReserves
  PROVE  SessionEffect
<1>1. Decision \in {"new", "retry", "grant"} /\ pc = "guard" /\ pc' = "reserve"
      /\ UNCHANGED <<lease, workers, pr, prOf, nonces>> /\ TypeOK
  BY DEF GuardReserves, SessionInv
<1>2. SameSession
  <2> DEFINE p == IF Decision = "grant" THEN lease.attempts - 1 ELSE lease.attempts
  <2>1. session' = [session EXCEPT !.prior = p] /\ session \in Session
    BY <1>1 DEF GuardReserves, TypeOK
  <2> HIDE DEF p
  <2> QED
    BY <2>1 DEF SameSession, Session
<1>3. NobodyRuns /\ pr \notin {"open", "handed"}
  BY <1>1, DecisionReadsRuns, DecisionWhileRunning
<1>4. ASSUME lease.status = "reserved", NEW w \in Carrying(lease.nonce),
             workers[w].status = "checked", Listed(lease.nonce) = {w}
      PROVE  FALSE
  <2>1. w # 0 /\ ~Done(w)
    BY <1>1, <1>4, WorkerNumbers DEF Carrying, Done
  <2>2. Recovered = w
    BY <1>4, <2>1 DEF Recovered, WorkersInv, NamesAreListed
  <2> QED
    BY <1>1, <1>4, <2>1, <2>2, DecisionAwaits
<1> QED
  BY <1>1, <1>2, <1>3, <1>4 DEF SessionEffect, Asks, SameLease

\* A lease is used again when nobody was listed with its nonce.
LEMMA GuardReusesEffect ==
  ASSUME SessionInv, WorkersInv, GuardReuses
  PROVE  SessionEffect
<1>1. Decision \in {"reuse"} \cup Rearms /\ pc = "guard" /\ pc' = "start"
      /\ PersistMutation(Decision) /\ UNCHANGED <<workers, prOf>> /\ TypeOK
      /\ session.worker = 0
  BY DEF GuardReuses, SessionInv, WorkersInv, NamesAreListed
<1>2. SameSession
  BY <1>1 DEF GuardReuses, TypeOK, SameSession, Session
<1>3. CASE Decision \in Rearms
  BY <1>1, <1>2, <1>3, MutationEffect DEF SessionEffect, Renews, SameSession
<1>4. CASE Decision = "reuse"
  <2>1. UNCHANGED <<lease, nonces, pr>>
    BY <1>4 DEF GuardReuses, PersistMutation, Rearms
  <2>2. Recovered = 0
    BY <1>1, <1>4, DecisionCases, ReservedCases
  <2>3. Listed(lease.nonce) = {}
    <3>1. \A w \in Listed(lease.nonce) : w # 0
      BY <1>1, WorkerNumbers DEF Listed, Carrying
    <3>2. Listed(lease.nonce) # {} =>
            (CHOOSE w \in Listed(lease.nonce) : TRUE) \in Listed(lease.nonce)
      OBVIOUS
    <3> QED
      BY <2>2, <3>1, <3>2 DEF Recovered
  <2> QED
    BY <1>1, <1>2, <2>1, <2>3 DEF SessionEffect, Reuses, SameLease
<1> QED
  BY <1>1, <1>3, <1>4

\* The guard hands the recovered run to the controller.
LEMMA GuardRecoversEffect ==
  ASSUME SessionInv, WorkersInv, GuardRecovers
  PROVE  SessionEffect
<1>1. Decision = "recover" /\ pc = "guard" /\ pc' = "start" /\ TypeOK
      /\ UNCHANGED <<lease, workers, pr, prOf, nonces>>
  BY DEF GuardRecovers, SessionInv
<1>2. session'.id = session.id /\ session'.worker = Recovered
  BY <1>1 DEF GuardRecovers, TypeOK, Session
<1>3. Suits(Recovered)
  BY <1>1, DecisionReadsRuns, DecisionReadLease, RecoveredSuits
<1> QED
  BY <1>1, <1>2, <1>3 DEF SessionEffect, Recovers, SameLease

\* The reservation renews the lease while nobody runs.
LEMMA ReserveEffect ==
  ASSUME SessionInv, WorkersInv, Reserve
  PROVE  SessionEffect
<1>1. pc = "reserve" /\ pc' = "start" /\ UNCHANGED <<workers, pr, prOf>>
      /\ nonces' = nonces + 1 /\ TypeOK /\ session.worker = 0
  BY DEF Reserve, SessionInv, WorkersInv, NamesAreListed
<1>2. lease'.nonce = nonces + 1 /\ lease'.worker = 0
  BY EmptyTypes, EmptyFields DEF Reserve, Lease
<1>3. session'.id = session.id /\ session'.worker = 0
  BY <1>1 DEF Reserve, TypeOK, Session
<1>4. NobodyRuns /\ pr \notin {"open", "handed"}
  BY <1>1 DEF WorkersInv, RunningHolds, MaterialIsOfLease, NobodyRuns
<1> QED
  BY <1>1, <1>2, <1>3, <1>4 DEF SessionEffect, Renews

\* The controller waits for the recovered run, or takes the lease over.
LEMMA StartEffect ==
  ASSUME SessionInv, WorkersInv, StartRecovered \/ StartWithAuthority
  PROVE  SessionEffect
<1>1. TypeOK /\ session \in Session /\ lease \in Lease
  BY DEF SessionInv, TypeOK
<1>2. CASE StartRecovered
  <2>1. session'.id = session.id /\ session'.worker = session.worker
        /\ session'.first = session.worker
    BY <1>1, <1>2 DEF StartRecovered, Session
  <2> QED
    BY <1>2, <2>1 DEF StartRecovered, SessionEffect, Follows, SameLease
<1>3. CASE StartWithAuthority
  <2>1. session'.id = session.id /\ session'.worker = session.worker
        /\ session'.first = Len(workers) + 1
    BY <1>1, <1>3 DEF StartWithAuthority, Session
  <2>2. lease'.nonce = lease.nonce /\ lease'.status = lease.status
        /\ lease'.worker = lease.worker /\ lease'.run = session.id
    BY <1>1, <1>3 DEF StartWithAuthority, Transferred, Lease
  <2> QED
    BY <1>3, <2>1, <2>2 DEF StartWithAuthority, SessionEffect, Takes
<1> QED
  BY <1>2, <1>3

\* The controller finds the only listed run with its nonce.
LEMMA CorrelateEffect ==
  ASSUME SessionInv, WorkersInv, NEW w \in DOMAIN workers, Correlate(w)
  PROVE  SessionEffect
<1>1. TypeOK /\ session \in Session /\ lease \in Lease /\ pc = "correlate"
  BY DEF SessionInv, TypeOK, Correlate
<1>2. session'.id = session.id /\ session'.first = session.first /\ session'.worker = w
  BY <1>1 DEF Correlate, Session
<1>3. lease'.nonce = lease.nonce /\ lease'.status = lease.status /\ lease'.run = lease.run
      /\ lease'.worker = w
  BY <1>1 DEF Correlate, Lease
<1>4. Listed(lease.nonce) = {w}
  BY <1>1 DEF Correlate, SessionInv, SessionHoldsLease
<1> QED
  BY <1>2, <1>3, <1>4 DEF Correlate, SessionEffect, Finds

\* A classification names the worker of the session.
LEMMA RecordedNames ==
  ASSUME TypeOK, NEW s
  PROVE  /\ Recorded(s).nonce = lease.nonce /\ Recorded(s).run = lease.run
         /\ Recorded(s).worker = session.worker /\ Recorded(s).status = s
BY DEF TypeOK, Recorded, Lease

\* The last word on an attempt names the worker that ended.
LEMMA RecordFailureEffect ==
  ASSUME SessionInv, WorkersInv, RecordNoMaterial \/ RecordFailure
  PROVE  SessionEffect
<1>1. TypeOK /\ pc = "wait" /\ pc' = "finalize" /\ Done(session.worker)
      /\ UNCHANGED <<workers, pr, prOf, session, nonces>>
      /\ lease' \in {lease, Recorded("nonrecoverable")}
  BY DEF SessionInv, RecordNoMaterial, RecordFailure, Ended
<1>2. Suits(session.worker) /\ NobodyRuns
  BY <1>1, OwnWorkerEnded
<1> QED
  BY <1>1, <1>2, RecordedNames DEF SessionEffect, Ends

\* A failure is retried only when its worker has opened no pull request.
LEMMA RecordRetryableEffect ==
  ASSUME SessionInv, WorkersInv, RecordRetryable
  PROVE  SessionEffect
<1>1. TypeOK /\ pc = "wait" /\ pc' = "retry" /\ Done(session.worker) /\ RetryableFailure
      /\ UNCHANGED <<workers, pr, prOf, session, nonces>> /\ lease' = Recorded("reserved")
  BY DEF SessionInv, RecordRetryable, RetryableFailure, Ended
<1>2. lease.status = "reserved"
  BY <1>1 DEF SessionInv, SessionHoldsLease
<1>3. pr \notin {"open", "handed"}
  <2> SUFFICES ASSUME pr \in {"open", "handed"} PROVE FALSE
    OBVIOUS
  <2>1. prOf = session.worker /\ prOf # 0 /\ Executed(prOf)
    BY <1>1, OwnWorkerEnded DEF WorkersInv, MaterialIsOfLease
  <2>2. workers[session.worker].outcome \notin NotExecuted
    BY <1>1, <2>1 DEF Executed, Done
  <2>3. ~PublishedSince
    BY <1>1, <2>2 DEF RetryableFailure, Ended, NotExecuted
  <2>4. ~(session.worker >= session.first)
    BY <2>1, <2>3 DEF PublishedSince
  <2>5. Dormant(session.worker)
    BY <1>1, <2>4 DEF WorkersInv, EarlierAreDormant
  <2> QED
    BY <1>1, <2>1, <2>5 DEF Dormant, Done
<1> QED
  BY <1>1, <1>2, <1>3, RecordedNames DEF SessionEffect, Retries, SameSession

\* The retry renews the lease after its worker has ended.
LEMMA ReserveNextEffect ==
  ASSUME SessionInv, WorkersInv, ReserveNext
  PROVE  SessionEffect
<1>1. TypeOK /\ session \in Session /\ pc = "retry" /\ pc' = "dispatch"
      /\ UNCHANGED <<workers, pr, prOf>> /\ nonces' = nonces + 1
  BY DEF SessionInv, TypeOK, ReserveNext
<1>2. NobodyRuns /\ pr \notin {"open", "handed"}
  BY <1>1, OwnWorkerEnded DEF WorkersInv, NamesAreListed, MaterialIsOfLease
<1>3. lease'.nonce = nonces + 1 /\ lease'.worker = 0 /\ lease'.run = session.id
  <2>1. lease' = [Transferred(lease) EXCEPT !.attempts = NextAttempt, !.worker = 0,
                                            !.nonce = nonces + 1]
    BY DEF ReserveNext
  <2>2. Transferred(lease) \in Lease /\ Transferred(lease).run = session.id
    BY <1>1, TransferredType DEF TypeOK, Transferred, Lease
  <2> QED
    BY <2>1, <2>2 DEF Lease
<1>4. session'.id = session.id /\ session'.worker = 0 /\ session'.first = session.first
  <2>1. session' = [session EXCEPT !.attempt = NextAttempt, !.nonce = nonces + 1,
                                   !.worker = 0]
    BY DEF ReserveNext
  <2> QED
    BY <1>1, <2>1 DEF Session
<1> QED
  BY <1>1, <1>2, <1>3, <1>4 DEF SessionEffect, Renews

-----------------------------------------------------------------------------
(* The steps that change the workers, and the one that opens the pull request. *)

\* The worker that opens the pull request is the one that holds the lease.
LEMMA PublishWorkers ==
  ASSUME SessionInv, WorkersInv, NEW w \in DOMAIN workers, Publish(w)
  PROVE  WorkersInv'
<1>1. /\ workers[w].status = "running" /\ prOf' = w
      /\ UNCHANGED <<lease, workers, session, pc, nonces>>
  BY DEF Publish
<1>2. workers[w].nonce = lease.nonce /\ pc # "reserve" /\ Executed(w) /\ w # 0
  BY <1>1, WorkerNumbers DEF WorkersInv, RunningHolds, Executed, SessionInv
<1>3. pc # "retry"
  BY <1>1, OwnWorkerEnded DEF NobodyRuns, WorkersInv, NamesAreListed
<1>4. MaterialIsOfLease'
  BY <1>1, <1>2, <1>3 DEF MaterialIsOfLease, Executed, Done
<1>5. NoncesAreFresh' /\ NamesAreListed' /\ OwnWorkers'
  BY <1>1 DEF WorkersInv, NoncesAreFresh, NamesAreListed, OwnWorkers, Done, Listed, Carrying
<1>6. OneRunPerNonce' /\ RunningHolds'
  BY <1>1 DEF WorkersInv, OneRunPerNonce, RunningHolds, Executed, Done, Listed, Carrying
<1>7. EarlierAreDormant' /\ RunIsOfLease' /\ AuthorityIsCurrent'
  BY <1>1 DEF WorkersInv, EarlierAreDormant, RunIsOfLease, AuthorityIsCurrent, Dormant,
     Executed, Done, Carrying
<1> QED
  BY <1>4, <1>5, <1>6, <1>7 DEF WorkersInv


\* A dispatched worker can not run yet, and its run holds the lease.
LEMMA DispatchWorkers ==
  ASSUME SessionInv, WorkersInv, Dispatch
  PROVE  WorkersInv'
<1> DEFINE n == [nonce |-> session.nonce, run |-> session.id, head |-> session.head,
                 attempt |-> session.attempt, status |-> "posted", outcome |-> "none"]
           N == Len(workers) + 1
<1>1. TypeOK /\ workers \in Seq(Worker) /\ session.nonce = lease.nonce
  BY DEF SessionInv, TypeOK, SessionHoldsLease, Dispatch
<1>2. workers' = Append(workers, n) /\ pc = "dispatch" /\ pc' = "correlate"
      /\ UNCHANGED <<lease, pr, prOf, session, nonces>>
  BY DEF Dispatch
<1>3. /\ Len(workers) \in Nat /\ DOMAIN workers = 1 .. Len(workers)
      /\ \A w \in DOMAIN workers : workers[w].nonce \in Nat /\ workers[w].run \in Nat
      /\ lease.nonce \in Nat /\ nonces \in Nat /\ session.id \in Nat /\ session.first \in Nat
      /\ lease.worker \in Nat /\ prOf \in 0 .. Len(workers)
  BY <1>1, WorkerNumbers DEF TypeOK
<1>4. n.nonce = lease.nonce /\ n.run = session.id /\ n.status = "posted" /\ n.outcome = "none"
  BY <1>1
<1> HIDE DEF n
<1>5. /\ DOMAIN workers' = 1 .. N /\ Len(workers') = N /\ N \notin DOMAIN workers
      /\ \A w \in DOMAIN workers : w \in DOMAIN workers' /\ workers'[w] = workers[w]
      /\ \A w \in DOMAIN workers' : w # N => w \in DOMAIN workers
      /\ workers'[N] = n
  BY <1>1, <1>2, <1>3
<1>6. \A m : Listed(m)' = Listed(m)
  BY <1>4, <1>5 DEF Listed, Carrying
<1>7. /\ \A w \in DOMAIN workers' : Executed(w)' => w \in DOMAIN workers /\ Executed(w)
      /\ \A w \in DOMAIN workers : (Executed(w)' <=> Executed(w)) /\ (Done(w)' <=> Done(w))
                                   /\ (Dormant(w)' <=> Dormant(w))
  BY <1>4, <1>5 DEF Executed, Done, Dormant
<1>8. \A m : \A w \in Carrying(m)' : w = N \/ w \in Carrying(m)
  BY <1>5 DEF Carrying
<1>9. \A w \in DOMAIN workers' : w < session.first => w \in DOMAIN workers
  BY <1>2, <1>3, <1>5 DEF WorkersInv, OwnWorkers
<1>10. NoncesAreFresh'
  BY <1>2, <1>4, <1>5 DEF WorkersInv, NoncesAreFresh
<1>11. NamesAreListed'
  BY <1>2, <1>6 DEF WorkersInv, NamesAreListed
<1>12. OwnWorkers'
  BY <1>2, <1>3, <1>4, <1>5, <1>9 DEF WorkersInv, OwnWorkers
<1>13. OneRunPerNonce'
  <2> SUFFICES ASSUME NEW w \in DOMAIN workers', Executed(w)'
               PROVE  /\ \A v \in Carrying(workers[w].nonce)' : Executed(v)' => v = w
                      /\ workers'[w].nonce = lease'.nonce => lease'.worker \in {0, w}
    BY <1>2 DEF OneRunPerNonce
  <2>1. w \in DOMAIN workers /\ Executed(w) /\ workers'[w] = workers[w]
    BY <1>5, <1>7
  <2>2. ASSUME NEW v \in Carrying(workers[w].nonce)', Executed(v)' PROVE v = w
    <3>1. v \in DOMAIN workers /\ Executed(v) /\ workers'[v].nonce = workers'[w].nonce
      BY <1>7, <2>2 DEF Carrying
    <3>2. v \in Carrying(workers[w].nonce)
      BY <1>5, <2>1, <3>1 DEF Carrying
    <3> QED
      BY <2>1, <3>1, <3>2 DEF WorkersInv, OneRunPerNonce
  <2> QED
    BY <1>2, <2>1, <2>2 DEF WorkersInv, OneRunPerNonce
<1>14. RunningHolds'
  BY <1>2, <1>4, <1>5 DEF WorkersInv, RunningHolds
<1>15. EarlierAreDormant'
  <2>1. \A w \in Carrying(lease.nonce)' : w < session.first => Dormant(w)'
    BY <1>2, <1>5, <1>7, <1>9 DEF WorkersInv, EarlierAreDormant, Carrying
  <2> QED
    BY <1>2, <2>1 DEF EarlierAreDormant
<1>16. MaterialIsOfLease'
  BY <1>2, <1>3, <1>5, <1>7 DEF WorkersInv, MaterialIsOfLease
<1>17. RunIsOfLease'
  <2>1. ASSUME NEW w \in Carrying(lease.nonce)'
        PROVE  /\ workers'[w].status = "checked" => workers'[w].run = lease'.run
               /\ workers'[w].run = session'.id => lease'.run = session'.id
    <3>1. lease.run = session.id
      BY <1>2 DEF WorkersInv, RunIsOfLease
    <3>2. CASE w = N
      BY <1>2, <1>4, <1>5, <3>1, <3>2
    <3>3. CASE w \in Carrying(lease.nonce)
      BY <1>2, <1>5, <3>1, <3>3 DEF WorkersInv, RunIsOfLease, Carrying
    <3> QED
      BY <1>2, <1>8, <2>1, <3>2, <3>3
  <2> QED
    BY <1>2, <2>1 DEF RunIsOfLease
<1>18. AuthorityIsCurrent'
  <2>1. \A w \in Carrying(lease.nonce)' :
          workers'[w].outcome = "mismatch" => workers'[w] = LegacyWorker
    BY <1>2, <1>4, <1>5, <1>8 DEF WorkersInv, AuthorityIsCurrent, Carrying
  <2> QED
    BY <2>1 DEF AuthorityIsCurrent, LegacyWorker
<1> QED
  BY <1>10, <1>11, <1>12, <1>13, <1>14, <1>15, <1>16, <1>17, <1>18 DEF WorkersInv

\* What a worker may do to itself, and to nothing else.
WorkerEffect(w) ==
  /\ UNCHANGED <<lease, session, pc, nonces>>
  /\ DOMAIN workers' = DOMAIN workers
  /\ \A v \in DOMAIN workers :
       /\ v # w => workers'[v] = workers[v]
       /\ workers'[v].nonce = workers[v].nonce /\ workers'[v].run = workers[v].run
       /\ workers'[v].attempt = workers[v].attempt
  /\ ~Done(w) /\ workers'[w].status \in {"queued", "checked", "running", "done"}
  /\ workers'[w].status = "queued" => workers[w].status = "posted"
  /\ workers'[w].status = "checked" => workers[w].status = "queued" /\ Live(workers[w].run)
  /\ workers'[w].status = "running" =>
       workers[w].status = "checked" /\ HoldsActiveLease(w) /\ UniquelyCorrelated(w)
  /\ workers'[w].status = "done" =>
       (workers[w].status = "running" <=> workers'[w].outcome \notin NotExecuted)
  /\ workers'[w].outcome = "mismatch" =>
       workers[w].status = "checked" /\ lease.run # workers[w].run
  /\ UNCHANGED <<pr, prOf>>

\* Every step of a worker has that effect, or opens the pull request.
LEMMA WorkerStepEffect ==
  ASSUME SessionInv, NEW w \in DOMAIN workers, WorkerStep(w)
  PROVE  WorkerEffect(w) \/ Publish(w)
<1>1. WorkersOK
  BY TypeGroups DEF SessionInv
<1>2. ASSUME NEW s \in {"queued", "checked", "running", "done"},
             NEW o \in Outcomes \cup {"none"}, SetWorker(w, s, o)
      PROVE  /\ DOMAIN workers' = DOMAIN workers
             /\ \A v \in DOMAIN workers :
                  /\ v # w => workers'[v] = workers[v]
                  /\ workers'[v].nonce = workers[v].nonce /\ workers'[v].run = workers[v].run
                  /\ workers'[v].attempt = workers[v].attempt
             /\ workers'[w].status = s /\ workers'[w].outcome = o
  BY <1>1, <1>2, SetWorkerType
<1>3. CASE Appear(w)
  BY <1>2, <1>3 DEF Appear, WorkerEffect, Done, NotExecuted
<1>4. CASE CheckController(w)
  <2>1. "denied" \in Outcomes
    BY DEF Outcomes, NotExecuted
  <2>2. CASE Live(workers[w].run)
    BY <1>2, <1>4, <2>2 DEF CheckController, WorkerEffect, Done
  <2>3. CASE ~Live(workers[w].run)
    BY <1>2, <1>4, <2>1, <2>3 DEF CheckController, WorkerEffect, Done, NotExecuted
  <2> QED
    BY <2>2, <2>3
<1>5. CASE CheckLease(w)
  <2>1. {"denied", "mismatch"} \subseteq Outcomes
    BY DEF Outcomes, NotExecuted
  <2>2. CASE lease.run # workers[w].run
    BY <1>2, <1>5, <2>1, <2>2 DEF CheckLease, WorkerEffect, Done, NotExecuted
  <2>3. CASE lease.run = workers[w].run /\ HoldsActiveLease(w) /\ UniquelyCorrelated(w)
    BY <1>2, <1>5, <2>3 DEF CheckLease, WorkerEffect, Done
  <2>4. CASE lease.run = workers[w].run /\ ~(HoldsActiveLease(w) /\ UniquelyCorrelated(w))
    BY <1>2, <1>5, <2>1, <2>4 DEF CheckLease, WorkerEffect, Done, NotExecuted
  <2> QED
    BY <2>2, <2>3, <2>4
<1>6. CASE NeverStart(w)
  <2>1. "startup" \in Outcomes
    BY DEF Outcomes, NotExecuted
  <2> QED
    BY <1>2, <1>6, <2>1 DEF NeverStart, WorkerEffect, Done, NotExecuted
<1>7. ASSUME NEW o \in Endings, Finish(w, o)
      PROVE  WorkerEffect(w)
  <2>1. o \in Outcomes /\ o \notin NotExecuted
    BY DEF Outcomes, Endings, Successful, RebuildReports, NoMaterial, Broken, NotExecuted
  <2>2. o # "mismatch"
    BY <2>1 DEF NotExecuted
  <2> QED
    BY <1>2, <1>7, <2>1, <2>2 DEF Finish, WorkerEffect, Done
<1> QED
  BY <1>3, <1>4, <1>5, <1>6, <1>7 DEF WorkerStep

\* A worker that waits for its turn can only be refused, unless its session lives.
LEMMA DormantStays ==
  ASSUME NEW w \in DOMAIN workers, WorkerEffect(w), NEW v \in DOMAIN workers,
         Dormant(v), workers[v].run # session.id
  PROVE  Dormant(v)'
<1>1. CASE v # w
  BY <1>1 DEF WorkerEffect, Dormant, Done, Executed
<1>2. CASE v = w
  <2>1. workers[w].status \in {"posted", "queued"}
    BY <1>2 DEF WorkerEffect, Dormant
  <2>2. workers'[w].status # "checked" /\ workers'[w].status # "running"
    BY <1>2, <2>1 DEF WorkerEffect, Live
  <2>3. CASE workers'[w].status = "queued"
    BY <1>2, <2>3 DEF Dormant
  <2>4. CASE workers'[w].status = "done"
    <3>1. workers'[w].outcome \in NotExecuted
      BY <2>1, <2>4 DEF WorkerEffect
    <3> QED
      BY <1>2, <2>4, <3>1 DEF Dormant, Done, Executed
  <2> QED
    BY <2>2, <2>3, <2>4 DEF WorkerEffect
<1> QED
  BY <1>1, <1>2

\* Whoever was authorized stays so; only the check of the lease authorizes anybody.
LEMMA AuthorizedStays ==
  ASSUME NEW w \in DOMAIN workers, WorkerEffect(w), NEW v \in DOMAIN workers
  PROVE  /\ Executed(v) => Executed(v)'
         /\ Done(v) => Done(v)' /\ v # w
         /\ Executed(v)' => \/ Executed(v)
                            \/ v = w /\ workers'[w].status = "running"
<1>1. CASE v # w
  BY <1>1 DEF WorkerEffect, Executed, Done
<1>2. CASE v = w
  <2>1. ~Done(w) /\ workers'[w].status \in {"queued", "checked", "running", "done"}
    BY DEF WorkerEffect
  <2>2. Executed(w) => workers[w].status = "running"
    BY <2>1 DEF Executed
  <2>3. workers[w].status = "running" =>
          workers'[w].status = "done" /\ workers'[w].outcome \notin NotExecuted
    BY DEF WorkerEffect
  <2>4. Executed(w)' => workers[w].status = "running" \/ workers'[w].status = "running"
    BY DEF WorkerEffect, Executed, Done
  <2> QED
    BY <1>2, <2>1, <2>2, <2>3, <2>4 DEF Executed, Done
<1> QED
  BY <1>1, <1>2

\* The check of the lease lets the only worker that carries its nonce run.
LEMMA AuthorizedAlone ==
  ASSUME SessionInv, WorkersInv, NEW w \in DOMAIN workers, WorkerEffect(w),
         workers'[w].status = "running"
  PROVE  /\ lease.status = "reserved" /\ workers[w].nonce = lease.nonce /\ pc # "reserve"
         /\ Listed(lease.nonce) = {w} /\ lease.worker \in {0, w}
         /\ pc \in {"start", "wait", "retry"} => session.worker \in {0, w}
         /\ \A v \in Carrying(lease.nonce) : ~Executed(v)
<1>1. /\ workers[w].status = "checked" /\ lease.status = "reserved"
      /\ workers[w].nonce = lease.nonce /\ Listed(lease.nonce) = {w}
  BY DEF WorkerEffect, HoldsActiveLease, UniquelyCorrelated
<1>2. pc # "reserve"
  BY <1>1 DEF WorkersInv, RunningHolds, Listed
<1>3. lease.worker \in {0, w} /\ (pc \in {"start", "wait", "retry"} => session.worker \in {0, w})
  BY <1>1 DEF WorkersInv, NamesAreListed
<1>4. ASSUME NEW v \in Carrying(lease.nonce), Executed(v) PROVE FALSE
  <2>1. v \in DOMAIN workers /\ workers[v].nonce = lease.nonce
    BY <1>4 DEF Carrying
  <2>2. v \in Listed(lease.nonce) /\ workers[v].status # "checked"
    BY <1>4, <2>1, ExecutedListed
  <2> QED
    BY <1>1, <2>2
<1> QED
  BY <1>1, <1>2, <1>3, <1>4

\* The names and the numbers survive what a worker does.
LEMMA WorkerNonces ==
  ASSUME SessionInv, WorkersInv, NEW w \in DOMAIN workers, WorkerEffect(w)
  PROVE  NoncesAreFresh' /\ NamesAreListed' /\ OwnWorkers'
<1>1. NoncesAreFresh'
  BY DEF WorkersInv, NoncesAreFresh, WorkerEffect
<1>2. \A m, v : v \in Listed(m) => v \in Listed(m)'
  BY DEF WorkerEffect, Listed, Carrying
<1>3. pc = "retry" => Done(session.worker)'
  <2>1. ASSUME pc = "retry" PROVE Done(session.worker)'
    <3>1. session.worker \in DOMAIN workers /\ Done(session.worker)
      BY <2>1 DEF SessionInv, WorkerIsKnown, WorkersInv, NamesAreListed, Listed, Carrying
    <3> QED
      BY <3>1 DEF WorkerEffect, Done
  <2> QED
    BY <2>1
<1>4. NamesAreListed'
  BY <1>2, <1>3 DEF WorkersInv, NamesAreListed, WorkerEffect
<1>5. Len(workers') = Len(workers)
  <2>1. /\ workers \in Seq(Worker) /\ \A v \in DOMAIN workers' : v \in DOMAIN workers
        /\ Len(workers) \in Nat /\ DOMAIN workers = 1 .. Len(workers)
    BY WorkerNumbers DEF SessionInv, TypeOK, WorkerEffect
  <2> QED
    BY <2>1 DEF WorkerEffect
<1>6. OwnWorkers'
  BY <1>5 DEF WorkersInv, OwnWorkers, WorkerEffect
<1> QED
  BY <1>1, <1>4, <1>6

\* A nonce authorizes one worker, and never while a session reserves.
LEMMA WorkerRuns ==
  ASSUME SessionInv, WorkersInv, NEW w \in DOMAIN workers, WorkerEffect(w)
  PROVE  OneRunPerNonce' /\ RunningHolds'
<1>e. /\ DOMAIN workers' = DOMAIN workers /\ UNCHANGED <<lease, session, pc, nonces>>
      /\ \A v \in DOMAIN workers : workers'[v].nonce = workers[v].nonce
      /\ \A v \in DOMAIN workers : v # w => workers'[v] = workers[v]
  BY DEF WorkerEffect
<1>1. OneRunPerNonce'
  <2> SUFFICES ASSUME NEW x \in DOMAIN workers, Executed(x)'
               PROVE  /\ \A v \in DOMAIN workers :
                           workers[v].nonce = workers[x].nonce /\ Executed(v)' => v = x
                      /\ workers[x].nonce = lease.nonce =>
                           /\ lease.worker \in {0, x}
                           /\ pc \in {"start", "wait", "retry"} => session.worker \in {0, x}
    BY <1>e DEF OneRunPerNonce, Carrying
  <2>1. CASE workers'[w].status = "running"
    <3>1. /\ \A v \in DOMAIN workers : workers[v].nonce = lease.nonce => ~Executed(v)
          /\ workers[w].nonce = lease.nonce /\ lease.worker \in {0, w}
          /\ pc \in {"start", "wait", "retry"} => session.worker \in {0, w}
      BY <2>1, AuthorizedAlone DEF Carrying
    <3>2. \A v \in DOMAIN workers : Executed(v)' => v = w \/ Executed(v)
      BY AuthorizedStays
    <3> QED
      BY <3>1, <3>2 DEF WorkersInv, OneRunPerNonce, Carrying
  <2>2. CASE workers'[w].status # "running"
    <3>1. \A v \in DOMAIN workers : Executed(v)' => Executed(v)
      BY <2>2, AuthorizedStays
    <3> QED
      BY <3>1 DEF WorkersInv, OneRunPerNonce, Carrying
  <2> QED
    BY <2>1, <2>2
<1>2. ASSUME NEW v \in DOMAIN workers, workers'[v].status = "running"
      PROVE  lease.status = "reserved" /\ workers[v].nonce = lease.nonce /\ pc # "reserve"
  <2>1. CASE v = w
    BY <1>2, <2>1, AuthorizedAlone
  <2>2. CASE v # w
    BY <1>e, <1>2, <2>2 DEF WorkersInv, RunningHolds
  <2> QED
    BY <2>1, <2>2
<1>3. ASSUME pc = "reserve", lease.status = "reserved", NEW v \in DOMAIN workers,
             workers[v].nonce = lease.nonce, workers'[v].status = "checked"
      PROVE  Listed(lease.nonce)' # {v}
  <2>1. workers[v].status = "checked"
    <3>1. CASE v = w
      <4>1. workers[w].run = session.id
        BY <1>3, <3>1 DEF WorkerEffect, Live
      <4>2. workers[w].run < session.id /\ workers[w].run \in Nat /\ session.id \in Nat
        BY <1>3, WorkerNumbers DEF SessionInv, WorkersInv, OwnWorkers
      <4> QED
        BY <4>1, <4>2
    <3>2. CASE v # w
      BY <1>e, <1>3, <3>2
    <3> QED
      BY <3>1, <3>2
  <2>2. Listed(lease.nonce) # {v} /\ v \in Listed(lease.nonce)
    BY <1>3, <2>1 DEF WorkersInv, RunningHolds, Listed, Carrying
  <2>3. PICK u \in Listed(lease.nonce) : u # v
    BY <2>2
  <2>4. u \in Listed(lease.nonce)'
    BY <2>3 DEF WorkerEffect, Listed, Carrying
  <2> QED
    BY <2>3, <2>4
<1>4. RunningHolds'
  BY <1>e, <1>2, <1>3 DEF RunningHolds, Carrying
<1> QED
  BY <1>1, <1>4

\* Waiting workers stay harmless, and material comes from the authorized one.
LEMMA WorkerLease ==
  ASSUME SessionInv, WorkersInv, NEW w \in DOMAIN workers, WorkerEffect(w)
  PROVE  EarlierAreDormant' /\ MaterialIsOfLease' /\ RunIsOfLease' /\ AuthorityIsCurrent'
<1>e. /\ DOMAIN workers' = DOMAIN workers /\ UNCHANGED <<lease, session, pc, nonces>>
      /\ \A v \in DOMAIN workers :
           workers'[v].nonce = workers[v].nonce /\ workers'[v].run = workers[v].run
      /\ \A v \in DOMAIN workers : v # w => workers'[v] = workers[v]
  BY DEF WorkerEffect
<1>n. /\ DOMAIN workers = 1 .. Len(workers) /\ Len(workers) \in Nat
      /\ \A v \in DOMAIN workers : workers[v].run \in Nat
      /\ session.id \in Nat /\ session.first \in Nat /\ session.worker \in Nat
  BY WorkerNumbers DEF SessionInv
<1>1. EarlierAreDormant'
  <2>1. ASSUME NEW v \in DOMAIN workers, pc = "start", session.worker = 0,
               workers[v].nonce = lease.nonce
        PROVE  Dormant(v)'
    <3>1. Dormant(v) /\ workers[v].run < session.id
      BY <2>1 DEF WorkersInv, EarlierAreDormant, OwnWorkers, Carrying
    <3> QED
      BY <1>n, <3>1, DormantStays
  <2>2. ASSUME NEW v \in DOMAIN workers, pc \in {"dispatch", "correlate"},
               workers[v].nonce = lease.nonce, v < session.first
        PROVE  Dormant(v)'
    <3>1. Dormant(v) /\ workers[v].run < session.id
      BY <2>2 DEF WorkersInv, EarlierAreDormant, OwnWorkers, Carrying
    <3> QED
      BY <1>n, <3>1, DormantStays
  <2>3. ASSUME pc \in {"wait", "retry"}, ~(session.worker >= session.first)
        PROVE  Dormant(session.worker)'
    <3>1. session.worker \in DOMAIN workers
      BY <2>3 DEF SessionInv, WorkerIsKnown, WorkersInv, NamesAreListed, Listed, Carrying
    <3>2. Dormant(session.worker) /\ session.worker < session.first
      BY <1>n, <2>3 DEF WorkersInv, EarlierAreDormant
    <3>3. workers[session.worker].run < session.id
      BY <2>3, <3>1, <3>2 DEF WorkersInv, OwnWorkers
    <3>4. workers[session.worker].run # session.id
      BY <1>n, <3>1, <3>3
    <3>5. ASSUME NEW u \in DOMAIN workers, u = session.worker PROVE Dormant(u)'
      BY <3>2, <3>4, <3>5, DormantStays
    <3> QED
      BY <1>e, <3>1, <3>5 DEF Dormant, Done, Executed
  <2> QED
    BY <1>e, <2>1, <2>2, <2>3 DEF EarlierAreDormant, Carrying
<1>2. MaterialIsOfLease'
  <2> SUFFICES ASSUME pr \in {"open", "handed"}
               PROVE  /\ prOf # 0 /\ Executed(prOf)'
                      /\ workers'[prOf].nonce = lease.nonce /\ pc \notin {"reserve", "retry"}
    BY <1>e DEF WorkerEffect, MaterialIsOfLease, Executed, Done
  <2>1. /\ prOf # 0 /\ Executed(prOf) /\ workers[prOf].nonce = lease.nonce
        /\ pc \notin {"reserve", "retry"}
    BY DEF WorkersInv, MaterialIsOfLease
  <2>2. prOf \in DOMAIN workers
    BY <1>n, <2>1 DEF SessionInv, TypeOK
  <2>3. Executed(prOf)'
    <3>1. ASSUME NEW u \in DOMAIN workers, u = prOf PROVE Executed(u)'
      BY <2>1, <3>1, AuthorizedStays
    <3> QED
      BY <2>2, <3>1 DEF WorkerEffect, Executed, Done
  <2> QED
    BY <1>e, <2>1, <2>2, <2>3
<1>3. RunIsOfLease'
  <2>1. ASSUME NEW v \in DOMAIN workers, workers[v].nonce = lease.nonce
        PROVE  /\ workers'[v].status = "checked" => workers[v].run = lease.run
               /\ workers[v].run = session.id /\ pc # "idle" => lease.run = session.id
    <3>1. /\ workers[v].status = "checked" => workers[v].run = lease.run
          /\ workers[v].run = session.id /\ pc # "idle" => lease.run = session.id
      BY <2>1 DEF WorkersInv, RunIsOfLease, Carrying
    <3>2. CASE v = w
      BY <3>1, <3>2 DEF WorkerEffect, Live
    <3>3. CASE v # w
      BY <1>e, <3>1, <3>3
    <3> QED
      BY <3>1, <3>2, <3>3
  <2>2. pc = "dispatch" => lease.run = session.id
    BY DEF WorkersInv, RunIsOfLease
  <2> QED
    BY <1>e, <2>1, <2>2 DEF RunIsOfLease, Carrying
<1>4. AuthorityIsCurrent'
  <2>1. ASSUME NEW v \in DOMAIN workers, workers[v].nonce = lease.nonce,
               workers'[v].outcome = "mismatch"
        PROVE  workers'[v] = LegacyWorker
    <3>1. CASE v = w
      BY <2>1, <3>1 DEF WorkerEffect, WorkersInv, RunIsOfLease, Carrying
    <3>2. CASE v # w
      BY <1>e, <2>1, <3>2 DEF WorkersInv, AuthorityIsCurrent, Carrying
    <3> QED
      BY <3>1, <3>2
  <2> QED
    BY <1>e, <2>1 DEF AuthorityIsCurrent, Carrying, LegacyWorker
<1> QED
  BY <1>1, <1>2, <1>3, <1>4

-----------------------------------------------------------------------------
(* The theorems about the workers.                                           *)

\* No worker, or only the refused one of an earlier control plane.
LEMMA WorkersInvInit == Init => WorkersInv
<1> SUFFICES ASSUME Init PROVE WorkersInv
  OBVIOUS
<1>1. session = NoSession /\ pc = "idle" /\ pr = "none"
  BY DEF Init
<1>2. CASE lease = NoLease /\ workers = <<>> /\ nonces = 0
  <2>1. DOMAIN workers = {} /\ lease.nonce = 0 /\ lease.worker = 0
    BY <1>2 DEF NoLease
  <2> QED
    BY <1>1, <1>2, <2>1 DEF WorkersInv, NoncesAreFresh, NamesAreListed, OwnWorkers,
       OneRunPerNonce, RunningHolds, EarlierAreDormant, MaterialIsOfLease, RunIsOfLease,
       AuthorityIsCurrent, Carrying
<1>3. CASE lease \in {LegacyLease, LegacyEscalation} /\ workers = <<LegacyWorker>> /\ nonces = 1
  <2>1. lease.nonce = 1 /\ lease.worker = 1
    <3>1. LegacyLease.nonce = 1 /\ LegacyLease.worker = 1
      BY EmptyTypes DEF LegacyLease, Lease
    <3>2. LegacyEscalation.nonce = 1 /\ LegacyEscalation.worker = 1
      BY <3>1, EmptyTypes DEF LegacyEscalation, Lease
    <3> QED
      BY <1>3, <3>1, <3>2
  <2>2. DOMAIN workers = {1} /\ workers[1] = LegacyWorker
    BY <1>3
  <2>3. /\ workers[1].nonce = 1 /\ workers[1].run = 1 /\ workers[1].status = "done"
        /\ workers[1].outcome = "mismatch" /\ session.id = 1
    BY <1>1, <2>2 DEF LegacyWorker, NoSession
  <2>4. Listed(1) = {1} /\ Carrying(1) = {1} /\ ~Executed(1)
    BY <2>2, <2>3 DEF Listed, Carrying, Executed, Done, NotExecuted
  <2> QED
    BY <1>1, <1>3, <2>1, <2>2, <2>3, <2>4 DEF WorkersInv, NoncesAreFresh, NamesAreListed,
       OwnWorkers, OneRunPerNonce, RunningHolds, EarlierAreDormant, MaterialIsOfLease,
       RunIsOfLease, AuthorityIsCurrent
<1> QED
  BY <1>2, <1>3 DEF Init

\* Every step keeps the invariant of the workers.
LEMMA WorkersInvNext == SessionInv /\ WorkersInv /\ [Next]_vars => WorkersInv'
<1> SUFFICES ASSUME SessionInv, WorkersInv, [Next]_vars PROVE WorkersInv'
  OBVIOUS
<1>1. SessionEffect => WorkersInv'
  BY EffectNonces, EffectRuns, EffectLease DEF WorkersInv
<1>2. CASE AdvanceControlPlane \/ EditIssue \/ ClosePullRequest \/ Trigger \/ UNCHANGED vars
  BY <1>1, <1>2, EnvironmentEffect
<1>3. CASE \E b \in BOOLEAN : StartRun(b)
  BY <1>1, <1>3, StartRunEffect
<1>4. CASE \E w \in DOMAIN workers : WorkerStep(w)
  BY <1>4, WorkerStepEffect, WorkerNonces, WorkerRuns, WorkerLease, PublishWorkers DEF WorkersInv
<1>5. CASE GuardStops \/ Finalize
  BY <1>1, <1>5, GuardEndsEffect
<1>6. CASE NeedsScope \/ HandOver \/ Crash
  BY <1>1, <1>6, QuietEndsEffect
<1>7. CASE \/ ReserveRefused \/ CorrelateAmbiguous \/ BudgetExhausted \/ TimeOut \/ Fail
           \/ ObserveMaterial
  BY <1>1, <1>7, GivesUpEffect
<1>8. CASE GuardReserves
  BY <1>1, <1>8, GuardReservesEffect
<1>9. CASE GuardReuses
  BY <1>1, <1>9, GuardReusesEffect
<1>10. CASE GuardRecovers
  BY <1>1, <1>10, GuardRecoversEffect
<1>11. CASE Reserve
  BY <1>1, <1>11, ReserveEffect
<1>12. CASE StartRecovered \/ StartWithAuthority
  BY <1>1, <1>12, StartEffect
<1>13. CASE Dispatch
  BY <1>13, DispatchWorkers
<1>14. CASE \E w \in DOMAIN workers : Correlate(w)
  BY <1>1, <1>14, CorrelateEffect
<1>15. CASE RecordNoMaterial \/ RecordFailure
  BY <1>1, <1>15, RecordFailureEffect
<1>16. CASE RecordRetryable
  BY <1>1, <1>16, RecordRetryableEffect
<1>17. CASE ReserveNext
  BY <1>1, <1>17, ReserveNextEffect
<1> QED
  BY <1>2, <1>3, <1>4, <1>5, <1>6, <1>7, <1>8, <1>9, <1>10, <1>11, <1>12, <1>13,
     <1>14, <1>15, <1>16, <1>17 DEF Next, SessionStep

\* The invariant of the workers always holds.
LEMMA WorkersInvHolds == Spec => []WorkersInv
BY SessionInvHolds, WorkersInvInit, WorkersInvNext, PTL DEF Spec

\* Whatever dies, appears late or is dispatched twice, two initial workers never
\* run together: both would hold the lease, and a nonce authorizes one of them.
THEOREM WorkersRunAlone == Spec => []OneWorkerRuns
<1>1. WorkersInv => OneWorkerRuns
  BY DEF WorkersInv, OneRunPerNonce, RunningHolds, OneWorkerRuns, Executed, Carrying
<1> QED
  BY <1>1, WorkersInvHolds, PTL

\* Published material ends the bootstrap: the worker that opened the pull request
\* was the one the lease authorized, and while it is open no other runs.
THEOREM MaterialStands == Spec => []MaterialEndsBootstrap
<1>1. WorkersInv /\ SessionInv => MaterialEndsBootstrap
  <2> SUFFICES ASSUME WorkersInv, SessionInv, pr \in {"open", "handed"},
                      NEW w \in DOMAIN workers, workers[w].status = "running"
               PROVE  w = prOf
    BY DEF MaterialEndsBootstrap
  <2>1. /\ prOf # 0 /\ Executed(prOf) /\ workers[prOf].nonce = lease.nonce
        /\ prOf \in 0 .. Len(workers)
    BY DEF WorkersInv, MaterialIsOfLease, SessionInv, TypeOK
  <2>2. prOf \in Carrying(lease.nonce)
    BY <2>1, WorkerNumbers DEF SessionInv, Carrying
  <2>3. Executed(w) /\ workers[w].nonce = lease.nonce
    BY DEF WorkersInv, RunningHolds, Executed
  <2> QED
    BY <2>1, <2>2, <2>3 DEF WorkersInv, OneRunPerNonce
<1> QED
  BY <1>1, WorkersInvHolds, SessionInvHolds, PTL

\* No worker of the lease is refused because the lease names another run.
THEOREM AuthorityHolds == Spec => []AuthorityIsCurrent
<1>1. WorkersInv => AuthorityIsCurrent
  BY DEF WorkersInv
<1> QED
  BY <1>1, WorkersInvHolds, PTL

-----------------------------------------------------------------------------
(* The inductive invariant of the grants.                                    *)

(* The control planes of the lease, of the session and of the run that waits    *)
(* are older than the released one, and in the order of the sessions.          *)
HeadsInOrder ==
  /\ PreviousHead <= head /\ queued <= head
  /\ pc # "idle" =>
       /\ session.sha <= session.head /\ session.head <= head /\ session.head # 0
       /\ PreviousHead <= session.head
       /\ queued # 0 => session.head <= queued

(* The lease remembers the last control plane that granted a recovery, also     *)
(* when a session of an older commit takes it over: every later session starts  *)
(* from a commit that is at least as new as those grants.                      *)
RecoveriesInOrder ==
  \A g \in grants : g.reason = "grant" =>
    /\ g.key <= PreviousHead
    /\ queued # 0 => g.key <= queued
    /\ pc \in {"guard", "reserve"} => g.key <= session.sha
    /\ pc # "idle" => g.key <= session.sha \/ lease.recovery = session.head

(* The lease remembers the last version of the issue that granted a dispatch.   *)
ContractsInOrder ==
  /\ lease.contract <= contract
  /\ \A g \in grants : g.reason = "rearm-contract" => g.key <= lease.contract

(* A worker that was rejected or refused, and replaced, lost its lease for good. *)
RejectedAreReplaced ==
  /\ lease.failure.kind # "none" => lease.failure.worker # 0
  /\ \A g \in grants : g.reason \in {"rearm-scope", "rearm-legacy"} =>
       g.key \in DOMAIN workers /\ workers[g.key].nonce # lease.nonce

GrantsInv ==
  /\ HeadsInOrder /\ RecoveriesInOrder /\ ContractsInOrder /\ RejectedAreReplaced
  /\ OneGrantPerCause

\* The numbers that the parts of the invariant compare.
LEMMA GrantNumbers ==
  ASSUME TypeOK
  PROVE  /\ head \in Nat /\ queued \in Nat /\ contract \in Nat /\ nonces \in Nat
         /\ PreviousHead \in Nat /\ lease.head \in Nat /\ lease.recovery \in Nat
         /\ lease.contract \in Nat /\ session.head \in Nat /\ session.sha \in Nat
         /\ \A g \in grants : g.key \in Nat
<1>1. lease \in Lease /\ session \in Session
  BY DEF TypeOK
<1>2. PreviousHead \in Nat /\ lease.head \in Nat /\ lease.recovery \in Nat
      /\ lease.contract \in Nat /\ session.head \in Nat /\ session.sha \in Nat
  BY <1>1 DEF Lease, Session, PreviousHead
<1> QED
  BY <1>2, EnvironmentAssumption DEF TypeOK

\* The workers keep their nonces, which are all old.
KeptNonces ==
  /\ \A w \in DOMAIN workers : w \in DOMAIN workers' /\ workers'[w].nonce = workers[w].nonce

\* A step that grants nothing and writes nothing that a grant is judged by.
Leaves ==
  /\ UNCHANGED <<world, grants>> /\ KeptNonces
  /\ PreviousHead' = PreviousHead /\ lease'.recovery = lease.recovery
  /\ lease'.contract = lease.contract /\ lease'.nonce = lease.nonce
  /\ lease'.failure.kind # "none" => lease'.failure.worker # 0
  /\ \/ pc' = "idle"
     \/ /\ session'.head = session.head /\ session'.sha = session.sha /\ pc # "idle"
        /\ pc' \in {"guard", "reserve"} => pc \in {"guard", "reserve"}

\* Such a step keeps the invariant.
LEMMA LeavesGrants ==
  ASSUME SessionInv, GrantsInv, Leaves
  PROVE  GrantsInv'
<1>1. HeadsInOrder'
  BY DEF GrantsInv, HeadsInOrder, Leaves, world
<1>2. RecoveriesInOrder'
  BY DEF GrantsInv, RecoveriesInOrder, Leaves, world
<1>3. ContractsInOrder'
  BY DEF GrantsInv, ContractsInOrder, Leaves, world
<1>4. RejectedAreReplaced'
  BY DEF GrantsInv, RejectedAreReplaced, Leaves, KeptNonces
<1>5. OneGrantPerCause'
  BY DEF GrantsInv, OneGrantPerCause, Leaves
<1> QED
  BY <1>1, <1>2, <1>3, <1>4, <1>5 DEF GrantsInv

\* A release, an edit and a dispatch only make what is current newer.
LEMMA EnvironmentGrants ==
  ASSUME SessionInv, GrantsInv,
         \/ AdvanceControlPlane \/ EditIssue \/ ClosePullRequest \/ Trigger
         \/ UNCHANGED vars
  PROVE  GrantsInv'
<1>1. TypeOK /\ UNCHANGED <<lease, workers, session, pc, grants>>
  BY DEF SessionInv, AdvanceControlPlane, EditIssue, ClosePullRequest, Trigger, vars
<1>2. head <= head' /\ contract <= contract' /\ queued' \in {queued, head}
  BY <1>1, GrantNumbers
  DEF AdvanceControlPlane, EditIssue, ClosePullRequest, Trigger, vars, world
<1>3. head' \in Nat /\ contract' \in Nat /\ queued' \in Nat
  BY <1>1, <1>2, GrantNumbers
  DEF AdvanceControlPlane, EditIssue, ClosePullRequest, Trigger, vars, world
<1>4. PreviousHead' = PreviousHead
  BY <1>1 DEF PreviousHead
<1>5. HeadsInOrder'
  <2>1. PreviousHead <= head' /\ queued' <= head'
    BY <1>1, <1>2, <1>3, GrantNumbers DEF GrantsInv, HeadsInOrder
  <2>2. pc # "idle" => session.head <= head' /\ (queued' # 0 => session.head <= queued')
    BY <1>1, <1>2, <1>3, GrantNumbers DEF GrantsInv, HeadsInOrder
  <2> QED
    BY <1>1, <1>4, <2>1, <2>2 DEF GrantsInv, HeadsInOrder
<1>6. RecoveriesInOrder'
  BY <1>1, <1>2, <1>3, <1>4, GrantNumbers DEF GrantsInv, HeadsInOrder, RecoveriesInOrder
<1>7. ContractsInOrder'
  BY <1>1, <1>2, <1>3, GrantNumbers DEF GrantsInv, ContractsInOrder
<1>8. RejectedAreReplaced' /\ OneGrantPerCause'
  BY <1>1 DEF GrantsInv, RejectedAreReplaced, OneGrantPerCause
<1> QED
  BY <1>5, <1>6, <1>7, <1>8 DEF GrantsInv

\* A session starts from the commit of its dispatch, on the control plane of the moment.
LEMMA StartRunGrants ==
  ASSUME SessionInv, GrantsInv, NEW b \in BOOLEAN, StartRun(b)
  PROVE  GrantsInv'
<1>1. TypeOK /\ queued # 0 /\ queued' = 0 /\ pc' = "guard"
      /\ UNCHANGED <<head, contract, lease, workers, grants>>
  BY DEF SessionInv, StartRun
<1>2. session'.sha = queued /\ session'.head = head
  BY DEF StartRun, NoSession
<1>3. head # 0 /\ PreviousHead' = PreviousHead
  BY <1>1, EnvironmentAssumption DEF TypeOK, PreviousHead
<1>4. HeadsInOrder'
  BY <1>1, <1>2, <1>3, GrantNumbers DEF GrantsInv, HeadsInOrder
<1>5. RecoveriesInOrder'
  BY <1>1, <1>2, <1>3 DEF GrantsInv, RecoveriesInOrder
<1>6. ContractsInOrder' /\ RejectedAreReplaced' /\ OneGrantPerCause'
  BY <1>1 DEF GrantsInv, ContractsInOrder, RejectedAreReplaced, OneGrantPerCause
<1> QED
  BY <1>4, <1>5, <1>6 DEF GrantsInv

\* The workers decide nothing about grants.
LEMMA WorkerGrants ==
  ASSUME SessionInv, GrantsInv, NEW w \in DOMAIN workers, WorkerStep(w)
  PROVE  GrantsInv'
<1>1. (WorkerEffect(w) \/ Publish(w)) /\ UNCHANGED <<world, lease, session, pc, nonces, grants>>
  BY WorkerStepEffect DEF WorkerStep, Appear, CheckController, CheckLease, NeverStart, Publish, Finish
<1>2. PreviousHead' = PreviousHead
  BY <1>1 DEF PreviousHead
<1>3. KeptNonces
  BY <1>1 DEF KeptNonces, WorkerEffect, Publish
<1> QED
  BY <1>1, <1>2, <1>3, LeavesGrants DEF Leaves, GrantsInv, RejectedAreReplaced

-----------------------------------------------------------------------------
(* The grants of the guard and of the reservation.                           *)

\* What makes the guard dispatch once more on an attempt that was run.
LEMMA DecisionGrounds ==
  ASSUME TypeOK
  PROVE  /\ Decision = "rearm-contract" => lease.contract # contract
         /\ Decision = "rearm-scope" => ScopeCorrected
         /\ Decision = "rearm-legacy" => LegacyMismatch
<1>1. pr \in {"none", "open", "handed", "closed"}
      /\ lease.status \in {"none", "reserved", "exhausted", "nonrecoverable"}
  BY DEF TypeOK, Lease, Statuses
<1>2. CASE pr \in {"open", "handed"} \/ Ambiguous
  BY <1>2 DEF Decision
<1>3. CASE pr \in {"none", "closed"} /\ ~Ambiguous
  <2>1. Decision = DecideWithoutPullRequest
    BY <1>3 DEF Decision
  <2>2. CASE lease.status = "none"
    BY <2>1, <2>2 DEF DecideWithoutPullRequest
  <2>3. CASE lease.status = "exhausted"
    BY <2>1, <2>3 DEF DecideWithoutPullRequest
  <2>4. CASE lease.status = "nonrecoverable"
    BY <2>1, <2>4 DEF DecideWithoutPullRequest
  <2>5. CASE lease.status = "reserved"
    <3>1. Decision = DecideReserved
      BY <2>1, <2>5 DEF DecideWithoutPullRequest
    <3>2. DecideAfterFailure("retry") \in {"retry", "exhaust", "stop"}
      BY DEF DecideAfterFailure
    <3> QED
      BY <3>1, <3>2 DEF DecideReserved
  <2> QED
    BY <1>1, <2>2, <2>3, <2>4, <2>5
<1> QED
  BY <1>1, <1>2, <1>3

\* A replaced dispatch is granted for a cause that has granted none before.
LEMMA RearmGrants ==
  ASSUME SessionInv, WorkersInv, GrantsInv, PersistMutation(Decision), Decision \in Rearms,
         pc # "idle", UNCHANGED <<world, workers>>,
         \/ pc' = "idle"
         \/ pc = "guard" /\ pc' = "start" /\ session'.head = session.head
            /\ session'.sha = session.sha
  PROVE  GrantsInv'
<1> DEFINE new == GrantOf(Decision)
<1>1. TypeOK /\ lease \in Lease /\ UNCHANGED <<head, contract, queued>>
  BY DEF SessionInv, TypeOK, world
<1>2. lease' = Rearmed(Decision) /\ nonces' = nonces + 1 /\ grants' = grants \cup {new}
  BY DEF PersistMutation, Rearms
<1>3. /\ lease'.head = session.head /\ lease'.nonce = nonces + 1
      /\ lease'.recovery = IF Decision = "rearm-scope" THEN 0 ELSE session.head
      /\ lease'.contract = IF Decision = "rearm-legacy" THEN lease.contract ELSE contract
      /\ lease'.failure = IF Decision = "rearm-contract" THEN lease.failure ELSE NoFailure
  BY <1>1, <1>2 DEF Rearmed, Lease
<1>4. new.reason = Decision /\ new.key = IF Decision = "rearm-contract" THEN contract
                                         ELSE Recovered
  BY DEF GrantOf, Rearms
<1>5. Decision \in {"rearm-scope", "rearm-legacy"} =>
        /\ Recovered \in DOMAIN workers /\ workers[Recovered].nonce = lease.nonce
  <2>1. ASSUME Decision \in {"rearm-scope", "rearm-legacy"} PROVE Recovered # 0
    BY <1>1, <2>1, DecisionGrounds
    DEF ScopeCorrected, LegacyMismatch, GrantsInv, RejectedAreReplaced
  <2> QED
    BY <2>1, RecoveredIsListed DEF Listed, Carrying
<1>6. \A w \in DOMAIN workers : workers[w].nonce # nonces + 1
  BY <1>1, WorkerNumbers DEF WorkersInv, NoncesAreFresh
<1>7. PreviousHead' = session.head
  BY <1>3 DEF PreviousHead
<1> HIDE DEF new
<1>8. HeadsInOrder'
  BY <1>1, <1>7, GrantNumbers DEF GrantsInv, HeadsInOrder
<1>9. RecoveriesInOrder'
  <2>1. ASSUME NEW g \in grants, g.reason = "grant"
        PROVE  /\ g.key <= session.head /\ (queued # 0 => g.key <= queued)
               /\ pc = "guard" => g.key <= session.sha
    BY <1>1, <2>1, GrantNumbers DEF GrantsInv, RecoveriesInOrder, HeadsInOrder
  <2> QED
    BY <1>1, <1>2, <1>4, <1>7, <2>1 DEF RecoveriesInOrder, Rearms
<1>10. ContractsInOrder'
  <2>1. \A g \in grants : g.reason = "rearm-contract" =>
          g.key <= lease.contract /\ g.key <= contract
    BY <1>1, GrantNumbers DEF GrantsInv, ContractsInOrder
  <2>2. lease'.contract <= contract
    BY <1>1, <1>3, GrantNumbers DEF GrantsInv, ContractsInOrder
  <2> QED
    BY <1>1, <1>2, <1>3, <1>4, <2>1, <2>2, GrantNumbers DEF ContractsInOrder
<1>11. RejectedAreReplaced'
  <2>1. lease'.failure.kind # "none" => lease'.failure.worker # 0
    BY <1>3 DEF GrantsInv, RejectedAreReplaced, NoFailure
  <2>2. ASSUME NEW g \in grants', g.reason \in {"rearm-scope", "rearm-legacy"}
        PROVE  g.key \in DOMAIN workers /\ workers[g.key].nonce # nonces + 1
    BY <1>2, <1>4, <1>5, <1>6, <2>2 DEF GrantsInv, RejectedAreReplaced
  <2> QED
    BY <1>3, <2>1, <2>2 DEF RejectedAreReplaced
<1>12. OneGrantPerCause'
  <2>1. ASSUME NEW g \in grants PROVE ~(g.reason = new.reason /\ g.key = new.key)
    <3>1. CASE Decision = "rearm-contract"
      <4>1. lease.contract # contract /\ lease.contract <= contract
        BY <1>1, <3>1, DecisionGrounds DEF GrantsInv, ContractsInOrder
      <4> QED
        BY <1>1, <1>4, <3>1, <4>1, GrantNumbers DEF GrantsInv, ContractsInOrder
    <3>2. CASE Decision \in {"rearm-scope", "rearm-legacy"}
      BY <1>4, <1>5, <3>2 DEF GrantsInv, RejectedAreReplaced
    <3> QED
      BY <3>1, <3>2 DEF Rearms
  <2> QED
    BY <1>2, <2>1 DEF GrantsInv, OneGrantPerCause
<1> QED
  BY <1>8, <1>9, <1>10, <1>11, <1>12 DEF GrantsInv

\* The guard ends, or hands a lease to the controller.
LEMMA GuardGrants ==
  ASSUME SessionInv, WorkersInv, GrantsInv, GuardStops \/ GuardReuses \/ Finalize
  PROVE  GrantsInv'
<1>1. /\ PersistMutation(Decision) /\ pc # "idle" /\ UNCHANGED <<world, workers>>
      /\ TypeOK /\ lease \in Lease
      /\ \/ pc' = "idle"
         \/ pc = "guard" /\ pc' = "start" /\ session'.head = session.head
            /\ session'.sha = session.sha
  BY DEF SessionInv, TypeOK, Session, GuardStops, GuardReuses, Finalize, SessionEnd
<1>2. CASE Decision \in Rearms
  BY <1>1, <1>2, RearmGrants
<1>3. CASE Decision = "exhaust"
  <2>1. lease' = ExhaustedLease /\ UNCHANGED grants
    BY <1>1, <1>3 DEF PersistMutation, Rearms
  <2>2. /\ lease'.recovery = lease.recovery /\ lease'.contract = lease.contract
        /\ lease'.nonce = lease.nonce /\ lease'.failure = lease.failure
        /\ lease'.head = PreviousHead
    BY <1>1, <2>1 DEF ExhaustedLease, Lease
  <2>3. PreviousHead' = PreviousHead
    BY <2>2 DEF PreviousHead
  <2> QED
    BY <1>1, <2>1, <2>2, <2>3, LeavesGrants
    DEF Leaves, KeptNonces, GrantsInv, RejectedAreReplaced
<1>4. CASE Decision \notin Rearms \cup {"exhaust"}
  <2>1. UNCHANGED <<lease, grants>>
    BY <1>1, <1>4 DEF PersistMutation
  <2> QED
    BY <1>1, <2>1, LeavesGrants
    DEF Leaves, KeptNonces, GrantsInv, RejectedAreReplaced, PreviousHead
<1> QED
  BY <1>2, <1>3, <1>4

\* The reservation grants a recovery to a control plane newer than all that had one.
LEMMA ReserveGrants ==
  ASSUME SessionInv, WorkersInv, GrantsInv, Reserve
  PROVE  GrantsInv'
<1> DEFINE new == GrantOf("grant")
<1>1. TypeOK /\ pc = "reserve" /\ pc' = "start" /\ UNCHANGED <<head, contract, queued, workers>>
  BY DEF SessionInv, Reserve, world
<1>2. /\ lease'.head = session.head /\ lease'.nonce = nonces + 1
      /\ lease'.recovery = IF RecoveryGranted THEN session.head ELSE 0
      /\ lease'.contract = contract /\ lease'.failure = NoFailure
  <2>1. lease' = [NoLease EXCEPT !.status = "reserved", !.attempts = session.prior + 1,
                                 !.run = session.id, !.head = session.head,
                                 !.nonce = nonces + 1, !.contract = contract,
                                 !.recovery = IF RecoveryGranted THEN session.head ELSE 0]
    BY DEF Reserve
  <2> QED
    BY <2>1 DEF NoLease
<1>3. session'.head = session.head /\ session'.sha = session.sha
  BY <1>1 DEF Reserve, TypeOK, Session
<1>4. grants' = IF RecoveryGranted THEN grants \cup {new} ELSE grants
  BY DEF Reserve
<1>5. new.reason = "grant" /\ new.key = session.head
  BY DEF GrantOf
<1>6. PreviousHead' = session.head
  BY <1>2 DEF PreviousHead
<1> HIDE DEF new
<1>7. HeadsInOrder'
  BY <1>1, <1>3, <1>6, GrantNumbers DEF GrantsInv, HeadsInOrder
<1>8. RecoveriesInOrder'
  <2>1. ASSUME NEW g \in grants, g.reason = "grant"
        PROVE  g.key <= session.head /\ (queued # 0 => g.key <= queued) /\ g.key <= session.sha
    BY <1>1, <2>1, GrantNumbers DEF GrantsInv, RecoveriesInOrder, HeadsInOrder
  <2>2. queued # 0 => session.head <= queued
    BY <1>1 DEF GrantsInv, HeadsInOrder
  <2>3. CASE RecoveryGranted
    BY <1>1, <1>2, <1>3, <1>4, <1>5, <1>6, <2>1, <2>2, <2>3, GrantNumbers
    DEF RecoveriesInOrder
  <2>4. CASE ~RecoveryGranted
    BY <1>1, <1>3, <1>4, <1>6, <2>1, <2>4 DEF RecoveriesInOrder
  <2> QED
    BY <2>3, <2>4
<1>9. ContractsInOrder'
  <2>1. \A g \in grants : g.reason = "rearm-contract" => g.key <= contract
    BY <1>1, GrantNumbers DEF GrantsInv, ContractsInOrder
  <2> QED
    BY <1>1, <1>2, <1>4, <1>5, <2>1, GrantNumbers DEF ContractsInOrder
<1>10. RejectedAreReplaced'
  <2>1. \A w \in DOMAIN workers : workers[w].nonce # nonces + 1
    BY <1>1, WorkerNumbers DEF WorkersInv, NoncesAreFresh
  <2> QED
    BY <1>1, <1>2, <1>4, <1>5, <2>1 DEF GrantsInv, RejectedAreReplaced, NoFailure
<1>11. OneGrantPerCause'
  <2>1. ASSUME RecoveryGranted, NEW g \in grants, g.reason = "grant"
        PROVE  g.key # session.head
    <3>1. PreviousHead # session.head /\ PreviousHead <= session.head /\ g.key <= PreviousHead
      BY <1>1, <2>1
      DEF RecoveryGranted, ControlPlaneChanged, GrantsInv, HeadsInOrder, RecoveriesInOrder
    <3> QED
      BY <1>1, <3>1, GrantNumbers
  <2> QED
    BY <1>4, <1>5, <2>1 DEF GrantsInv, OneGrantPerCause
<1> QED
  BY <1>7, <1>8, <1>9, <1>10, <1>11 DEF GrantsInv

\* The controller that takes the lease over, at once or for the next attempt, may be
\* of an older commit than the one that was granted, never of one older than the rest.
LEMMA TransferGrants ==
  ASSUME SessionInv, WorkersInv, GrantsInv, StartWithAuthority \/ ReserveNext
  PROVE  GrantsInv'
<1>1. TypeOK /\ lease \in Lease /\ session \in Session
      /\ UNCHANGED <<head, contract, queued, workers, grants>>
      /\ pc # "idle" /\ pc' = "dispatch"
  BY DEF SessionInv, TypeOK, StartWithAuthority, ReserveNext, world
<1>2. Transferred(lease) \in Lease
  BY <1>1, TransferredType
<1>3. /\ lease'.head = session.sha /\ lease'.recovery = lease.recovery
      /\ lease'.contract = lease.contract /\ lease'.failure = lease.failure
      /\ lease'.nonce \in {lease.nonce, nonces + 1}
  <2>1. /\ Transferred(lease).head = session.sha /\ Transferred(lease).recovery = lease.recovery
        /\ Transferred(lease).contract = lease.contract
        /\ Transferred(lease).failure = lease.failure /\ Transferred(lease).nonce = lease.nonce
    BY <1>1 DEF Transferred, Lease
  <2>2. CASE StartWithAuthority
    BY <2>1, <2>2 DEF StartWithAuthority
  <2>3. CASE ReserveNext
    <3>1. lease' = [Transferred(lease) EXCEPT !.attempts = NextAttempt, !.worker = 0,
                                              !.nonce = nonces + 1]
      BY <2>3 DEF ReserveNext
    <3> QED
      BY <1>2, <2>1, <3>1 DEF Lease
  <2> QED
    BY <2>2, <2>3
<1>4. session'.head = session.head /\ session'.sha = session.sha
  BY <1>1 DEF StartWithAuthority, ReserveNext, Session
<1>5. PreviousHead' = IF lease.recovery # 0 THEN lease.recovery ELSE session.sha
  BY <1>3 DEF PreviousHead
<1>6. PreviousHead' <= session.head /\ PreviousHead' <= head
  BY <1>1, <1>5, GrantNumbers DEF GrantsInv, HeadsInOrder, PreviousHead
<1>7. HeadsInOrder'
  BY <1>1, <1>4, <1>6 DEF GrantsInv, HeadsInOrder
<1>8. RecoveriesInOrder'
  <2>1. ASSUME NEW g \in grants, g.reason = "grant"
        PROVE  /\ g.key <= PreviousHead' /\ (queued # 0 => g.key <= queued)
               /\ g.key <= session.sha \/ lease.recovery = session.head
    <3>1. /\ g.key <= PreviousHead /\ (queued # 0 => g.key <= queued)
          /\ g.key <= session.sha \/ lease.recovery = session.head
      BY <1>1, <2>1 DEF GrantsInv, RecoveriesInOrder
    <3>2. session.head # 0
      BY <1>1 DEF GrantsInv, HeadsInOrder
    <3> QED
      BY <1>5, <3>1, <3>2 DEF PreviousHead
  <2> QED
    BY <1>1, <1>3, <1>4, <2>1 DEF RecoveriesInOrder
<1>9. ContractsInOrder' /\ OneGrantPerCause'
  BY <1>1, <1>3 DEF GrantsInv, ContractsInOrder, OneGrantPerCause
<1>10. RejectedAreReplaced'
  <2>1. \A w \in DOMAIN workers : workers[w].nonce # nonces + 1
    BY <1>1, WorkerNumbers DEF WorkersInv, NoncesAreFresh
  <2> QED
    BY <1>1, <1>3, <2>1 DEF GrantsInv, RejectedAreReplaced
<1> QED
  BY <1>7, <1>8, <1>9, <1>10 DEF GrantsInv

\* The other steps of a session leave the grounds of the grants alone.
LEMMA OtherGrants ==
  ASSUME SessionInv, GrantsInv,
         \/ GuardReserves \/ GuardRecovers \/ ReserveRefused \/ NeedsScope \/ StartRecovered
         \/ Dispatch \/ (\E w \in DOMAIN workers : Correlate(w)) \/ CorrelateAmbiguous
         \/ ObserveMaterial \/ RecordRetryable \/ RecordNoMaterial \/ RecordFailure
         \/ BudgetExhausted \/ HandOver \/ TimeOut \/ Fail \/ Crash
  PROVE  GrantsInv'
<1>1. TypeOK /\ lease \in Lease /\ session \in Session /\ workers \in Seq(Worker)
      /\ (lease.failure.kind # "none" => lease.failure.worker # 0)
  BY DEF SessionInv, TypeOK, GrantsInv, RejectedAreReplaced
<1>2. UNCHANGED <<lease, workers>> => KeptNonces /\ PreviousHead' = PreviousHead
  BY DEF KeptNonces, PreviousHead
<1>3. CASE NeedsScope \/ HandOver \/ Crash
  BY <1>1, <1>2, <1>3, LeavesGrants DEF NeedsScope, HandOver, Crash, SessionEnd, Leaves
<1>4. CASE \/ ReserveRefused \/ CorrelateAmbiguous \/ ObserveMaterial \/ BudgetExhausted
           \/ TimeOut \/ Fail
  BY <1>1, <1>2, <1>4, LeavesGrants DEF ReserveRefused, CorrelateAmbiguous, ObserveMaterial,
     Ended, BudgetExhausted, TimeOut, Fail, Leaves
<1>5. CASE GuardReserves
  <2> DEFINE p == IF Decision = "grant" THEN lease.attempts - 1 ELSE lease.attempts
  <2>1. session' = [session EXCEPT !.prior = p] /\ pc = "guard" /\ pc' = "reserve"
        /\ UNCHANGED <<world, lease, workers, grants>>
    BY <1>5 DEF GuardReserves
  <2> HIDE DEF p
  <2>2. session'.head = session.head /\ session'.sha = session.sha
    BY <1>1, <2>1 DEF Session
  <2> QED
    BY <1>1, <1>2, <2>1, <2>2, LeavesGrants DEF Leaves
<1>6. CASE GuardRecovers \/ StartRecovered
  <2>1. session'.head = session.head /\ session'.sha = session.sha
    BY <1>1, <1>6 DEF GuardRecovers, StartRecovered, Session
  <2> QED
    BY <1>1, <1>2, <1>6, <2>1, LeavesGrants DEF GuardRecovers, StartRecovered, Leaves
<1>7. CASE Dispatch
  <2>1. KeptNonces
    <3>1. Len(workers) \in Nat /\ DOMAIN workers = 1 .. Len(workers)
      BY <1>1
    <3>2. \E n : workers' = Append(workers, n)
      BY <1>7 DEF Dispatch
    <3> QED
      BY <1>1, <3>1, <3>2 DEF KeptNonces
  <2> QED
    BY <1>1, <1>7, <2>1, LeavesGrants DEF Dispatch, Leaves, PreviousHead
<1>8. ASSUME NEW w \in DOMAIN workers, Correlate(w) PROVE GrantsInv'
  <2>1. session'.head = session.head /\ session'.sha = session.sha
    BY <1>1, <1>8 DEF Correlate, Session
  <2>2. /\ lease'.head = lease.head /\ lease'.recovery = lease.recovery
        /\ lease'.contract = lease.contract /\ lease'.nonce = lease.nonce
        /\ lease'.failure = lease.failure
    BY <1>1, <1>8 DEF Correlate, Lease
  <2> QED
    BY <1>1, <1>8, <2>1, <2>2, LeavesGrants DEF Correlate, Leaves, KeptNonces, PreviousHead
<1>9. CASE RecordRetryable \/ RecordNoMaterial \/ RecordFailure
  <2>1. /\ pc = "wait" /\ pc' \in {"retry", "finalize"}
        /\ UNCHANGED <<world, workers, session, grants>>
        /\ lease' \in {lease, Recorded("reserved"), Recorded("nonrecoverable")}
    BY <1>9 DEF RecordRetryable, RecordNoMaterial, RecordFailure, Ended, RetryableFailure
  <2>2. session.worker # 0
    BY <2>1 DEF SessionInv, WorkerIsKnown
  <2>3. ASSUME NEW s, lease' = Recorded(s)
        PROVE  /\ lease'.head = lease.head /\ lease'.recovery = lease.recovery
               /\ lease'.contract = lease.contract /\ lease'.nonce = lease.nonce
               /\ lease'.failure.worker = session.worker
    BY <1>1, <2>3 DEF Recorded, Lease
  <2>4. /\ lease'.head = lease.head /\ lease'.recovery = lease.recovery
        /\ lease'.contract = lease.contract /\ lease'.nonce = lease.nonce
        /\ lease'.failure.kind # "none" => lease'.failure.worker # 0
    BY <1>1, <2>1, <2>2, <2>3
  <2> QED
    BY <2>1, <2>4, LeavesGrants DEF Leaves, KeptNonces, PreviousHead
<1> QED
  BY <1>3, <1>4, <1>5, <1>6, <1>7, <1>8, <1>9

\* Nothing is granted initially.
LEMMA GrantsInvInit == Init => GrantsInv
<1> SUFFICES ASSUME Init PROVE GrantsInv
  OBVIOUS
<1>1. grants = {} /\ pc = "idle" /\ head = 1 /\ contract = 1 /\ queued = 0
  BY DEF Init
<1>2. /\ lease.head \in {0, 1} /\ lease.recovery = 0 /\ lease.contract \in {0, 1}
      /\ lease.failure.kind # "none" => lease.failure.worker # 0
  <2>1. CASE lease = NoLease
    BY <2>1 DEF NoLease, NoFailure
  <2>2. CASE lease = LegacyLease
    BY <2>2 DEF LegacyLease, NoLease, NoFailure
  <2>3. CASE lease = LegacyEscalation
    BY <2>3 DEF LegacyEscalation, LegacyLease, NoLease
  <2> QED
    BY <2>1, <2>2, <2>3 DEF Init
<1> QED
  BY <1>1, <1>2 DEF GrantsInv, HeadsInOrder, RecoveriesInOrder, ContractsInOrder,
     RejectedAreReplaced, OneGrantPerCause, PreviousHead

\* Every step keeps the invariant of the grants.
LEMMA GrantsInvNext == SessionInv /\ WorkersInv /\ GrantsInv /\ [Next]_vars => GrantsInv'
<1> SUFFICES ASSUME SessionInv, WorkersInv, GrantsInv, [Next]_vars PROVE GrantsInv'
  OBVIOUS
<1>1. CASE AdvanceControlPlane \/ EditIssue \/ ClosePullRequest \/ Trigger \/ UNCHANGED vars
  BY <1>1, EnvironmentGrants
<1>2. CASE \E b \in BOOLEAN : StartRun(b)
  BY <1>2, StartRunGrants
<1>3. CASE \E w \in DOMAIN workers : WorkerStep(w)
  BY <1>3, WorkerGrants
<1>4. CASE GuardStops \/ GuardReuses \/ Finalize
  BY <1>4, GuardGrants
<1>5. CASE Reserve
  BY <1>5, ReserveGrants
<1>6. CASE StartWithAuthority \/ ReserveNext
  BY <1>6, TransferGrants
<1>7. CASE \/ GuardReserves \/ GuardRecovers \/ ReserveRefused \/ NeedsScope \/ StartRecovered
           \/ Dispatch \/ (\E w \in DOMAIN workers : Correlate(w)) \/ CorrelateAmbiguous
           \/ ObserveMaterial \/ RecordRetryable \/ RecordNoMaterial \/ RecordFailure
           \/ BudgetExhausted \/ HandOver \/ TimeOut \/ Fail \/ Crash
  BY <1>7, OtherGrants
<1> QED
  BY <1>1, <1>2, <1>3, <1>4, <1>5, <1>6, <1>7 DEF Next, SessionStep

\* The invariant of the grants always holds.
LEMMA GrantsInvHolds == Spec => []GrantsInv
BY SessionInvHolds, WorkersInvHolds, GrantsInvInit, GrantsInvNext, PTL DEF Spec

\* One control plane grants one recovery over all attempts of the issue, one edit of
\* the issue one new dispatch, and so does one rejected patch and one refused worker.
THEOREM GrantsAreSingle == Spec => []OneGrantPerCause
<1>1. GrantsInv => OneGrantPerCause
  BY DEF GrantsInv
<1> QED
  BY <1>1, GrantsInvHolds, PTL

-----------------------------------------------------------------------------
(* The inductive invariant of the charges.                                   *)

Granted == {g.nonce : g \in grants}

(* The lease carries the last nonce, and the last attempt, that anybody was      *)
(* dispatched with; a grant is for the attempt that its nonce runs.            *)
NoncesAreCharged ==
  /\ lease.nonce = nonces /\ (lease.status = "reserved" => nonces # 0)
  /\ \A w \in DOMAIN workers :
       /\ workers[w].nonce # 0 /\ workers[w].attempt <= lease.attempts
       /\ workers[w].nonce = lease.nonce => workers[w].attempt = lease.attempts
       /\ \A g \in grants : g.nonce = workers[w].nonce => g.attempt = workers[w].attempt
  /\ IsFiniteSet(grants)
  /\ \A g \in grants :
       g.nonce <= nonces /\ (g.nonce = lease.nonce => g.attempt = lease.attempts)

(* Of the workers that were not granted, one has run on each attempt; while the  *)
(* nonce of the lease is not granted, on the last attempt only one that carries  *)
(* it.                                                                       *)
OneUngrantedRun ==
  /\ \A v, w \in DOMAIN workers :
       Executed(v) /\ Executed(w) /\ workers[v].nonce \notin Granted
         /\ workers[w].nonce \notin Granted /\ workers[v].attempt = workers[w].attempt
       => v = w
  /\ lease.nonce \notin Granted =>
       \A w \in DOMAIN workers :
         Executed(w) /\ workers[w].nonce \notin Granted /\ workers[w].attempt = lease.attempts
           => workers[w].nonce = lease.nonce

(* A session retries for the failure that it has recorded.                     *)
RetryIsRecorded == pc = "retry" => lease.failure.kind = workers[session.worker].outcome

ChargedInv == NoncesAreCharged /\ OneUngrantedRun /\ RetryIsRecorded

\* The numbers that the parts of the invariant compare.
LEMMA ChargeNumbers ==
  ASSUME TypeOK
  PROVE  /\ nonces \in Nat /\ lease.nonce \in Nat /\ lease.attempts \in Nat
         /\ \A w \in DOMAIN workers : workers[w].nonce \in Nat /\ workers[w].attempt \in Nat
         /\ \A g \in grants : g.nonce \in Nat
<1>1. lease \in Lease /\ \A w \in DOMAIN workers : workers[w] \in Worker
  BY WorkerNumbers
<1> QED
  BY <1>1, Numbers, WorkerNumbers DEF TypeOK, Worker

\* A step that creates no nonce and dispatches nobody.
KeepsCharges ==
  /\ UNCHANGED <<workers, nonces, grants>>
  /\ lease'.nonce = lease.nonce /\ lease'.attempts = lease.attempts
  /\ lease'.status = "reserved" => lease.status = "reserved"
  /\ RetryIsRecorded'

\* Such a step keeps the invariant.
LEMMA KeepsChargesInv ==
  ASSUME ChargedInv, KeepsCharges
  PROVE  ChargedInv'
BY DEF ChargedInv, KeepsCharges, NoncesAreCharged, OneUngrantedRun, Granted, Executed, Done

\* A step that creates a nonce: for the next attempt, for one that nobody has run, or
\* for the last one with a grant.
Creates ==
  /\ UNCHANGED workers /\ nonces' = nonces + 1 /\ lease'.nonce = nonces + 1 /\ pc' # "retry"
  /\ \/ grants' = grants /\ lease'.attempts = lease.attempts + 1
     \/ grants' = grants /\ lease'.attempts = lease.attempts
        /\ \A w \in DOMAIN workers : ~Executed(w)
     \/ /\ lease'.attempts = lease.attempts
        /\ \E g : grants' = grants \cup {g} /\ g.nonce = nonces + 1
                  /\ g.attempt = lease.attempts

\* Such a step keeps the invariant: what has run has run under older nonces.
LEMMA CreatesInv ==
  ASSUME SessionInv, WorkersInv, ChargedInv, Creates
  PROVE  ChargedInv'
<1>1. /\ nonces \in Nat /\ lease.nonce \in Nat /\ lease.attempts \in Nat
      /\ \A w \in DOMAIN workers : workers[w].nonce \in Nat /\ workers[w].attempt \in Nat
      /\ \A g \in grants : g.nonce \in Nat
  BY ChargeNumbers DEF SessionInv
<1>2. /\ \A w \in DOMAIN workers : workers[w].nonce # nonces + 1
      /\ \A g \in grants : g.nonce # nonces + 1
      /\ UNCHANGED workers /\ nonces' = nonces + 1 /\ lease'.nonce = nonces + 1
  <2>1. \A w \in DOMAIN workers : workers[w].nonce <= nonces
    BY DEF WorkersInv, NoncesAreFresh
  <2> QED
    BY <1>1, <2>1 DEF ChargedInv, NoncesAreCharged, Creates
<1>3. \A w \in DOMAIN workers : Executed(w)' <=> Executed(w)
  BY <1>2 DEF Executed, Done
<1>4. RetryIsRecorded'
  BY DEF Creates, RetryIsRecorded
<1>5. CASE grants' = grants
  <2>1. lease'.attempts >= lease.attempts /\ lease'.attempts \in Nat
    BY <1>1 DEF Creates
  <2>2. NoncesAreCharged'
    BY <1>1, <1>2, <1>5, <2>1 DEF ChargedInv, NoncesAreCharged
  <2>3. \A w \in DOMAIN workers : Executed(w) => workers[w].attempt # lease'.attempts
    BY <1>1, <1>2, <1>5 DEF Creates, ChargedInv, NoncesAreCharged
  <2>4. OneUngrantedRun'
    BY <1>2, <1>3, <1>5, <2>3 DEF ChargedInv, OneUngrantedRun, Granted
  <2> QED
    BY <1>4, <2>2, <2>4 DEF ChargedInv
<1>6. ASSUME lease'.attempts = lease.attempts, NEW g, grants' = grants \cup {g},
             g.nonce = nonces + 1, g.attempt = lease.attempts
      PROVE  ChargedInv'
  <2>1. IsFiniteSet(grants')
    BY <1>6, FS_AddElement DEF ChargedInv, NoncesAreCharged
  <2>2. NoncesAreCharged'
    BY <1>1, <1>2, <1>6, <2>1 DEF ChargedInv, NoncesAreCharged
  <2>3. Granted' = Granted \cup {nonces + 1}
    BY <1>6 DEF Granted
  <2>4. OneUngrantedRun'
    BY <1>2, <1>3, <2>3 DEF ChargedInv, OneUngrantedRun
  <2> QED
    BY <1>4, <2>2, <2>4 DEF ChargedInv
<1> QED
  BY <1>5, <1>6 DEF Creates

\* What a grant records.
LEMMA GrantFields ==
  ASSUME NEW d
  PROVE  GrantOf(d).nonce = nonces + 1 /\ GrantOf(d).attempt = lease.attempts
BY DEF GrantOf

\* The guard creates a nonce only with a grant.
LEMMA GuardCharges ==
  ASSUME SessionInv, WorkersInv, ChargedInv, GuardStops \/ GuardReuses \/ Finalize
  PROVE  ChargedInv'
<1>1. PersistMutation(Decision) /\ UNCHANGED workers /\ pc' # "retry" /\ TypeOK /\ lease \in Lease
  BY DEF SessionInv, TypeOK, GuardStops, GuardReuses, Finalize, SessionEnd
<1>2. CASE Decision \in Rearms
  <2>1. lease' = Rearmed(Decision) /\ nonces' = nonces + 1
        /\ grants' = grants \cup {GrantOf(Decision)}
    BY <1>1, <1>2 DEF PersistMutation, Rearms
  <2>2. lease'.nonce = nonces + 1 /\ lease'.attempts = lease.attempts
    BY <1>1, <2>1, RearmedType
  <2> QED
    BY <1>1, <2>1, <2>2, GrantFields, CreatesInv DEF Creates
<1>3. CASE Decision = "exhaust"
  <2>1. lease' = ExhaustedLease /\ UNCHANGED <<nonces, grants>>
    BY <1>1, <1>3 DEF PersistMutation, Rearms
  <2>2. lease'.nonce = lease.nonce
    BY <1>1, <2>1 DEF ExhaustedLease, Lease
  <2>3. lease'.attempts = lease.attempts /\ lease'.status = "exhausted"
    BY <1>1, <2>1, ExhaustedType
  <2> QED
    BY <1>1, <2>1, <2>2, <2>3, KeepsChargesInv DEF KeepsCharges, RetryIsRecorded
<1>4. CASE Decision \notin Rearms \cup {"exhaust"}
  BY <1>1, <1>4, KeepsChargesInv DEF PersistMutation, KeepsCharges, RetryIsRecorded
<1> QED
  BY <1>2, <1>3, <1>4

\* The reservation charges the next attempt, or records a grant for the last.
LEMMA ReserveCharges ==
  ASSUME SessionInv, WorkersInv, ChargedInv, Reserve
  PROVE  ChargedInv'
<1>1. /\ pc = "reserve" /\ pc' = "start" /\ UNCHANGED workers /\ nonces' = nonces + 1
      /\ RecoveryConsistent /\ TypeOK
  BY DEF Reserve, CanReserve, SessionInv
<1>2. lease'.nonce = nonces + 1 /\ lease'.attempts = session.prior + 1
  <2>1. lease' = [NoLease EXCEPT !.status = "reserved", !.attempts = session.prior + 1,
                                 !.run = session.id, !.head = session.head,
                                 !.nonce = nonces + 1, !.contract = contract,
                                 !.recovery = IF RecoveryGranted THEN session.head ELSE 0]
    BY DEF Reserve
  <2> QED
    BY <2>1 DEF NoLease
<1>3. CASE RecoveryGranted
  <2>1. lease'.attempts = lease.attempts
    BY <1>1, <1>2, <1>3 DEF RecoveryConsistent
  <2>2. grants' = grants \cup {GrantOf("grant")}
    BY <1>3 DEF Reserve
  <2> QED
    BY <1>1, <1>2, <2>1, <2>2, GrantFields, CreatesInv DEF Creates
<1>4. CASE ~RecoveryGranted
  <2>1. session.prior = lease.attempts
    BY <1>1, <1>4 DEF RecoveryConsistent, SessionInv, PriorIsOfLease
  <2>2. grants' = grants
    BY <1>4 DEF Reserve
  <2> QED
    BY <1>1, <1>2, <2>1, <2>2, CreatesInv DEF Creates
<1> QED
  BY <1>3, <1>4

\* A worker with the nonce of the lease is refused for another run only when an earlier
\* control plane dispatched it; then nobody has run at all.
LEMMA MismatchRanNobody ==
  ASSUME SessionInv, WorkersInv, ChargedInv, pc = "retry", lease.failure.kind = "mismatch"
  PROVE  \A w \in DOMAIN workers : ~Executed(w)
<1> SUFFICES ASSUME NEW w \in DOMAIN workers, Executed(w) PROVE FALSE
  OBVIOUS
<1>1. /\ session.worker \in Carrying(lease.nonce) /\ Done(session.worker) /\ session.worker # 0
      /\ workers[session.worker].outcome = "mismatch"
  BY DEF SessionInv, WorkerIsKnown, WorkersInv, NamesAreListed, Listed, ChargedInv,
         RetryIsRecorded
<1>2. workers[session.worker].nonce = 1 /\ lease.nonce = 1
  BY <1>1 DEF WorkersInv, AuthorityIsCurrent, LegacyWorker, Carrying
<1>3. workers[w].nonce = lease.nonce
  <2>1. workers[w].nonce <= 1 /\ workers[w].nonce # 0 /\ workers[w].nonce \in Nat
    BY <1>2, ChargeNumbers
    DEF SessionInv, WorkersInv, NoncesAreFresh, ChargedInv, NoncesAreCharged
  <2> QED
    BY <1>2, <2>1
<1>4. w = session.worker
  BY <1>1, <1>3 DEF WorkersInv, OneRunPerNonce
<1> QED
  BY <1>1, <1>4 DEF Executed, Done, NotExecuted

\* The retry charges the next attempt, unless nobody has run.
LEMMA ReserveNextCharges ==
  ASSUME SessionInv, WorkersInv, ChargedInv, ReserveNext
  PROVE  ChargedInv'
<1>1. /\ pc = "retry" /\ pc' = "dispatch" /\ UNCHANGED <<workers, grants>>
      /\ nonces' = nonces + 1 /\ TypeOK
  BY DEF ReserveNext, SessionInv
<1>2. lease'.nonce = nonces + 1 /\ lease'.attempts = NextAttempt
  <2>1. lease' = [Transferred(lease) EXCEPT !.attempts = NextAttempt, !.worker = 0,
                                            !.nonce = nonces + 1]
    BY DEF ReserveNext
  <2>2. Transferred(lease) \in Lease
    BY <1>1, TransferredType
  <2> QED
    BY <2>1, <2>2 DEF Lease
<1>3. session.attempt = lease.attempts
  BY <1>1 DEF SessionInv, SessionHoldsLease
<1>4. \/ NextAttempt = lease.attempts + 1
      \/ NextAttempt = lease.attempts /\ \A w \in DOMAIN workers : ~Executed(w)
  BY <1>1, <1>3, MismatchRanNobody DEF NextAttempt
<1> QED
  BY <1>1, <1>2, <1>4, CreatesInv DEF Creates

\* The worker is dispatched for the attempt of the lease.
LEMMA DispatchCharges ==
  ASSUME SessionInv, WorkersInv, ChargedInv, Dispatch
  PROVE  ChargedInv'
<1> DEFINE n == [nonce |-> session.nonce, run |-> session.id, head |-> session.head,
                 attempt |-> session.attempt, status |-> "posted", outcome |-> "none"]
           N == Len(workers) + 1
<1>1. /\ TypeOK /\ workers \in Seq(Worker) /\ session.nonce = lease.nonce
      /\ session.attempt = lease.attempts /\ lease.status = "reserved"
  BY DEF SessionInv, TypeOK, SessionHoldsLease, Dispatch
<1>2. workers' = Append(workers, n) /\ pc' = "correlate" /\ UNCHANGED <<lease, nonces, grants>>
  BY DEF Dispatch
<1>3. n.nonce = lease.nonce /\ n.attempt = lease.attempts /\ n.status = "posted"
  BY <1>1
<1> HIDE DEF n
<1>4. /\ \A w \in DOMAIN workers : w \in DOMAIN workers' /\ workers'[w] = workers[w]
      /\ \A w \in DOMAIN workers' : w # N => w \in DOMAIN workers
      /\ workers'[N] = n
  BY <1>1, <1>2
<1>5. \A w \in DOMAIN workers' : Executed(w)' => w \in DOMAIN workers /\ Executed(w)
  BY <1>3, <1>4 DEF Executed, Done
<1>6. NoncesAreCharged'
  BY <1>1, <1>2, <1>3, <1>4, ChargeNumbers DEF ChargedInv, NoncesAreCharged
<1>7. OneUngrantedRun'
  BY <1>2, <1>4, <1>5 DEF ChargedInv, OneUngrantedRun, Granted
<1> QED
  BY <1>2, <1>6, <1>7 DEF ChargedInv, RetryIsRecorded

\* A worker that begins to run is the only one that carries the last nonce.
LEMMA WorkerCharges ==
  ASSUME SessionInv, WorkersInv, ChargedInv, NEW w \in DOMAIN workers, WorkerStep(w)
  PROVE  ChargedInv'
<1>1. (WorkerEffect(w) \/ Publish(w)) /\ UNCHANGED grants
  BY WorkerStepEffect DEF WorkerStep, Appear, CheckController, CheckLease, NeverStart, Publish, Finish
<1>2. /\ DOMAIN workers' = DOMAIN workers /\ UNCHANGED <<lease, session, pc, nonces>>
      /\ \A v \in DOMAIN workers :
           workers'[v].nonce = workers[v].nonce /\ workers'[v].attempt = workers[v].attempt
  BY <1>1 DEF WorkerEffect, Publish
<1>3. NoncesAreCharged'
  BY <1>1, <1>2 DEF ChargedInv, NoncesAreCharged
<1>4. RetryIsRecorded'
  <2> SUFFICES ASSUME pc = "retry"
               PROVE  workers'[session.worker].outcome = workers[session.worker].outcome
    BY <1>2 DEF ChargedInv, RetryIsRecorded
  <2>1. session.worker \in DOMAIN workers /\ Done(session.worker)
    BY DEF SessionInv, WorkerIsKnown, WorkersInv, NamesAreListed, Listed, Carrying
  <2> QED
    BY <1>1, <2>1 DEF WorkerEffect, Publish
<1>5. OneUngrantedRun'
  <2>1. CASE WorkerEffect(w) /\ workers'[w].status = "running"
    <3>1. workers[w].nonce = lease.nonce /\ workers[w].attempt = lease.attempts
          /\ \A v \in DOMAIN workers : workers[v].nonce = lease.nonce => ~Executed(v)
      BY <1>1, <2>1, AuthorizedAlone DEF Carrying, ChargedInv, NoncesAreCharged
    <3>2. \A v \in DOMAIN workers : Executed(v)' => v = w \/ Executed(v)
      BY <2>1, AuthorizedStays
    <3> QED
      BY <1>1, <1>2, <3>1, <3>2 DEF ChargedInv, OneUngrantedRun, Granted
  <2>2. CASE WorkerEffect(w) /\ workers'[w].status # "running"
    <3>1. \A v \in DOMAIN workers : Executed(v)' => Executed(v)
      BY <2>2, AuthorizedStays
    <3> QED
      BY <1>1, <1>2, <3>1 DEF ChargedInv, OneUngrantedRun, Granted
  <2>3. CASE Publish(w)
    BY <1>1, <2>3 DEF Publish, ChargedInv, OneUngrantedRun, Granted, Executed, Done
  <2> QED
    BY <1>1, <2>1, <2>2, <2>3
<1> QED
  BY <1>3, <1>4, <1>5 DEF ChargedInv

\* The other steps create nothing and let nobody run.
LEMMA OtherCharges ==
  ASSUME SessionInv, WorkersInv, ChargedInv,
         \/ AdvanceControlPlane \/ EditIssue \/ ClosePullRequest \/ Trigger
         \/ UNCHANGED vars \/ (\E b \in BOOLEAN : StartRun(b))
         \/ GuardReserves \/ GuardRecovers \/ ReserveRefused \/ NeedsScope \/ StartRecovered
         \/ StartWithAuthority
         \/ (\E w \in DOMAIN workers : Correlate(w)) \/ CorrelateAmbiguous
         \/ ObserveMaterial \/ RecordRetryable \/ RecordNoMaterial \/ RecordFailure
         \/ BudgetExhausted \/ HandOver \/ TimeOut \/ Fail \/ Crash
  PROVE  ChargedInv'
<1>1. TypeOK /\ lease \in Lease /\ session \in Session /\ RetryIsRecorded
  BY DEF SessionInv, TypeOK, ChargedInv
<1>2. CASE AdvanceControlPlane \/ EditIssue \/ ClosePullRequest \/ Trigger \/ UNCHANGED vars
  BY <1>1, <1>2, KeepsChargesInv
  DEF AdvanceControlPlane, EditIssue, ClosePullRequest, Trigger, vars, KeepsCharges,
      RetryIsRecorded
<1>3. CASE \/ (\E b \in BOOLEAN : StartRun(b)) \/ GuardReserves \/ GuardRecovers
           \/ ReserveRefused \/ NeedsScope \/ StartRecovered \/ CorrelateAmbiguous
           \/ ObserveMaterial \/ BudgetExhausted \/ HandOver \/ TimeOut \/ Fail \/ Crash
  <2>1. UNCHANGED <<workers, nonces, grants, lease>> /\ pc' # "retry"
    BY <1>3 DEF StartRun, GuardReserves, GuardRecovers, ReserveRefused, NeedsScope,
       StartRecovered, CorrelateAmbiguous, ObserveMaterial, BudgetExhausted, HandOver, TimeOut,
       Fail, Crash, SessionEnd
  <2> QED
    BY <2>1, KeepsChargesInv DEF KeepsCharges, RetryIsRecorded
<1>4. CASE StartWithAuthority
  BY <1>1, <1>4, TransferredType, KeepsChargesInv
  DEF StartWithAuthority, KeepsCharges, RetryIsRecorded
<1>5. ASSUME NEW w \in DOMAIN workers, Correlate(w) PROVE ChargedInv'
  <2>1. /\ lease'.nonce = lease.nonce /\ lease'.attempts = lease.attempts
        /\ lease'.status = lease.status
    BY <1>1, <1>5 DEF Correlate, Lease
  <2> QED
    BY <1>5, <2>1, KeepsChargesInv DEF Correlate, KeepsCharges, RetryIsRecorded
<1>6. CASE RecordRetryable
  <2>1. /\ UNCHANGED <<workers, session, nonces, grants>> /\ lease' = Recorded("reserved")
        /\ pc = "wait"
    BY <1>6 DEF RecordRetryable, RetryableFailure, Ended
  <2>2. /\ lease'.nonce = lease.nonce /\ lease'.attempts = lease.attempts
        /\ lease'.failure.kind = workers[session.worker].outcome
    BY <1>1, <2>1 DEF Recorded, Lease
  <2>3. lease.status = "reserved"
    BY <2>1 DEF SessionInv, SessionHoldsLease
  <2> QED
    BY <2>1, <2>2, <2>3, KeepsChargesInv DEF KeepsCharges, RetryIsRecorded
<1>7. CASE RecordNoMaterial \/ RecordFailure
  <2>1. /\ UNCHANGED <<workers, nonces, grants>> /\ pc' = "finalize"
        /\ lease' \in {lease, Recorded("nonrecoverable")}
    BY <1>7 DEF RecordNoMaterial, RecordFailure
  <2>2. /\ lease'.nonce = lease.nonce /\ lease'.attempts = lease.attempts
        /\ lease'.status \in {lease.status, "nonrecoverable"}
    BY <1>1, <2>1 DEF Recorded, Lease
  <2> QED
    BY <2>1, <2>2, KeepsChargesInv DEF KeepsCharges, RetryIsRecorded
<1> QED
  BY <1>2, <1>3, <1>4, <1>5, <1>6, <1>7

\* Nobody has run initially.
LEMMA ChargedInvInit == Init => ChargedInv
<1> SUFFICES ASSUME Init PROVE ChargedInv
  OBVIOUS
<1>1. grants = {} /\ pc = "idle"
  BY DEF Init
<1>2. CASE lease = NoLease /\ workers = <<>> /\ nonces = 0
  <2>1. DOMAIN workers = {} /\ lease.nonce = 0 /\ lease.status = "none"
    BY <1>2 DEF NoLease
  <2> QED
    BY <1>1, <1>2, <2>1, FS_EmptySet
    DEF ChargedInv, NoncesAreCharged, OneUngrantedRun, RetryIsRecorded
<1>3. CASE lease \in {LegacyLease, LegacyEscalation} /\ workers = <<LegacyWorker>> /\ nonces = 1
  <2>1. lease.nonce = 1 /\ lease.attempts = 1
    <3>1. LegacyLease.nonce = 1
      BY EmptyTypes DEF LegacyLease, Lease
    <3>2. LegacyEscalation.nonce = 1
      BY <3>1, EmptyTypes DEF LegacyEscalation, Lease
    <3> QED
      BY <1>3, <3>1, <3>2, EmptyFields
  <2>2. DOMAIN workers = {1} /\ workers[1] = LegacyWorker
    BY <1>3
  <2>3. workers[1].nonce = 1 /\ workers[1].attempt = 1 /\ ~Executed(1)
    BY <2>2 DEF LegacyWorker, Executed, Done, NotExecuted
  <2> QED
    BY <1>1, <1>3, <2>1, <2>2, <2>3, FS_EmptySet
    DEF ChargedInv, NoncesAreCharged, OneUngrantedRun, RetryIsRecorded
<1> QED
  BY <1>2, <1>3 DEF Init

\* Every step keeps the invariant of the charges.
LEMMA ChargedInvNext == SessionInv /\ WorkersInv /\ ChargedInv /\ [Next]_vars => ChargedInv'
<1> SUFFICES ASSUME SessionInv, WorkersInv, ChargedInv, [Next]_vars PROVE ChargedInv'
  OBVIOUS
<1>1. CASE GuardStops \/ GuardReuses \/ Finalize
  BY <1>1, GuardCharges
<1>2. CASE Reserve
  BY <1>2, ReserveCharges
<1>3. CASE ReserveNext
  BY <1>3, ReserveNextCharges
<1>4. CASE Dispatch
  BY <1>4, DispatchCharges
<1>5. CASE \E w \in DOMAIN workers : WorkerStep(w)
  BY <1>5, WorkerCharges
<1>6. CASE \/ AdvanceControlPlane \/ EditIssue \/ ClosePullRequest \/ Trigger
           \/ UNCHANGED vars \/ (\E b \in BOOLEAN : StartRun(b))
           \/ GuardReserves \/ GuardRecovers \/ ReserveRefused \/ NeedsScope \/ StartRecovered
           \/ StartWithAuthority
           \/ (\E w \in DOMAIN workers : Correlate(w)) \/ CorrelateAmbiguous
           \/ ObserveMaterial \/ RecordRetryable \/ RecordNoMaterial \/ RecordFailure
           \/ BudgetExhausted \/ HandOver \/ TimeOut \/ Fail \/ Crash
  BY <1>6, OtherCharges
<1> QED
  BY <1>1, <1>2, <1>3, <1>4, <1>5, <1>6 DEF Next, SessionStep

\* The invariant of the charges always holds.
LEMMA ChargedInvHolds == Spec => []ChargedInv
BY SessionInvHolds, WorkersInvHolds, ChargedInvInit, ChargedInvNext, PTL DEF Spec

\* The runs of an attempt: one, and one for each grant, which only one may have used.
LEMMA RunsAreCounted ==
  ASSUME SessionInv, WorkersInv, ChargedInv
  PROVE  RunsAreCharged
<1> SUFFICES ASSUME NEW a \in 1 .. MaxAttempts
             PROVE  Cardinality({w \in DOMAIN workers : workers[w].attempt = a /\ Executed(w)})
                      <= 1 + Cardinality({g \in grants : g.attempt = a})
  BY DEF RunsAreCharged
<1> DEFINE R == {w \in DOMAIN workers : workers[w].attempt = a /\ Executed(w)}
           S == {w \in R : workers[w].nonce \in Granted}
           G == {g \in grants : g.attempt = a}
           f == [w \in S |-> CHOOSE g \in grants : g.nonce = workers[w].nonce]
<1>1. IsFiniteSet(G) /\ Cardinality(G) \in Nat
  <2>1. IsFiniteSet(grants) /\ G \subseteq grants
    BY DEF ChargedInv, NoncesAreCharged
  <2>2. IsFiniteSet(G)
    BY <2>1, FS_Subset
  <2> QED
    BY <2>2, FS_CardinalityType
<1>2. \A w \in S : f[w] \in G /\ f[w].nonce = workers[w].nonce
  <2> SUFFICES ASSUME NEW w \in S
               PROVE  f[w] \in G /\ f[w].nonce = workers[w].nonce
    OBVIOUS
  <2>1. \E g \in grants : g.nonce = workers[w].nonce
    BY DEF Granted
  <2>2. f[w] \in grants /\ f[w].nonce = workers[w].nonce
    BY <2>1
  <2> QED
    BY <2>2 DEF ChargedInv, NoncesAreCharged
<1>3. \A v, w \in S : f[v] = f[w] => v = w
  <2> SUFFICES ASSUME NEW v \in S, NEW w \in S, f[v] = f[w] PROVE v = w
    OBVIOUS
  <2>1. workers[v].nonce = workers[w].nonce
    BY <1>2
  <2> QED
    BY <2>1 DEF WorkersInv, OneRunPerNonce, Carrying
<1>4. f \in Injection(S, G)
  <2>1. f \in [S -> G]
    BY <1>2
  <2> HIDE DEF f, S, G
  <2> QED
    BY <1>3, <2>1 DEF Injection, IsInjective
<1>5. IsFiniteSet(S) /\ Cardinality(S) <= Cardinality(G) /\ Cardinality(S) \in Nat
  <2> HIDE DEF f, S, G
  <2>1. IsFiniteSet(S) /\ Cardinality(S) <= Cardinality(G)
    BY <1>1, <1>4, FS_Injection
  <2> QED
    BY <2>1, FS_CardinalityType
<1>6. CASE R = S
  <2> HIDE DEF R, S, G
  <2> QED
    BY <1>1, <1>5, <1>6 DEF R, G
<1>7. ASSUME NEW x \in R, x \notin S
      PROVE  Cardinality(R) <= 1 + Cardinality(G)
  <2>1. R = S \cup {x}
    <3>1. ASSUME NEW w \in R, w \notin S PROVE w = x
      BY <1>7, <3>1 DEF ChargedInv, OneUngrantedRun
    <3> QED
      BY <1>7, <3>1
  <2> HIDE DEF R, S, G, f
  <2>2. Cardinality(R) = Cardinality(S) + 1
    BY <1>5, <1>7, <2>1, FS_AddElement
  <2> QED
    BY <1>1, <1>5, <2>2
<1> QED
  BY <1>6, <1>7

\* An attempt is run once, and once more for each grant that is on record for it.
THEOREM RunsArePaid == Spec => []RunsAreCharged
<1>1. SessionInv /\ WorkersInv /\ ChargedInv => RunsAreCharged
  BY RunsAreCounted
<1> QED
  BY <1>1, SessionInvHolds, WorkersInvHolds, ChargedInvHolds, PTL
=============================================================================
