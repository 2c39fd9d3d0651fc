-------------------------- MODULE StageRecovery_proofs --------------------------
(***************************************************************************)
(* Proofs about one stage of a delivery, over any number of sessions, runs *)
(* and releases of the control plane: a remediation worker or an audit     *)
(* never runs twice at a time, is retried at most once, and is not         *)
(* launched again after its result.                                        *)
(***************************************************************************)
EXTENDS StageRecovery, FiniteSetTheorems, SequenceTheorems, TLAPS

--------------------------------------------------------------------------------
(* The inductive invariant.                                                *)

\* A nonce is stored before anything is dispatched or looked for under it, and the
\* comment names no run that was not dispatched.
NonceFirst ==
  /\ comment.run <= Len(runs)
  /\ comment.run # NoRun => comment.nonce # NoNonce
  /\ pc \in {"lookup", "adopt", "dispatched", "correlate", "watch", "rearmed", "rewatch"} =>
       comment.nonce # NoNonce
  /\ stage = "hygiene" /\ pc = "dispatch" => comment.nonce # NoNonce

HasResult(run) == run.conclusion \in {"success", "failure-verdict"}
Settled(run) == run.phase = "done" /\ ~HasResult(run)

\* The runs carry increasing nonces up to the stored one, and every run but the last has
\* ended without a result.
RunsInOrder ==
  /\ \A i \in DOMAIN runs : runs[i].conclusion \in Conclusions(stage) \cup {"none"}
  /\ \A i \in DOMAIN runs : runs[i].nonce <= comment.nonce
  /\ \A i, j \in DOMAIN runs : i < j => runs[i].nonce < runs[j].nonce
  /\ \A i \in DOMAIN runs : i < Len(runs) => Settled(runs[i])

\* At each place of the session: what it dispatches follows runs that have all ended, under
\* a nonce that none of them carries; what it waits for, and what the comment names, is the
\* last run.
LastRun ==
  /\ comment.run \in {NoRun, Len(runs)}
  /\ pc # "reserve"
  /\ pc \in {"dispatch", "dispatched", "rearmed"} => \A i \in DOMAIN runs : Settled(runs[i])
  /\ pc \in {"dispatched", "rearmed"} =>
       comment.run = NoRun /\ \A i \in DOMAIN runs : runs[i].nonce < comment.nonce
  /\ pc = "correlate" =>
       comment.run = NoRun /\ Len(runs) > 0 /\ runs[Len(runs)].nonce = comment.nonce
  /\ pc \in {"watch", "rewatch", "adopt"} => current = Len(runs) /\ current # NoRun

Resting == {"none", "over", "threw", "scheduling"}

\* The stored count says whether the retry was made, and no session works with a lower one.
RetryStored ==
  /\ comment.nonce = NoNonce => comment.retries = 0
  /\ \A i, j \in Retries : i = j
  /\ Retries # {} => comment.retries = 1
  /\ pc \notin Resting => used >= comment.retries
  /\ pc \in {"dispatch", "dispatched"} /\ used > 0 => Retries = {}
  /\ pc = "dispatched" => comment.retries = used

IInv ==
  /\ TypeOK
  /\ NonceFirst
  /\ stage # "hygiene" => RunsInOrder /\ LastRun /\ RetryStored

--------------------------------------------------------------------------------
(* Facts about the data.                                                   *)

AllStages == {"remediation", "audit", "hygiene"}

LEMMA Words ==
  ASSUME NEW s \in AllStages
  PROVE  /\ InitialDispatch \in Actions
         /\ Status[s] \in Actions /\ DispatchOf[s] \in Actions /\ ObserveOf[s] \in Actions
         /\ FailedOf[s] \in Actions /\ RearmOf[s] \in Actions /\ RearmSeenOf[s] \in Actions
<1> DEFINE W(t) == {Status[t], DispatchOf[t], ObserveOf[t], FailedOf[t], RearmOf[t], RearmSeenOf[t]}
<1>1. \A a \in W(s) : a \in Actions
  BY DEF Actions, AllStages
<1>2. InitialDispatch \in Actions
  BY DEF Actions
<1> QED
  BY <1>1, <1>2

LEMMA RunsAre ==
  ASSUME TypeOK
  PROVE  /\ Len(runs) \in Nat /\ DOMAIN runs = 1..Len(runs)
         /\ \A i \in 1..Len(runs) : runs[i] \in Run
BY LenProperties DEF TypeOK

LEMMA Appended ==
  ASSUME TypeOK, NEW r \in Run, runs' = Append(runs, r)
  PROVE  /\ runs' \in Seq(Run) /\ Len(runs') = Len(runs) + 1
         /\ DOMAIN runs' = 1..(Len(runs) + 1)
         /\ \A i \in 1..Len(runs) : runs'[i] = runs[i]
         /\ runs'[Len(runs) + 1] = r
<1>1. runs \in Seq(Run)
  BY DEF TypeOK
<1>2. runs' \in Seq(Run) /\ Len(runs') = Len(runs) + 1
  BY <1>1, AppendProperties
<1>3. DOMAIN runs' = 1..(Len(runs) + 1)
  BY <1>2, LenProperties
<1> QED
  BY <1>1, <1>2, <1>3, AppendProperties

LEMMA Altered ==
  ASSUME TypeOK, NEW i \in 1..Len(runs), NEW r \in Run, runs' = [runs EXCEPT ![i] = r]
  PROVE  /\ runs' \in Seq(Run) /\ Len(runs') = Len(runs) /\ DOMAIN runs' = DOMAIN runs
         /\ \A j \in 1..Len(runs) : runs'[j] = IF j = i THEN r ELSE runs[j]
<1>1. runs \in Seq(Run)
  BY DEF TypeOK
<1> QED
  BY <1>1, ExceptSeq

\* A run as RunListed and RunEnds leave it.
LEMMA RunChanges ==
  ASSUME TypeOK, StagesAssumption
  PROVE  /\ RunListed => \E i \in 1..Len(runs) :
              /\ runs[i].phase = "posted"
              /\ [runs[i] EXCEPT !.phase = "listed"] \in Run
              /\ runs' = [runs EXCEPT ![i] = [runs[i] EXCEPT !.phase = "listed"]]
         /\ RunEnds => \E i \in 1..Len(runs), c \in Conclusions(stage), pushed \in BOOLEAN :
              LET run == [runs[i] EXCEPT !.phase = "done", !.conclusion = c, !.pushed = pushed] IN
              /\ runs[i].phase = "listed"
              /\ run \in Run
              /\ runs' = [runs EXCEPT ![i] = run]
              /\ headMoved' = (headMoved \/ pushed)
<1>1. \A i \in 1..Len(runs) : runs[i] \in Run
  BY RunsAre
<1>2. \A i \in 1..Len(runs) : [runs[i] EXCEPT !.phase = "listed"] \in Run
  BY <1>1 DEF Run
<1>3. \A i \in 1..Len(runs), c \in Conclusions(stage), pushed \in BOOLEAN :
        [runs[i] EXCEPT !.phase = "done", !.conclusion = c, !.pushed = pushed] \in Run
  BY <1>1 DEF Run, Conclusions
<1>4. DOMAIN runs = 1..Len(runs)
  BY RunsAre
<1>5. ASSUME RunListed
      PROVE  \E i \in 1..Len(runs) :
               /\ runs[i].phase = "posted"
               /\ [runs[i] EXCEPT !.phase = "listed"] \in Run
               /\ runs' = [runs EXCEPT ![i] = [runs[i] EXCEPT !.phase = "listed"]]
  <2>1. PICK i \in 1..Len(runs) :
               runs[i].phase = "posted" /\ runs' = [runs EXCEPT ![i].phase = "listed"]
    BY <1>4, <1>5 DEF RunListed
  <2> QED
    BY <1>2, <2>1
<1>6. ASSUME RunEnds
      PROVE  \E i \in 1..Len(runs), c \in Conclusions(stage), pushed \in BOOLEAN :
               LET run == [runs[i] EXCEPT !.phase = "done", !.conclusion = c, !.pushed = pushed] IN
               /\ runs[i].phase = "listed"
               /\ run \in Run
               /\ runs' = [runs EXCEPT ![i] = run]
               /\ headMoved' = (headMoved \/ pushed)
  <2>1. PICK i \in 1..Len(runs), c \in Conclusions(stage), pushed \in BOOLEAN :
               /\ runs[i].phase = "listed"
               /\ runs' = [runs EXCEPT ![i].phase = "done", ![i].conclusion = c, ![i].pushed = pushed]
               /\ headMoved' = (headMoved \/ pushed)
    BY <1>4, <1>6 DEF RunEnds
  <2> DEFINE run == [runs[i] EXCEPT !.phase = "done", !.conclusion = c, !.pushed = pushed]
  <2>2. run \in Run
    BY <1>3
  <2>3. runs' = [runs EXCEPT ![i] = run]
    BY <1>4, <2>1
  <2> QED
    BY <2>1, <2>2, <2>3
<1> QED
  BY <1>5, <1>6

--------------------------------------------------------------------------------
(* Types.                                                                  *)

LEMMA CommentAfterEnter ==
  ASSUME TypeOK, StagesAssumption
  PROVE  EntryAction(comment.next) \in Actions
<1>1. stage \in AllStages
  BY DEF TypeOK, StagesAssumption, AllStages
<1> QED
  BY <1>1, Words DEF EntryAction, TypeOK, Comment

LEMMA TypeInit == Init => TypeOK /\ NonceFirst
<1> SUFFICES ASSUME Init PROVE TypeOK /\ NonceFirst
  OBVIOUS
<1>1. stage \in AllStages /\ Status[stage] \in Actions
  BY Words, StagesAssumption DEF Init, Begin, AllStages
<1>2. runs \in Seq(Run) /\ Len(runs) = 0
  BY EmptySeq DEF Init, Begin
<1>3. comment \in Comment /\ comment.run = 0
  BY <1>1, BoundsAssumption DEF Init, Begin, Comment, NoNonce, NoRun, NoPlane, MaxInfraStageRetries
<1>4. /\ pc \in PCs /\ way \in Ways /\ current \in 0..Len(runs) /\ Len(runs) <= MaxRuns
      /\ used \in 0..MaxInfraStageRetries
  BY <1>2, BoundsAssumption DEF Init, Begin, PCs, Ways, NoRun, MaxInfraStageRetries
<1>5. /\ checkout \in 0..MaxControlPlane /\ plane \in 0..MaxControlPlane
      /\ starts \in 0..MaxStarts
  BY BoundsAssumption DEF Init, Begin
<1>6. headMoved \in BOOLEAN /\ scheduled \in BOOLEAN /\ stage \in Stages
  BY DEF Init, Begin
<1>7. TypeOK
  BY <1>2, <1>3, <1>4, <1>5, <1>6 DEF TypeOK
<1>8. NonceFirst
  BY <1>2, <1>3 DEF Init, Begin, NonceFirst
<1> QED
  BY <1>7, <1>8

\* The run that Dispatch appends.
NewRun(why) ==
  [nonce |-> comment.nonce, plane |-> plane, phase |-> "posted", conclusion |-> "none",
   pushed |-> FALSE, why |-> why, of |-> IF why = "first" THEN NoRun ELSE current]

LEMMA NewRunIs ==
  ASSUME TypeOK, NonceFirst, NEW why \in {"first", "retry", "rearm"},
         pc \in {"dispatched", "rearmed"}
  PROVE  NewRun(why) \in Run
<1>1. Len(runs) \in Nat
  BY RunsAre
<1> QED
  BY <1>1, BoundsAssumption DEF NewRun, TypeOK, NonceFirst, Run, Comment, NoNonce, NoRun

SessionTyped ==
  /\ pc \in PCs /\ way \in Ways
  /\ current \in 0..Len(runs)
  /\ used \in 0..MaxInfraStageRetries
  /\ checkout \in 0..MaxControlPlane

GithubTyped ==
  /\ plane \in 0..MaxControlPlane
  /\ headMoved \in BOOLEAN
  /\ starts \in 0..MaxStarts
  /\ scheduled \in BOOLEAN

LEMMA TypeParts ==
  TypeOK <=> /\ stage \in Stages /\ runs \in Seq(Run) /\ Len(runs) <= MaxRuns
             /\ comment \in Comment /\ SessionTyped /\ GithubTyped
BY DEF TypeOK, SessionTyped, GithubTyped

LEMMA GithubStep ==
  ASSUME GithubTyped, [Next]_vars
  PROVE  GithubTyped'
<1>1. CASE UNCHANGED github
  BY <1>1 DEF GithubTyped, github
<1>2. CASE StartByPerson \/ StartScheduled \/ PostContinuation
  <2>1. starts' \in 0..MaxStarts /\ plane' \in 0..MaxControlPlane
    BY <1>2, BoundsAssumption DEF StartByPerson, StartScheduled, PostContinuation, Enter, GithubTyped
  <2>2. scheduled' \in BOOLEAN /\ headMoved' \in BOOLEAN
    BY Zenon, <1>2 DEF StartByPerson, StartScheduled, PostContinuation, Enter, GithubTyped
  <2> QED
    BY <2>1, <2>2 DEF GithubTyped
<1>3. CASE RunEnds \/ Push \/ ReleaseControlPlane
  <2>0. plane' = plane \/ (plane < MaxControlPlane /\ plane' = plane + 1)
    BY <1>3 DEF RunEnds, Push, ReleaseControlPlane
  <2>1. plane' \in 0..MaxControlPlane
    BY <2>0, BoundsAssumption DEF GithubTyped
  <2>2. scheduled' = scheduled /\ starts' = starts
    BY <1>3 DEF RunEnds, Push, ReleaseControlPlane
  <2>3. headMoved' \in BOOLEAN
    <3>1. CASE RunEnds
      <4>1. PICK pushed \in BOOLEAN : headMoved' = (headMoved \/ pushed)
        BY Zenon, <3>1 DEF RunEnds
      <4> QED
        BY <4>1
    <3> QED
      BY Zenon, <1>3, <3>1 DEF Push, ReleaseControlPlane, GithubTyped
  <2> QED
    BY <2>1, <2>2, <2>3 DEF GithubTyped
<1> QED
  BY <1>1, <1>2, <1>3 DEF Next, SessionStep, vars, github, StoreNonce, PostDispatch, PostRearm,
     Dispatch, Observe, Retry, Accept, RearmWorker, FailStage, ReserveHygiene, Recover,
     DispatchAgain, AdoptResult, AdoptFailure, AdoptHygieneFailure, RearmAudit, RearmHygiene,
     Throw, ReserveContinuation, NoContinuation, Kill, RunListed

\* Everything that is dispatched is a run, and the others are changed one at a time.
LEMMA RunsStep ==
  ASSUME TypeOK, NonceFirst, [Next]_vars
  PROVE  /\ runs' \in Seq(Run) /\ Len(runs') <= MaxRuns /\ Len(runs') \in Nat
         /\ Len(runs') >= Len(runs)
<1>a. runs \in Seq(Run) /\ Len(runs) <= MaxRuns /\ Len(runs) \in Nat
  BY RunsAre, TypeParts
<1>1. CASE UNCHANGED runs
  BY <1>1, <1>a
<1>2. ASSUME NEW why \in {"first", "retry", "rearm"}, pc \in {"dispatched", "rearmed"},
             Dispatch(why)
      PROVE  runs' \in Seq(Run) /\ Len(runs') <= MaxRuns /\ Len(runs') = Len(runs) + 1
  <2>1. /\ NewRun(why) \in Run
        /\ Len(runs) < MaxRuns /\ runs' = Append(runs, NewRun(why))
    BY <1>2, NewRunIs DEF Dispatch, NewRun
  <2> QED
    BY <2>1, <1>a, Appended, BoundsAssumption
<1>3. CASE PostDispatch \/ PostRearm
  BY <1>2, <1>3, <1>a DEF PostDispatch, PostRearm
<1>4. CASE RunListed \/ RunEnds
  <2>1. PICK i \in 1..Len(runs), r \in Run : runs' = [runs EXCEPT ![i] = r]
    BY <1>4, RunChanges, StagesAssumption
  <2> QED
    BY <2>1, <1>a, Altered
<1> QED
  BY <1>1, <1>3, <1>4 DEF Next, SessionStep, vars, StoreNonce, Observe, Retry, Accept,
     RearmWorker, FailStage, ReserveHygiene, Recover, DispatchAgain, AdoptResult, AdoptFailure,
     AdoptHygieneFailure, RearmAudit, RearmHygiene, Throw, ReserveContinuation, PostContinuation,
     NoContinuation, Kill, StartByPerson, StartScheduled, Enter, Push, ReleaseControlPlane

LEMMA CommentFields ==
  ASSUME TypeOK, NonceFirst
  PROVE  /\ comment.next \in Actions /\ comment.nonce \in Nat /\ comment.run \in 0..Len(runs)
         /\ comment.retries \in 0..MaxInfraStageRetries /\ comment.recovered \in 0..NoPlane
         /\ comment.count \in 0..MaxContinuations /\ comment.phase \in Actions
BY RunsAre DEF TypeOK, NonceFirst, Comment

Written(next, nonce, run, retries, recovered, count, phase) ==
  [next |-> next, nonce |-> nonce, run |-> run, retries |-> retries, recovered |-> recovered,
   count |-> count, phase |-> phase]

\* Every write of the comment changes some of its fields, within their domains.
LEMMA CommentMade ==
  ASSUME TypeOK, NonceFirst,
         NEW next \in Actions, NEW nonce \in Nat, NEW run \in 0..Len(runs),
         NEW retries \in 0..MaxInfraStageRetries, NEW recovered \in 0..NoPlane,
         NEW count \in 0..MaxContinuations, NEW phase \in Actions,
         comment' = Written(next, nonce, run, retries, recovered, count, phase)
  PROVE  comment' \in Comment /\ comment'.run <= Len(runs)
<1>1. run \in 0..MaxRuns
  BY RunsAre, BoundsAssumption DEF TypeOK
<1> QED
  BY <1>1, RunsAre DEF Comment, Written

LEMMA CommentStep ==
  ASSUME TypeOK, NonceFirst, [Next]_vars
  PROVE  comment' \in Comment /\ comment'.run <= Len(runs)
<1> DEFINE n == comment.next  m == comment.nonce  r == comment.run  t == comment.retries
           v == comment.recovered  k == comment.count  p == comment.phase
<1>c. comment \in Comment
  BY DEF TypeOK
<1>f. /\ n \in Actions /\ m \in Nat /\ r \in 0..Len(runs) /\ t \in 0..MaxInfraStageRetries
      /\ v \in 0..NoPlane /\ k \in 0..MaxContinuations /\ p \in Actions
  BY CommentFields
<1>a. /\ stage \in AllStages /\ EntryAction(comment.next) \in Actions
      /\ used \in 0..MaxInfraStageRetries /\ checkout \in 0..NoPlane /\ current \in 0..Len(runs)
      /\ NoRun \in 0..Len(runs) /\ m + 1 \in Nat
  BY <1>f, RunsAre, CommentAfterEnter, StagesAssumption, BoundsAssumption
     DEF TypeOK, AllStages, NoRun, NoPlane
<1>w. /\ InitialDispatch \in Actions /\ DispatchOf[stage] \in Actions
      /\ ObserveOf[stage] \in Actions /\ FailedOf[stage] \in Actions
      /\ RearmOf[stage] \in Actions /\ RearmSeenOf[stage] \in Actions
  BY <1>a, Words
<1>1. CASE StoreNonce
  <2>1. PICK next \in Actions, nonce \in Nat :
          comment' = [comment EXCEPT !.next = next, !.nonce = nonce, !.run = NoRun, !.retries = used]
    <3> DEFINE next == IF way = "initial" /\ stage = "remediation" THEN InitialDispatch
                       ELSE DispatchOf[stage]
               nonce == IF KeepsNonce THEN m ELSE m + 1
    <3>1. next \in Actions /\ nonce \in Nat
      BY <1>f, <1>a, <1>w
    <3>2. comment' = [comment EXCEPT !.next = next, !.nonce = nonce, !.run = NoRun, !.retries = used]
      BY <1>1 DEF StoreNonce, NewNonce
    <3> QED
      BY <3>1, <3>2
  <2>2. comment' = Written(next, nonce, NoRun, used, v, k, p)
    BY <2>1, <1>c DEF Written, Comment
  <2> QED
    BY <2>2, <1>f, <1>a, CommentMade
<1>2. CASE Observe \/ Recover
  <2>1. PICK i \in 1..Len(runs), next \in Actions :
          comment' = [comment EXCEPT !.next = next, !.run = i]
    BY <1>2, <1>w, RunsAre DEF Observe, Recover
  <2>2. comment' = Written(next, m, i, t, v, k, p)
    BY <2>1, <1>c DEF Written, Comment
  <2>3. i \in 0..Len(runs)
    BY RunsAre
  <2> QED
    BY <2>2, <2>3, <1>f, CommentMade
<1>3. CASE RearmWorker
  <2>1. comment' = Written(RearmOf[stage], m + 1, NoRun, t, checkout, k, p)
    BY <1>3, <1>c DEF RearmWorker, NewNonce, Written, Comment
  <2> QED
    BY <2>1, <1>f, <1>a, <1>w, CommentMade
<1>4. CASE RearmAudit \/ RearmHygiene
  <2>1. PICK next \in Actions : comment' = Written(next, m + 1, NoRun, t, v, k, p)
    BY <1>4, <1>c, <1>w DEF RearmAudit, RearmHygiene, NewNonce, Written, Comment
  <2> QED
    BY <2>1, <1>f, <1>a, CommentMade
<1>5. CASE ReserveHygiene
  <2>1. comment' = Written(DispatchOf[stage], m + 1, r, t, v, k, p)
    BY <1>5, <1>c DEF ReserveHygiene, NewNonce, Written, Comment
  <2> QED
    BY <2>1, <1>f, <1>a, <1>w, CommentMade
<1>6. CASE FailStage
  <2>1. comment' = Written(FailedOf[stage], m, current, t, v, k, p)
    BY <1>6, <1>c DEF FailStage, Written, Comment
  <2> QED
    BY <2>1, <1>f, <1>a, <1>w, CommentMade
<1>7. CASE AdoptHygieneFailure
  <2>1. stage = "hygiene" /\ comment' = Written(FailedOf[stage], m, r, t, v, k, p)
    BY <1>7, <1>c DEF AdoptHygieneFailure, Written, Comment
  <2> QED
    BY <2>1, <1>f, <1>a, <1>w, CommentMade
<1>8. CASE ReserveContinuation
  <2>1. comment' = Written(n, m, r, t, v, CountOf(n) + 1, n)
    BY <1>8, <1>c DEF ReserveContinuation, Written, Comment
  <2>2. CountOf(n) \in Nat /\ CountOf(n) < MaxContinuations
    BY <1>8, <1>f DEF ReserveContinuation, MayContinue, CountOf
  <2>3. CountOf(n) + 1 \in 0..MaxContinuations
    BY <2>2, BoundsAssumption
  <2> QED
    BY <2>1, <2>3, <1>f, CommentMade
<1>9. CASE StartByPerson \/ StartScheduled
  <2>1. comment' = Written(EntryAction(n), m, r, t, v, k, p)
    BY <1>9, <1>c DEF StartByPerson, StartScheduled, Enter, Written, Comment
  <2> QED
    BY <2>1, <1>f, <1>a, CommentMade
<1>10. CASE UNCHANGED comment
  BY <1>10, <1>c, <1>f
<1> QED
  BY <1>1, <1>2, <1>3, <1>4, <1>5, <1>6, <1>7, <1>8, <1>9, <1>10 DEF Next, SessionStep, vars,
     PostDispatch, PostRearm, Dispatch, Retry, Accept, DispatchAgain, AdoptResult, AdoptFailure,
     Throw, PostContinuation, NoContinuation, Kill, RunListed, RunEnds, Push, ReleaseControlPlane

LEMMA SessionTypedStep ==
  ASSUME TypeOK, NonceFirst, [Next]_vars
  PROVE  SessionTyped'
<1>a. /\ SessionTyped /\ Len(runs) \in Nat /\ Len(runs') \in Nat /\ Len(runs') >= Len(runs)
      /\ comment \in Comment /\ comment.run <= Len(runs) /\ plane \in 0..MaxControlPlane
  BY RunsAre, RunsStep, TypeParts DEF NonceFirst, GithubTyped
<1>1. CASE UNCHANGED session
  BY <1>1, <1>a DEF SessionTyped, session
<1>2. CASE UNCHANGED <<current, used, way, checkout>> /\ pc' \in PCs
  BY <1>2, <1>a DEF SessionTyped
<1>3. ASSUME NEW where \in PCs, Leave(where)
      PROVE  SessionTyped'
  BY <1>3, <1>a, BoundsAssumption DEF SessionTyped, Leave, NoRun, MaxInfraStageRetries, Ways
<1>4. CASE Observe \/ Recover
  <2>1. PICK i \in 1..Len(runs) : current' = i
    BY <1>4, RunsAre DEF Observe, Recover
  <2>2. pc' \in PCs /\ UNCHANGED <<used, way, checkout>>
    BY <1>4 DEF Observe, Recover, PCs
  <2> QED
    BY <2>1, <2>2, <1>a DEF SessionTyped
<1>5. CASE Retry \/ DispatchAgain
  BY <1>5, <1>a DEF Retry, DispatchAgain, MayRetry, RetryLeft, SessionTyped, PCs, Ways,
     MaxInfraStageRetries
<1>6. CASE StartByPerson \/ StartScheduled
  <2>1. Enter
    BY <1>6 DEF StartByPerson, StartScheduled
  <2>2. CASE headMoved
    BY <2>1, <2>2, <1>3 DEF Enter, PCs
  <2>3. CASE ~headMoved
    <3>1. comment.run \in 0..Len(runs) /\ comment.retries \in 0..1
      BY <1>a DEF Comment, MaxInfraStageRetries
    <3> QED
      BY <2>1, <2>3, <3>1, <1>a
         DEF Enter, SessionTyped, PCs, Ways, StoredRetries, MaxInfraStageRetries
  <2> QED
    BY <2>2, <2>3
<1>7. CASE Accept \/ AdoptResult \/ Throw \/ Kill \/ NoContinuation \/ FailStage
             \/ AdoptHygieneFailure \/ PostContinuation
  BY <1>7, <1>3 DEF Accept, AdoptResult, Throw, Kill, NoContinuation, FailStage,
     AdoptHygieneFailure, PostContinuation, PCs
<1>8. CASE StoreNonce \/ PostDispatch \/ PostRearm \/ RearmWorker \/ RearmAudit \/ RearmHygiene
             \/ ReserveHygiene \/ AdoptFailure \/ ReserveContinuation
  BY <1>8, <1>2 DEF StoreNonce, PostDispatch, PostRearm, Dispatch, RearmWorker, RearmAudit,
     RearmHygiene, ReserveHygiene, AdoptFailure, ReserveContinuation, PCs
<1> QED
  BY <1>1, <1>4, <1>5, <1>6, <1>7, <1>8 DEF Next, SessionStep, vars, session, RunListed, RunEnds,
     Push, ReleaseControlPlane

LEMMA NonceFirstStep ==
  ASSUME TypeOK, NonceFirst, [Next]_vars
  PROVE  NonceFirst'
<1>a. /\ comment \in Comment /\ Len(runs) \in Nat /\ Len(runs') \in Nat
      /\ Len(runs') >= Len(runs) /\ comment'.run <= Len(runs) /\ comment' \in Comment
      /\ stage' = stage
  BY RunsAre, RunsStep, CommentStep, TypeParts
     DEF Next, SessionStep, vars, StoreNonce, PostDispatch, PostRearm, Dispatch, Observe, Retry,
     Accept, RearmWorker, FailStage, ReserveHygiene, Recover, DispatchAgain, AdoptResult,
     AdoptFailure, AdoptHygieneFailure, RearmAudit, RearmHygiene, Throw, ReserveContinuation,
     PostContinuation, NoContinuation, Kill, StartByPerson, StartScheduled, Enter, RunListed,
     RunEnds, Push, ReleaseControlPlane
<1>b. comment'.run <= Len(runs')
  BY <1>a DEF Comment
<1>n. comment.nonce \in Nat /\ comment'.nonce \in Nat
  BY <1>a DEF Comment
<1>1. CASE UNCHANGED <<pc, comment>>
  BY <1>1, <1>a, <1>b DEF NonceFirst
<1>2. ASSUME comment'.nonce # NoNonce
      PROVE  NonceFirst'
  BY <1>2, <1>b DEF NonceFirst
<1>3. CASE RearmWorker \/ RearmAudit \/ RearmHygiene \/ ReserveHygiene
  <2>1. comment'.nonce = comment.nonce + 1
    BY <1>3, <1>a DEF RearmWorker, RearmAudit, RearmHygiene, ReserveHygiene, NewNonce, Comment
  <2> QED
    BY <2>1, <1>n, <1>2 DEF NoNonce
<1>4. CASE StoreNonce
  <2>1. comment'.nonce = IF KeepsNonce THEN comment.nonce ELSE comment.nonce + 1
    BY <1>4, <1>a DEF StoreNonce, NewNonce, Comment
  <2> QED
    BY <2>1, <1>4, <1>n, <1>2 DEF StoreNonce, KeepsNonce, NonceFirst, NoNonce
<1>5. CASE PostDispatch \/ PostRearm \/ Retry \/ DispatchAgain \/ AdoptFailure
  BY <1>5, <1>2 DEF PostDispatch, PostRearm, Dispatch, Retry, MayRetry, DispatchAgain,
     AdoptFailure, NonceFirst
<1>6. CASE Observe \/ Recover
  <2>1. comment'.nonce = comment.nonce
    BY <1>6, <1>a DEF Observe, Recover, Comment
  <2> QED
    BY <2>1, <1>6, <1>2 DEF Observe, Recover, NonceFirst
<1>7. CASE FailStage
  <2>1. comment'.nonce = comment.nonce
    BY <1>7, <1>a DEF FailStage, Comment
  <2> QED
    BY <2>1, <1>7, <1>2 DEF FailStage, NonceFirst
<1>8. ASSUME comment'.nonce = comment.nonce, comment'.run = comment.run,
             pc' \in {"none", "over", "threw", "scheduling"}
      PROVE  NonceFirst'
  BY <1>8, <1>b DEF NonceFirst
<1>9. CASE Accept \/ AdoptResult \/ AdoptHygieneFailure \/ Throw \/ Kill \/ ReserveContinuation
             \/ PostContinuation \/ NoContinuation
  <2>1. comment'.nonce = comment.nonce /\ comment'.run = comment.run
    BY <1>9, <1>a DEF Accept, AdoptResult, AdoptHygieneFailure, Throw, Kill, ReserveContinuation,
       PostContinuation, NoContinuation, Comment
  <2>2. pc' \in {"none", "over", "threw", "scheduling"}
    BY <1>9 DEF Accept, AdoptResult, AdoptHygieneFailure, Throw, Kill, ReserveContinuation,
       PostContinuation, NoContinuation, Leave
  <2> QED
    BY <2>1, <2>2, <1>8
<1>10. CASE StartByPerson \/ StartScheduled
  <2>1. Enter
    BY <1>10 DEF StartByPerson, StartScheduled
  <2>2. comment'.nonce = comment.nonce /\ comment'.run = comment.run
    BY <2>1, <1>a DEF Enter, Comment
  <2> QED
    BY <2>1, <2>2, <1>a, <1>b, <1>8 DEF Enter, Leave, NonceFirst, NoNonce, NoRun
<1> QED
  BY <1>1, <1>3, <1>4, <1>5, <1>6, <1>7, <1>9, <1>10 DEF Next, SessionStep, vars, session,
     RunListed, RunEnds, Push, ReleaseControlPlane

LEMMA TypeStep ==
  ASSUME TypeOK, NonceFirst, [Next]_vars
  PROVE  TypeOK' /\ NonceFirst'
<1>1. stage' = stage
  BY DEF Next, SessionStep, vars, StoreNonce, PostDispatch, PostRearm, Dispatch, Observe, Retry,
     Accept, RearmWorker, FailStage, ReserveHygiene, Recover, DispatchAgain, AdoptResult,
     AdoptFailure, AdoptHygieneFailure, RearmAudit, RearmHygiene, Throw, ReserveContinuation,
     PostContinuation, NoContinuation, Kill, StartByPerson, StartScheduled, Enter, RunListed,
     RunEnds, Push, ReleaseControlPlane
<1>2. /\ stage' \in Stages /\ runs' \in Seq(Run) /\ Len(runs') <= MaxRuns
      /\ comment' \in Comment /\ SessionTyped' /\ GithubTyped'
  BY <1>1, TypeParts, RunsStep, CommentStep, SessionTypedStep, GithubStep
<1> QED
  BY <1>2, NonceFirstStep DEF TypeOK, SessionTyped, GithubTyped

--------------------------------------------------------------------------------
(* The order of the runs, for the two stages that are never dispatched twice. *)

Ordered == RunsInOrder /\ LastRun /\ RetryStored

LEMMA DispatchOrdered ==
  ASSUME IInv, stage # "hygiene", PostDispatch \/ PostRearm
  PROVE  Ordered'
<1>a. /\ RunsInOrder /\ LastRun /\ RetryStored /\ TypeOK /\ NonceFirst
      /\ Len(runs) \in Nat /\ DOMAIN runs = 1..Len(runs) /\ comment \in Comment
  BY RunsAre DEF IInv, TypeOK
<1>1. PICK why \in {"first", "retry", "rearm"} :
        /\ Dispatch(why) /\ pc \in {"dispatched", "rearmed"}
        /\ why = "retry" => pc = "dispatched" /\ used > 0
  BY DEF PostDispatch, PostRearm
<1>2. NewRun(why) \in Run /\ runs' = Append(runs, NewRun(why))
  BY <1>a, <1>1, NewRunIs DEF Dispatch, NewRun
<1>3. /\ Len(runs') = Len(runs) + 1 /\ DOMAIN runs' = 1..(Len(runs) + 1)
      /\ \A i \in 1..Len(runs) : runs'[i] = runs[i]
      /\ runs'[Len(runs) + 1] = NewRun(why)
  BY <1>a, <1>2, Appended
<1>4. /\ NewRun(why).nonce = comment.nonce /\ NewRun(why).conclusion = "none"
      /\ NewRun(why).why = why
  BY DEF NewRun
<1>5. pc' = "correlate" /\ UNCHANGED <<stage, comment, current, used>>
  BY <1>1 DEF Dispatch
<1>6. /\ \A i \in DOMAIN runs : Settled(runs[i])
      /\ comment.run = NoRun /\ \A i \in DOMAIN runs : runs[i].nonce < comment.nonce
  BY <1>1, <1>a DEF LastRun
<1>7. RunsInOrder'
  <2>1. \A i \in DOMAIN runs' : runs'[i].conclusion \in Conclusions(stage) \cup {"none"}
    BY <1>3, <1>4, <1>a DEF RunsInOrder
  <2>2. \A i \in DOMAIN runs' : runs'[i].nonce <= comment.nonce
    BY <1>3, <1>4, <1>a DEF RunsInOrder, Comment
  <2>3. \A i, j \in DOMAIN runs' : i < j => runs'[i].nonce < runs'[j].nonce
    BY <1>3, <1>4, <1>6, <1>a DEF RunsInOrder
  <2>4. \A i \in DOMAIN runs' : i < Len(runs') => Settled(runs'[i])
    BY <1>3, <1>6, <1>a
  <2> QED
    BY <2>1, <2>2, <2>3, <2>4, <1>5 DEF RunsInOrder, Conclusions, Settled, HasResult
<1>8. LastRun'
  BY <1>3, <1>4, <1>5, <1>6, <1>a DEF LastRun
<1>9. RetryStored'
  <2>1. \A i \in Retries' : i \in Retries \/ (why = "retry" /\ i = Len(runs) + 1)
    BY <1>3, <1>4, <1>a DEF Retries
  <2>2. why = "retry" => Retries = {} /\ comment.retries = 1
    <3>1. used \in 0..1
      BY <1>a DEF TypeOK, MaxInfraStageRetries
    <3> QED
      BY <1>1, <1>a, <3>1 DEF RetryStored
  <2> QED
    BY <2>1, <2>2, <1>1, <1>5, <1>a DEF RetryStored, Resting
<1> QED
  BY <1>7, <1>8, <1>9 DEF Ordered

LEMMA RunOrdered ==
  ASSUME IInv, stage # "hygiene", RunListed \/ RunEnds
  PROVE  Ordered'
<1>a. /\ RunsInOrder /\ LastRun /\ RetryStored /\ TypeOK
      /\ Len(runs) \in Nat /\ DOMAIN runs = 1..Len(runs)
      /\ \A i \in 1..Len(runs) : runs[i] \in Run
  BY RunsAre DEF IInv
<1>1. PICK i \in 1..Len(runs), r \in Run :
        /\ runs' = [runs EXCEPT ![i] = r]
        /\ runs[i].phase # "done"
        /\ r.nonce = runs[i].nonce /\ r.why = runs[i].why
        /\ r.conclusion \in Conclusions(stage) \cup {"none"}
  <2>1. CASE RunListed
    <3>1. PICK i \in 1..Len(runs) :
            /\ runs[i].phase = "posted"
            /\ [runs[i] EXCEPT !.phase = "listed"] \in Run
            /\ runs' = [runs EXCEPT ![i] = [runs[i] EXCEPT !.phase = "listed"]]
      BY <2>1, <1>a, RunChanges, StagesAssumption
    <3> DEFINE r == [runs[i] EXCEPT !.phase = "listed"]
    <3>2. /\ r.nonce = runs[i].nonce /\ r.why = runs[i].why
          /\ r.conclusion = runs[i].conclusion
      BY <1>a DEF Run
    <3> QED
      BY <3>1, <3>2, <1>a DEF RunsInOrder
  <2>2. CASE RunEnds
    <3>1. PICK i \in 1..Len(runs), c \in Conclusions(stage), pushed \in BOOLEAN :
            LET run == [runs[i] EXCEPT !.phase = "done", !.conclusion = c, !.pushed = pushed] IN
            /\ runs[i].phase = "listed"
            /\ run \in Run
            /\ runs' = [runs EXCEPT ![i] = run]
            /\ headMoved' = (headMoved \/ pushed)
      BY Zenon, <2>2, <1>a, RunChanges, StagesAssumption
    <3> DEFINE r == [runs[i] EXCEPT !.phase = "done", !.conclusion = c, !.pushed = pushed]
    <3>2. r.nonce = runs[i].nonce /\ r.why = runs[i].why /\ r.conclusion = c
      BY <1>a DEF Run
    <3> QED
      BY <3>1, <3>2
  <2> QED
    BY <2>1, <2>2
<1>2. /\ Len(runs') = Len(runs) /\ DOMAIN runs' = DOMAIN runs
      /\ \A j \in 1..Len(runs) : runs'[j] = IF j = i THEN r ELSE runs[j]
  BY <1>1, <1>a, Altered
<1>3. UNCHANGED <<stage, comment, session>>
  BY DEF RunListed, RunEnds
<1>4. ~Settled(runs[i]) /\ i = Len(runs)
  <2>1. ~Settled(runs[i])
    BY <1>1 DEF Settled
  <2>2. \A j \in 1..Len(runs) : j < Len(runs) => Settled(runs[j])
    BY <1>a DEF RunsInOrder
  <2>3. ~(i < Len(runs))
    BY <2>1, <2>2
  <2>4. Len(runs) \in Nat /\ i \in 1..Len(runs)
    BY <1>a
  <2>5. i = Len(runs)
    BY <2>3, <2>4
  <2> QED
    BY <2>1, <2>5
<1>5. RunsInOrder'
  <2>1. \A j \in DOMAIN runs' : runs'[j].conclusion \in Conclusions(stage) \cup {"none"}
    BY <1>1, <1>2, <1>a DEF RunsInOrder
  <2>2. \A j \in DOMAIN runs' : runs'[j].nonce = runs[j].nonce
    BY <1>1, <1>2, <1>a
  <2>3. \A j \in DOMAIN runs' : j < Len(runs') => Settled(runs'[j])
    BY <1>2, <1>4, <1>a DEF RunsInOrder
  <2> QED
    BY <2>1, <2>2, <2>3, <1>2, <1>3, <1>a DEF RunsInOrder, Conclusions, Settled, HasResult
<1>6. LastRun'
  BY <1>1, <1>2, <1>3, <1>4, <1>a DEF LastRun, session
<1>7. RetryStored'
  <2>1. Retries' = Retries
    BY <1>1, <1>2, <1>a DEF Retries
  <2> QED
    BY <2>1, <1>3, <1>a DEF RetryStored, session
<1> QED
  BY <1>5, <1>6, <1>7 DEF Ordered

\* The steps that change no run: each is a place of the session, the nonce and the run that
\* the comment names, and the retries.
LEMMA OthersOrdered ==
  ASSUME IInv, stage # "hygiene", [Next]_vars, UNCHANGED runs
  PROVE  Ordered'
<1>a. /\ RunsInOrder /\ LastRun /\ RetryStored /\ TypeOK /\ NonceFirst
      /\ Len(runs) \in Nat /\ DOMAIN runs = 1..Len(runs)
      /\ \A i \in 1..Len(runs) : runs[i] \in Run
      /\ comment \in Comment /\ used \in 0..1 /\ comment.retries \in 0..1 /\ comment.nonce \in Nat
  BY RunsAre DEF IInv, TypeOK, Comment, MaxInfraStageRetries
<1>r. Retries' = Retries /\ runs' = runs
  BY DEF Retries
<1>s. stage' = stage
  BY DEF Next, SessionStep, vars, StoreNonce, PostDispatch, PostRearm, Dispatch, Observe, Retry,
     Accept, RearmWorker, FailStage, ReserveHygiene, Recover, DispatchAgain, AdoptResult,
     AdoptFailure, AdoptHygieneFailure, RearmAudit, RearmHygiene, Throw, ReserveContinuation,
     PostContinuation, NoContinuation, Kill, StartByPerson, StartScheduled, Enter, RunListed,
     RunEnds, Push, ReleaseControlPlane
<1>o. ASSUME comment'.nonce \in Nat, comment'.nonce >= comment.nonce
      PROVE  RunsInOrder'
  <2>1. \A i \in DOMAIN runs : runs[i].nonce \in Nat
    BY <1>a DEF Run
  <2> QED
    BY <2>1, <1>o, <1>r, <1>s, <1>a DEF RunsInOrder, Conclusions, Settled, HasResult
<1>l. \A i \in DOMAIN runs : Listed(comment.nonce) = {i} => i = Len(runs)
  <2>1. ASSUME NEW i \in DOMAIN runs, Listed(comment.nonce) = {i}, i # Len(runs)
        PROVE  FALSE
    <3>1. i \in Listed(comment.nonce)
      BY <2>1
    <3>2. runs[i].nonce = comment.nonce
      BY <3>1 DEF Listed
    <3>3. Len(runs) \in DOMAIN runs /\ i < Len(runs)
      BY <2>1, <1>a
    <3>4. runs[i].nonce < runs[Len(runs)].nonce /\ runs[Len(runs)].nonce <= comment.nonce
      BY <3>3, <1>a DEF RunsInOrder
    <3>5. runs[Len(runs)].nonce \in Nat
      BY <3>3, <1>a DEF Run
    <3> QED
      BY <3>2, <3>4, <3>5, <1>a
  <2> QED
    BY <2>1
<1>1. CASE StoreNonce
  <2>1. /\ comment'.nonce = comment.nonce + 1 /\ comment'.run = NoRun
        /\ comment'.retries = used
    BY <1>1, <1>a DEF StoreNonce, KeepsNonce, NewNonce, Comment
  <2>2. RunsInOrder'
    BY <2>1, <1>o, <1>a
  <2>3. LastRun'
    <3>1. \A i \in DOMAIN runs : runs[i].nonce < comment.nonce + 1
      BY <1>a DEF RunsInOrder, Run
    <3> QED
      BY <3>1, <2>1, <1>1, <1>r, <1>a DEF StoreNonce, LastRun, Settled, HasResult
  <2>4. RetryStored'
    BY <2>1, <1>1, <1>r, <1>a DEF StoreNonce, RetryStored, Resting, NoNonce
  <2> QED
    BY <2>2, <2>3, <2>4 DEF Ordered
<1>2. CASE Observe \/ Recover
  <2>1. PICK i \in DOMAIN runs : /\ Listed(comment.nonce) = {i} /\ current' = i
                                 /\ comment'.run = i
    BY <1>2, <1>a DEF Observe, Recover, Comment
  <2>2. /\ i = Len(runs) /\ current' = Len(runs) /\ current' # NoRun
        /\ comment'.run = Len(runs)
    BY <2>1, <1>l, <1>a DEF NoRun
  <2>3. /\ comment'.nonce = comment.nonce /\ comment'.retries = comment.retries
        /\ used' = used /\ pc' \in {"watch", "rewatch", "adopt"} /\ pc \in {"correlate", "lookup"}
    BY <1>2, <1>a DEF Observe, Recover, Comment
  <2>4. RunsInOrder'
    BY <2>3, <1>o, <1>a
  <2>5. LastRun'
    BY <2>2, <2>3, <1>r DEF LastRun
  <2>6. RetryStored'
    BY <2>3, <1>r, <1>a DEF RetryStored, Resting
  <2> QED
    BY <2>4, <2>5, <2>6 DEF Ordered

<1>k. ASSUME pc \in {"watch", "adopt"}, Done, ~HasResult(runs[current])
      PROVE  current = Len(runs) /\ \A i \in DOMAIN runs : Settled(runs[i])
  <2>1. current = Len(runs) /\ Settled(runs[current])
    BY <1>k, <1>a DEF LastRun, Settled, Done
  <2> QED
    BY <2>1, <1>a DEF RunsInOrder
<1>c. pc = "watch" \/ pc = "adopt" => runs[current].conclusion \in Conclusions(stage) \cup {"none"}
  <2>1. pc = "watch" \/ pc = "adopt" => current \in DOMAIN runs
    BY <1>a DEF LastRun, NoRun
  <2> QED
    BY <2>1, <1>a DEF RunsInOrder
<1>3. CASE Retry
  <2>1. pc = "watch" /\ Done /\ Retryable(Conclusion) /\ used < 1
    BY <1>3 DEF Retry, MayRetry, RetryLeft, MaxInfraStageRetries
  <2>2. ~HasResult(runs[current])
    BY <2>1, <1>c DEF Retryable, TimedOut, HasResult, Conclusion
  <2>3. \A i \in DOMAIN runs : Settled(runs[i])
    BY <2>1, <2>2, <1>k
  <2>4. pc' = "dispatch" /\ used' = used + 1 /\ UNCHANGED <<comment, current>>
    BY <1>3 DEF Retry
  <2>5. RunsInOrder'
    BY <2>4, <1>o, <1>a
  <2>6. LastRun'
    BY <2>3, <2>4, <1>r, <1>a DEF LastRun, Settled, HasResult
  <2>7. comment.retries = 0
    BY <2>1, <1>a DEF RetryStored, Resting
  <2>8. RetryStored'
    BY <2>4, <2>7, <1>r, <1>a DEF RetryStored, Resting
  <2> QED
    BY <2>5, <2>6, <2>8 DEF Ordered
<1>4. CASE RearmWorker \/ RearmAudit
  <2>1. /\ pc \in {"watch", "adopt"} /\ Done /\ ~Green(Conclusion)
        /\ stage = "remediation" \/ (stage = "audit" /\ ~LeftVerdict(Conclusion))
    BY <1>4 DEF RearmWorker, RearmAudit, CanRearmWorker, CanRearmAudit
  <2>2. ~HasResult(runs[current])
    BY <2>1, <1>c DEF Green, LeftVerdict, HasResult, Conclusion, Conclusions, WorkerConclusions
  <2>3. \A i \in DOMAIN runs : Settled(runs[i])
    BY <2>1, <2>2, <1>k
  <2>4. /\ comment'.nonce = comment.nonce + 1 /\ comment'.run = NoRun
        /\ comment'.retries = comment.retries /\ pc' = "rearmed" /\ used' = used
    BY <1>4, <1>a DEF RearmWorker, RearmAudit, NewNonce, Comment
  <2>5. RunsInOrder'
    BY <2>4, <1>o, <1>a
  <2>6. \A i \in DOMAIN runs : runs[i].nonce < comment.nonce + 1
    BY <1>a DEF RunsInOrder, Run
  <2>7. LastRun'
    BY <2>3, <2>4, <2>6, <1>r DEF LastRun, Settled, HasResult
  <2>8. RetryStored'
    BY <2>1, <2>4, <1>r, <1>a DEF RetryStored, Resting, NoNonce
  <2> QED
    BY <2>5, <2>7, <2>8 DEF Ordered
<1>5. ASSUME comment'.nonce = comment.nonce, comment'.retries = comment.retries,
             comment'.run \in {NoRun, Len(runs)}, pc' \in Resting
      PROVE  Ordered'
  <2>1. RunsInOrder'
    BY <1>5, <1>o, <1>a
  <2>2. LastRun'
    BY <1>5, <1>r DEF LastRun, Resting
  <2>3. RetryStored'
    BY <1>5, <1>r, <1>a DEF RetryStored, Resting
  <2> QED
    BY <2>1, <2>2, <2>3 DEF Ordered
<1>6. CASE Accept \/ AdoptResult \/ Throw \/ Kill \/ NoContinuation \/ PostContinuation
             \/ ReserveContinuation
  <2>1. /\ comment'.nonce = comment.nonce /\ comment'.retries = comment.retries
        /\ comment'.run = comment.run
    BY <1>6, <1>a DEF Accept, AdoptResult, Throw, Kill, NoContinuation, PostContinuation,
       ReserveContinuation, Comment
  <2>2. pc' \in Resting
    BY <1>6 DEF Accept, AdoptResult, Throw, Kill, NoContinuation, PostContinuation,
       ReserveContinuation, Leave, Resting
  <2> QED
    BY <2>1, <2>2, <1>5, <1>a DEF LastRun
<1>7. CASE FailStage
  <2>1. /\ comment'.nonce = comment.nonce /\ comment'.retries = comment.retries
        /\ comment'.run = current /\ pc' = "threw" /\ pc \in {"watch", "rewatch"}
    BY <1>7, <1>a DEF FailStage, Leave, Comment
  <2>2. current = Len(runs)
    BY <2>1, <1>a DEF LastRun
  <2> QED
    BY <2>1, <2>2, <1>5 DEF Resting
<1>8. CASE ReserveHygiene \/ DispatchAgain \/ AdoptHygieneFailure \/ RearmHygiene
  BY <1>8, <1>a DEF ReserveHygiene, DispatchAgain, DispatchesAgain, AdoptHygieneFailure,
     RearmHygiene, LastRun
<1>9. CASE AdoptFailure
  <2>1. pc = "adopt" /\ pc' = "watch" /\ UNCHANGED <<comment, current, used>>
    BY <1>9 DEF AdoptFailure
  <2>2. RunsInOrder' /\ LastRun' /\ RetryStored'
    BY <2>1, <1>o, <1>r, <1>a DEF LastRun, RetryStored, Resting
  <2> QED
    BY <2>2 DEF Ordered
<1>10. CASE StartByPerson \/ StartScheduled
  <2>1. Enter
    BY <1>10 DEF StartByPerson, StartScheduled
  <2>2. /\ comment'.nonce = comment.nonce /\ comment'.retries = comment.retries
        /\ comment'.run = comment.run
    BY <2>1, <1>a DEF Enter, Comment
  <2>3. CASE headMoved
    BY <2>1, <2>2, <2>3, <1>5, <1>a DEF Enter, Leave, LastRun, Resting
  <2>4. CASE ~headMoved
    <3>1. /\ current' = comment.run /\ used' = comment.retries
          /\ pc' = CASE comment.run # NoRun -> "adopt"
                     [] comment.run = NoRun /\ comment.nonce # NoNonce -> "lookup"
                     [] OTHER -> "dispatch"
      BY <2>1, <2>4, <1>a DEF Enter, StoredRetries, RetryStored
    <3>2. comment.nonce = NoNonce => DOMAIN runs = {}
      BY <1>a DEF RunsInOrder, Run, NoNonce
    <3>3. comment.nonce = NoNonce => Retries = {}
      BY <3>2 DEF Retries
    <3>4. RunsInOrder'
      BY <2>2, <1>o, <1>a
    <3>5. LastRun'
      BY <2>2, <3>1, <3>2, <1>r, <1>a DEF LastRun
    <3>6. RetryStored'
      BY <2>2, <3>1, <3>3, <1>r, <1>a DEF RetryStored, Resting
    <3> QED
      BY <3>4, <3>5, <3>6 DEF Ordered
  <2> QED
    BY <2>3, <2>4
<1>11. CASE UNCHANGED <<comment, session>>
  <2>1. RunsInOrder' /\ LastRun' /\ RetryStored'
    BY <1>11, <1>o, <1>r, <1>a DEF LastRun, RetryStored, session, Settled, HasResult
  <2> QED
    BY <2>1 DEF Ordered
<1>12. CASE PostDispatch \/ PostRearm
  BY <1>12, DispatchOrdered
<1> QED
  BY <1>1, <1>2, <1>3, <1>4, <1>6, <1>7, <1>8, <1>9, <1>10, <1>11, <1>12
     DEF Next, SessionStep, vars, session, RunListed, RunEnds, Push, ReleaseControlPlane

--------------------------------------------------------------------------------
(* The invariant and what follows from it.                                  *)

LEMMA InitInv == Init => IInv
<1> SUFFICES ASSUME Init PROVE IInv
  OBVIOUS
<1>1. TypeOK /\ NonceFirst
  BY TypeInit
<1>2. DOMAIN runs = {} /\ Len(runs) = 0
  BY EmptySeq DEF Init, Begin
<1>3. Retries = {}
  BY <1>2 DEF Retries
<1>4. ASSUME stage # "hygiene"
      PROVE  RunsInOrder /\ LastRun /\ RetryStored
  <2>1. pc = "dispatch" /\ used = 0 /\ comment.run = NoRun /\ comment.retries = 0
    BY <1>4 DEF Init, Begin
  <2>2. RunsInOrder
    BY <1>2 DEF RunsInOrder
  <2>3. LastRun
    BY <1>2, <2>1 DEF LastRun
  <2>4. RetryStored
    BY <1>3, <2>1 DEF RetryStored
  <2> QED
    BY <2>2, <2>3, <2>4
<1> QED
  BY <1>1, <1>4 DEF IInv

LEMMA Step == IInv /\ [Next]_vars => IInv'
<1> SUFFICES ASSUME IInv, [Next]_vars PROVE IInv'
  OBVIOUS
<1>1. TypeOK' /\ NonceFirst'
  BY TypeStep DEF IInv
<1>2. stage' = stage
  BY DEF Next, SessionStep, vars, StoreNonce, PostDispatch, PostRearm, Dispatch, Observe, Retry,
     Accept, RearmWorker, FailStage, ReserveHygiene, Recover, DispatchAgain, AdoptResult,
     AdoptFailure, AdoptHygieneFailure, RearmAudit, RearmHygiene, Throw, ReserveContinuation,
     PostContinuation, NoContinuation, Kill, StartByPerson, StartScheduled, Enter, RunListed,
     RunEnds, Push, ReleaseControlPlane
<1>3. ASSUME stage # "hygiene"
      PROVE  Ordered'
  <2>1. CASE PostDispatch \/ PostRearm
    BY <1>3, <2>1, DispatchOrdered
  <2>2. CASE RunListed \/ RunEnds
    BY <1>3, <2>2, RunOrdered
  <2>3. CASE UNCHANGED runs
    BY <1>3, <2>3, OthersOrdered
  <2> QED
    BY <2>1, <2>2, <2>3
       DEF Next, SessionStep, vars, StoreNonce, Observe, Retry, Accept, RearmWorker, FailStage,
           ReserveHygiene, Recover, DispatchAgain, AdoptResult, AdoptFailure,
           AdoptHygieneFailure, RearmAudit, RearmHygiene, Throw, ReserveContinuation,
           PostContinuation, NoContinuation, Kill, StartByPerson, StartScheduled, Enter, Push,
           ReleaseControlPlane
<1> QED
  BY <1>1, <1>2, <1>3 DEF IInv, Ordered

\* What the invariant implies, of a stage and of the audit of an adopted pull request.

LEMMA LivesAlone == IInv => OneLiveRun
<1>1. ASSUME IInv, stage # "hygiene",
             NEW i \in DOMAIN runs, NEW j \in DOMAIN runs,
             runs[i].phase # "done", runs[j].phase # "done"
      PROVE  i = j
  <2>1. \A k \in DOMAIN runs : k < Len(runs) => runs[k].phase = "done"
    BY <1>1 DEF IInv, RunsInOrder, Settled
  <2>2. ~(i < Len(runs)) /\ ~(j < Len(runs))
    BY <1>1, <2>1
  <2>3. Len(runs) \in Nat /\ i \in 1..Len(runs) /\ j \in 1..Len(runs)
    BY <1>1, RunsAre DEF IInv
  <2> QED
    BY <2>2, <2>3
<1> QED
  BY <1>1 DEF OneLiveRun

LEMMA RetriesAreOne == IInv => RetriedOnce
<1>1. ASSUME IInv, stage # "hygiene"
      PROVE  Cardinality(Retries) <= MaxInfraStageRetries
  <2>1. \A i, j \in Retries : i = j
    BY <1>1 DEF IInv, RetryStored
  <2>2. CASE Retries = {}
    BY <2>2, FS_EmptySet DEF MaxInfraStageRetries
  <2>3. CASE Retries # {}
    <3>1. PICK i : Retries = {i}
      BY <2>1, <2>3
    <3>2. Cardinality(Retries) = 1
      BY <3>1, FS_Singleton
    <3> QED
      BY <3>2 DEF MaxInfraStageRetries
  <2> QED
    BY <2>2, <2>3
<1> QED
  BY <1>1 DEF RetriedOnce

LEMMA NothingFollows == IInv => ResultStands
<1>1. ASSUME IInv, stage # "hygiene", NEW i \in DOMAIN runs,
             runs[i].conclusion \in {"success", "failure-verdict"}
      PROVE  i = Len(runs)
  <2>1. ~(i < Len(runs))
    BY <1>1 DEF IInv, RunsInOrder, Settled, HasResult
  <2>2. Len(runs) \in Nat /\ i \in 1..Len(runs)
    BY <1>1, RunsAre DEF IInv
  <2> QED
    BY <2>1, <2>2
<1> QED
  BY <1>1 DEF ResultStands

\* The inductive invariant holds in every state of every run of a stage.
THEOREM Invariance == Spec => []IInv
BY InitInv, Step, PTL DEF Spec

\* Every value that a stage stores, holds in memory or waits for has its type.
THEOREM TypeCorrect == Spec => []TypeOK
<1>1. IInv => TypeOK
  BY DEF IInv
<1> QED
  BY <1>1, Invariance, PTL

\* A remediation worker or an audit never runs twice at a time: whatever the order in which
\* sessions throw, are killed, are started again or scheduled, and runs become visible.
THEOREM NeverTwice == Spec => []OneLiveRun
BY LivesAlone, Invariance, PTL

\* A worker or an audit that failed for its infrastructure is dispatched again once, over
\* all the sessions of its stage.
THEOREM RetryIsSingle == Spec => []RetriedOnce
BY RetriesAreOne, Invariance, PTL

\* A remediation worker that succeeded, or an audit that left a verdict, is the last run of
\* its stage: no session dispatches, retries or rearms after the result.
THEOREM ResultIsLast == Spec => []ResultStands
BY NothingFollows, Invariance, PTL

--------------------------------------------------------------------------------
(* What a run is on account of.                                            *)

LastPlane == IF Len(runs) = 0 THEN 0 ELSE runs[Len(runs)].plane

\* A session that adopted a remediation and has not replaced a run of it yet.
Unspent ==
  /\ stage = "remediation" /\ way = "adopted"
  /\ \/ pc \in {"lookup", "adopt", "watch", "dispatch", "dispatched"}
     \/ pc = "correlate" /\ comment.next # RearmOf["remediation"]

\* Every replaced run is paid for by a control plane up to that of the last run, and a session
\* that may replace one finds a control plane that is left.  The runs are older than the
\* session that found them, but a retry may be newer.
RearmsPaid ==
  /\ checkout <= plane /\ \A i \in DOMAIN runs : runs[i].plane <= plane
  /\ Cardinality(Rearms) <= LastPlane
  /\ stage = "audit" /\ pc = "adopt" => LastPlane <= checkout
  /\ Unspent => Cardinality(Rearms) <= checkout
  /\ pc = "rearmed" => Cardinality(Rearms) < plane
  /\ stage = "remediation" /\ pc = "rearmed" => comment.next = RearmOf["remediation"]

\* The first dispatch, and it alone, is made without an earlier run.
FirstIsFirst ==
  /\ comment.retries > 0 \/ used > 0 \/ pc = "rearmed" => Len(runs) > 0
  /\ pc \in {"dispatch", "dispatched"} /\ used = 0 => Len(runs) = 0

PaidInv == stage # "hygiene" => RearmsPaid /\ FirstIsFirst

LEMMA StageFacts ==
  ASSUME IInv, stage # "hygiene"
  PROVE  /\ TypeOK /\ NonceFirst /\ RunsInOrder /\ LastRun /\ RetryStored
         /\ Len(runs) \in Nat /\ DOMAIN runs = 1..Len(runs)
         /\ \A i \in 1..Len(runs) : runs[i] \in Run /\ runs[i].plane \in Nat
         /\ comment \in Comment /\ comment.retries \in 0..1 /\ used \in 0..1
         /\ checkout \in Nat /\ plane \in Nat /\ LastPlane \in Nat
         /\ stage \in {"remediation", "audit"}
<1>1. TypeOK /\ NonceFirst /\ RunsInOrder /\ LastRun /\ RetryStored
  BY DEF IInv
<1>2. /\ Len(runs) \in Nat /\ DOMAIN runs = 1..Len(runs)
      /\ \A i \in 1..Len(runs) : runs[i] \in Run
  BY <1>1, RunsAre
<1>3. \A i \in 1..Len(runs) : runs[i].plane \in Nat
  BY <1>2, BoundsAssumption DEF Run
<1>4. comment \in Comment /\ comment.retries \in 0..1 /\ used \in 0..1
  BY <1>1 DEF TypeOK, Comment, MaxInfraStageRetries
<1>5. checkout \in Nat /\ plane \in Nat
  BY <1>1, BoundsAssumption DEF TypeOK
<1>6. LastPlane \in Nat
  BY <1>2, <1>3 DEF LastPlane
<1>7. stage \in {"remediation", "audit"}
  BY <1>1, StagesAssumption DEF TypeOK
<1> QED
  BY <1>1, <1>2, <1>3, <1>4, <1>5, <1>6, <1>7

LEMMA RearmsFinite ==
  ASSUME Len(runs) \in Nat, DOMAIN runs = 1..Len(runs)
  PROVE  IsFiniteSet(Rearms) /\ Cardinality(Rearms) \in Nat
<1>1. IsFiniteSet(1..Len(runs))
  BY FS_Interval
<1>2. Rearms \subseteq 1..Len(runs)
  BY DEF Rearms
<1> QED
  BY <1>1, <1>2, FS_Subset, FS_CardinalityType

\* What a dispatch does to the runs.
LEMMA Dispatched ==
  ASSUME IInv, stage # "hygiene", PostDispatch \/ PostRearm
  PROVE  /\ Len(runs') = Len(runs) + 1 /\ DOMAIN runs' = 1..(Len(runs) + 1)
         /\ \A i \in 1..Len(runs) : runs'[i] = runs[i]
         /\ runs'[Len(runs) + 1].plane = plane /\ runs'[Len(runs) + 1].phase = "posted"
         /\ runs'[Len(runs) + 1].why
              = IF PostRearm THEN "rearm" ELSE IF used > 0 THEN "retry" ELSE "first"
         /\ pc' = "correlate"
         /\ UNCHANGED <<stage, comment, current, used, way, checkout, plane>>
<1>1. TypeOK /\ NonceFirst
  BY DEF IInv
<1> DEFINE why == IF PostRearm THEN "rearm" ELSE IF used > 0 THEN "retry" ELSE "first"
<1>2. /\ Dispatch(why) /\ pc \in {"dispatched", "rearmed"}
      /\ why \in {"first", "retry", "rearm"}
  BY DEF PostDispatch, PostRearm
<1> HIDE DEF why
<1>3. NewRun(why) \in Run /\ runs' = Append(runs, NewRun(why))
  BY <1>1, <1>2, NewRunIs DEF Dispatch, NewRun
<1>4. /\ Len(runs') = Len(runs) + 1 /\ DOMAIN runs' = 1..(Len(runs) + 1)
      /\ \A i \in 1..Len(runs) : runs'[i] = runs[i]
      /\ runs'[Len(runs) + 1] = NewRun(why)
  BY <1>1, <1>3, Appended
<1>5. NewRun(why).plane = plane /\ NewRun(why).phase = "posted" /\ NewRun(why).why = why
  BY DEF NewRun
<1>6. pc' = "correlate" /\ UNCHANGED <<stage, comment, current, used, way, checkout, plane>>
  BY <1>2 DEF Dispatch, github
<1> QED
  BY <1>4, <1>5, <1>6 DEF why

\* The last run becomes visible, or ends.
LEMMA LastRunGoesOn ==
  ASSUME IInv, stage # "hygiene", RunListed \/ RunEnds
  PROVE  /\ Len(runs') = Len(runs) /\ DOMAIN runs' = DOMAIN runs /\ Len(runs) > 0
         /\ \A i \in 1..Len(runs) : runs'[i].why = runs[i].why /\ runs'[i].plane = runs[i].plane
         /\ runs[Len(runs)].phase # "done"
         /\ UNCHANGED <<stage, comment, session, plane>>
<1>a. /\ TypeOK /\ RunsInOrder /\ Len(runs) \in Nat /\ DOMAIN runs = 1..Len(runs)
      /\ \A i \in 1..Len(runs) : runs[i] \in Run
  BY StageFacts
<1>1. PICK i \in 1..Len(runs), r \in Run :
        /\ runs' = [runs EXCEPT ![i] = r]
        /\ runs[i].phase # "done"
        /\ r.why = runs[i].why /\ r.plane = runs[i].plane
  <2>1. CASE RunListed
    <3>1. PICK i \in 1..Len(runs) :
            /\ runs[i].phase = "posted"
            /\ [runs[i] EXCEPT !.phase = "listed"] \in Run
            /\ runs' = [runs EXCEPT ![i] = [runs[i] EXCEPT !.phase = "listed"]]
      BY <2>1, <1>a, RunChanges, StagesAssumption
    <3> DEFINE r == [runs[i] EXCEPT !.phase = "listed"]
    <3>2. r.why = runs[i].why /\ r.plane = runs[i].plane
      BY <1>a DEF Run
    <3> QED
      BY <3>1, <3>2
  <2>2. CASE RunEnds
    <3>1. PICK i \in 1..Len(runs), c \in Conclusions(stage), pushed \in BOOLEAN :
            LET run == [runs[i] EXCEPT !.phase = "done", !.conclusion = c, !.pushed = pushed] IN
            /\ runs[i].phase = "listed"
            /\ run \in Run
            /\ runs' = [runs EXCEPT ![i] = run]
            /\ headMoved' = (headMoved \/ pushed)
      BY Zenon, <2>2, <1>a, RunChanges, StagesAssumption
    <3> DEFINE r == [runs[i] EXCEPT !.phase = "done", !.conclusion = c, !.pushed = pushed]
    <3>2. r.why = runs[i].why /\ r.plane = runs[i].plane
      BY <1>a DEF Run
    <3> QED
      BY <3>1, <3>2
  <2> QED
    BY <2>1, <2>2
<1>2. /\ Len(runs') = Len(runs) /\ DOMAIN runs' = DOMAIN runs
      /\ \A j \in 1..Len(runs) : runs'[j] = IF j = i THEN r ELSE runs[j]
  BY <1>1, <1>a, Altered
<1>3. i = Len(runs)
  <2>1. ~Settled(runs[i])
    BY <1>1 DEF Settled
  <2>2. \A j \in 1..Len(runs) : j < Len(runs) => Settled(runs[j])
    BY <1>a DEF RunsInOrder
  <2>3. ~(i < Len(runs))
    BY <2>1, <2>2
  <2>4. Len(runs) \in Nat /\ i \in 1..Len(runs)
    BY <1>a
  <2> QED
    BY <2>3, <2>4
<1>4. UNCHANGED <<stage, comment, session, plane>>
  BY DEF RunListed, RunEnds, github
<1>5. Len(runs) > 0 /\ runs[Len(runs)].phase # "done"
  BY <1>1, <1>3, <1>a
<1>6. \A j \in 1..Len(runs) : runs'[j].why = runs[j].why /\ runs'[j].plane = runs[j].plane
  BY <1>1, <1>2
<1> QED
  BY <1>2, <1>4, <1>5, <1>6

--------------------------------------------------------------------------------
(* The account is kept.                                                    *)

LEMMA DispatchPaid ==
  ASSUME IInv, PaidInv, stage # "hygiene", PostDispatch \/ PostRearm
  PROVE  PaidInv'
<1>a. /\ RearmsPaid /\ FirstIsFirst /\ Len(runs) \in Nat /\ DOMAIN runs = 1..Len(runs)
      /\ plane \in Nat /\ LastPlane \in Nat /\ checkout \in Nat
  BY StageFacts DEF PaidInv
<1>b. /\ Len(runs') = Len(runs) + 1 /\ DOMAIN runs' = 1..(Len(runs) + 1)
      /\ \A i \in 1..Len(runs) : runs'[i] = runs[i]
      /\ runs'[Len(runs) + 1].plane = plane
      /\ runs'[Len(runs) + 1].why
           = IF PostRearm THEN "rearm" ELSE IF used > 0 THEN "retry" ELSE "first"
      /\ pc' = "correlate"
      /\ UNCHANGED <<stage, comment, current, used, way, checkout, plane>>
  BY Dispatched
<1>1. LastPlane' = plane /\ \A i \in DOMAIN runs' : runs'[i].plane <= plane
  BY <1>a, <1>b DEF LastPlane, RearmsPaid
<1>2. LastPlane <= plane
  BY <1>a DEF LastPlane, RearmsPaid
<1>3. IsFiniteSet(Rearms) /\ Cardinality(Rearms) \in Nat
  BY <1>a, RearmsFinite
<1>4. FirstIsFirst'
  BY <1>a, <1>b DEF FirstIsFirst
<1>5. CASE PostRearm
  <2>1. pc = "rearmed" /\ Cardinality(Rearms) < plane
    BY <1>5, <1>a DEF PostRearm, RearmsPaid
  <2>2. Rearms' = Rearms \cup {Len(runs) + 1} /\ Len(runs) + 1 \notin Rearms
    BY <1>5, <1>a, <1>b DEF Rearms
  <2>3. Cardinality(Rearms') = Cardinality(Rearms) + 1
    BY <2>2, <1>3, FS_AddElement
  <2>4. Cardinality(Rearms)' <= plane
    BY <2>1, <2>3, <1>3, <1>a
  <2>5. ~Unspent'
    BY <2>1, <1>a, <1>b DEF Unspent, RearmsPaid
  <2> QED
    BY <2>4, <2>5, <1>1, <1>4, <1>a, <1>b DEF PaidInv, RearmsPaid
<1>6. CASE PostDispatch /\ ~PostRearm
  <2>1. Rearms' = Rearms
    BY <1>6, <1>a, <1>b DEF Rearms
  <2>2. Cardinality(Rearms)' <= plane
    BY <2>1, <1>2, <1>3, <1>a DEF RearmsPaid
  <2>3. Unspent' => Unspent
    BY <1>6, <1>b DEF Unspent, PostDispatch
  <2> QED
    BY <2>1, <2>2, <2>3, <1>1, <1>4, <1>a, <1>b DEF PaidInv, RearmsPaid
<1> QED
  BY <1>5, <1>6

LEMMA RunPaid ==
  ASSUME IInv, PaidInv, stage # "hygiene", RunListed \/ RunEnds
  PROVE  PaidInv'
<1>a. /\ RearmsPaid /\ FirstIsFirst /\ Len(runs) \in Nat /\ DOMAIN runs = 1..Len(runs)
  BY StageFacts DEF PaidInv
<1>b. /\ Len(runs') = Len(runs) /\ DOMAIN runs' = DOMAIN runs /\ Len(runs) > 0
      /\ \A i \in 1..Len(runs) : runs'[i].why = runs[i].why /\ runs'[i].plane = runs[i].plane
      /\ UNCHANGED <<stage, comment, session, plane>>
  BY LastRunGoesOn
<1>1. Rearms' = Rearms /\ LastPlane' = LastPlane
  BY <1>a, <1>b DEF Rearms, LastPlane
<1>2. \A i \in DOMAIN runs' : runs'[i].plane <= plane
  BY <1>a, <1>b DEF RearmsPaid
<1>3. Unspent' = Unspent
  BY <1>b DEF Unspent, session
<1>4. RearmsPaid'
  BY <1>1, <1>2, <1>3, <1>a, <1>b DEF RearmsPaid, session
<1>5. FirstIsFirst'
  BY <1>a, <1>b DEF FirstIsFirst, session
<1> QED
  BY <1>4, <1>5 DEF PaidInv

\* A step that changes no run: what it must leave of the session.
LEMMA QuietPaid ==
  ASSUME IInv, RearmsPaid, stage # "hygiene", UNCHANGED <<stage, runs>>,
         plane' \in Nat, plane' >= plane, checkout' \in Nat, checkout' <= plane',
         stage = "audit" /\ pc' = "adopt" => LastPlane <= checkout',
         Unspent' => Cardinality(Rearms) <= checkout',
         pc' = "rearmed" => /\ Cardinality(Rearms) < plane'
                            /\ stage = "remediation" => comment'.next = RearmOf["remediation"]
  PROVE  RearmsPaid'
<1>a. /\ Len(runs) \in Nat /\ DOMAIN runs = 1..Len(runs) /\ plane \in Nat
      /\ \A i \in 1..Len(runs) : runs[i].plane \in Nat
  BY StageFacts
<1>1. Rearms' = Rearms /\ LastPlane' = LastPlane
  BY DEF Rearms, LastPlane
<1>2. \A i \in DOMAIN runs' : runs'[i].plane <= plane'
  BY <1>a DEF RearmsPaid
<1> QED
  BY <1>1, <1>2 DEF RearmsPaid

LEMMA OthersPaid ==
  ASSUME IInv, PaidInv, stage # "hygiene", [Next]_vars, UNCHANGED runs
  PROVE  PaidInv'
<1>a. /\ TypeOK /\ NonceFirst /\ RunsInOrder /\ LastRun /\ RetryStored
      /\ Len(runs) \in Nat /\ DOMAIN runs = 1..Len(runs)
      /\ comment \in Comment /\ comment.retries \in 0..1 /\ used \in 0..1
      /\ checkout \in Nat /\ plane \in Nat /\ LastPlane \in Nat
      /\ stage \in {"remediation", "audit"}
      /\ RearmsPaid /\ FirstIsFirst
  BY StageFacts DEF PaidInv
<1>c. /\ Cardinality(Rearms) \in Nat /\ Cardinality(Rearms) <= LastPlane /\ LastPlane <= plane
      /\ checkout <= plane
  BY <1>a, RearmsFinite DEF RearmsPaid, LastPlane
<1>s. stage' = stage
  BY DEF Next, SessionStep, vars, StoreNonce, PostDispatch, PostRearm, Dispatch, Observe, Retry,
     Accept, RearmWorker, FailStage, ReserveHygiene, Recover, DispatchAgain, AdoptResult,
     AdoptFailure, AdoptHygieneFailure, RearmAudit, RearmHygiene, Throw, ReserveContinuation,
     PostContinuation, NoContinuation, Kill, StartByPerson, StartScheduled, Enter, RunListed,
     RunEnds, Push, ReleaseControlPlane
<1>1. ASSUME RearmsPaid', FirstIsFirst'
      PROVE  PaidInv'
  BY <1>1 DEF PaidInv
<1>2. CASE StoreNonce
  <2>1. /\ pc = "dispatch" /\ pc' = "dispatched" /\ comment'.retries = used
        /\ UNCHANGED <<used, way, checkout, plane>>
    BY <1>2, <1>a DEF StoreNonce, Comment, github
  <2>2. Unspent' => Unspent
    BY <2>1, <1>s DEF Unspent
  <2>3. RearmsPaid'
    BY <2>1, <2>2, <1>a, <1>c, <1>s, QuietPaid DEF RearmsPaid
  <2>4. FirstIsFirst'
    BY <2>1, <1>a DEF FirstIsFirst
  <2> QED
    BY <2>3, <2>4, <1>1
<1>3. CASE Observe
  <2>1. /\ pc = "correlate" /\ comment'.retries = comment.retries
        /\ pc' = IF comment.next = RearmOf["remediation"] THEN "rewatch" ELSE "watch"
        /\ UNCHANGED <<used, way, checkout, plane>>
    BY <1>3, <1>a DEF Observe, Comment, github
  <2>2. Unspent' => Unspent
    BY <2>1, <1>s DEF Unspent
  <2>3. RearmsPaid'
    BY <2>1, <2>2, <1>a, <1>c, <1>s, QuietPaid DEF RearmsPaid
  <2>4. FirstIsFirst'
    BY <2>1, <1>a DEF FirstIsFirst
  <2> QED
    BY <2>3, <2>4, <1>1
<1>4. CASE Recover
  <2>1. /\ pc = "lookup" /\ comment'.retries = comment.retries
        /\ pc' = IF stage = "remediation" THEN "adopt" ELSE "watch"
        /\ UNCHANGED <<used, way, checkout, plane>>
    BY <1>4, <1>a DEF Recover, Comment, github
  <2>2. Unspent' => Unspent
    BY <2>1, <1>s DEF Unspent
  <2>3. RearmsPaid'
    BY <2>1, <2>2, <1>a, <1>c, <1>s, QuietPaid DEF RearmsPaid
  <2>4. FirstIsFirst'
    BY <2>1, <1>a DEF FirstIsFirst
  <2> QED
    BY <2>3, <2>4, <1>1
<1>5. CASE Retry
  <2>1. /\ pc = "watch" /\ pc' = "dispatch" /\ used' = used + 1
        /\ UNCHANGED <<comment, way, checkout, plane>>
    BY <1>5 DEF Retry, MayRetry, github
  <2>2. Unspent' => Unspent
    BY <2>1, <1>s DEF Unspent
  <2>3. RearmsPaid'
    BY <2>1, <2>2, <1>a, <1>c, <1>s, QuietPaid DEF RearmsPaid
  <2>4. Len(runs) > 0
    BY <2>1, <1>a DEF LastRun, NoRun
  <2>5. FirstIsFirst'
    BY <2>1, <2>4, <1>a DEF FirstIsFirst
  <2> QED
    BY <2>3, <2>5, <1>1
<1>6. CASE AdoptFailure
  <2>1. pc = "adopt" /\ pc' = "watch" /\ UNCHANGED <<comment, used, way, checkout, plane>>
    BY <1>6 DEF AdoptFailure, github
  <2>2. Unspent' => Unspent
    BY <2>1, <1>s DEF Unspent
  <2>3. RearmsPaid'
    BY <2>1, <2>2, <1>a, <1>c, <1>s, QuietPaid DEF RearmsPaid
  <2>4. FirstIsFirst'
    BY <2>1, <1>a DEF FirstIsFirst
  <2> QED
    BY <2>3, <2>4, <1>1
<1>7. CASE RearmWorker
  <2>1. /\ stage = "remediation" /\ way = "adopted" /\ pc = "watch" /\ OtherPlane
        /\ comment'.next = RearmOf["remediation"] /\ comment'.retries = comment.retries
        /\ pc' = "rearmed" /\ UNCHANGED <<used, way, checkout, plane>>
    BY <1>7, <1>a DEF RearmWorker, CanRearmWorker, Comment, github
  <2>2. current = Len(runs) /\ Len(runs) > 0
    BY <2>1, <1>a DEF LastRun, NoRun
  <2>3. LastPlane # checkout
    BY <2>1, <2>2 DEF OtherPlane, LastPlane
  <2>4. Cardinality(Rearms) <= checkout
    BY <2>1, <1>a DEF RearmsPaid, Unspent
  <2>5. Cardinality(Rearms) < plane
    BY <2>3, <2>4, <1>a, <1>c
  <2>6. ~Unspent'
    BY <2>1 DEF Unspent
  <2>7. RearmsPaid'
    BY <2>1, <2>5, <2>6, <1>a, <1>c, <1>s, QuietPaid
  <2>8. FirstIsFirst'
    BY <2>1, <2>2, <1>a DEF FirstIsFirst
  <2> QED
    BY <2>7, <2>8, <1>1
<1>8. CASE RearmAudit
  <2>1. /\ stage = "audit" /\ pc = "adopt" /\ OtherPlane
        /\ comment'.retries = comment.retries
        /\ pc' = "rearmed" /\ UNCHANGED <<used, way, checkout, plane>>
    BY <1>8, <1>a DEF RearmAudit, CanRearmAudit, Comment, github
  <2>2. current = Len(runs) /\ Len(runs) > 0
    BY <2>1, <1>a DEF LastRun, NoRun
  <2>3. LastPlane # checkout /\ LastPlane <= checkout
    BY <2>1, <2>2, <1>a DEF OtherPlane, LastPlane, RearmsPaid
  <2>4. Cardinality(Rearms) < plane
    BY <2>3, <1>a, <1>c
  <2>5. ~Unspent'
    BY <2>1 DEF Unspent
  <2>6. RearmsPaid'
    BY <2>1, <2>4, <2>5, <1>a, <1>c, <1>s, QuietPaid
  <2>7. FirstIsFirst'
    BY <2>1, <2>2, <1>a DEF FirstIsFirst
  <2> QED
    BY <2>6, <2>7, <1>1
<1>9. CASE StartByPerson \/ StartScheduled
  <2>1. Enter
    BY <1>9 DEF StartByPerson, StartScheduled
  <2>2. comment'.retries = comment.retries /\ plane' = plane
    BY <2>1, <1>a DEF Enter, Comment
  <2>3. CASE headMoved
    <3>1. pc' = "over" /\ used' = 0 /\ checkout' = 0
      BY <2>1, <2>3 DEF Enter, Leave
    <3>2. ~Unspent'
      BY <3>1 DEF Unspent
    <3>3. RearmsPaid'
      BY <2>2, <3>1, <3>2, <1>a, <1>c, <1>s, QuietPaid
    <3>4. FirstIsFirst'
      BY <2>2, <3>1, <1>a DEF FirstIsFirst
    <3> QED
      BY <3>3, <3>4, <1>1
  <2>4. CASE ~headMoved
    <3>1. /\ used' = comment.retries /\ checkout' = plane
          /\ pc' = CASE comment.run # NoRun -> "adopt"
                     [] comment.run = NoRun /\ comment.nonce # NoNonce -> "lookup"
                     [] OTHER -> "dispatch"
      BY <2>1, <2>4, <1>a DEF Enter, StoredRetries, RetryStored
    <3>2. pc' = "dispatch" => Len(runs) = 0
      <4>1. pc' = "dispatch" => comment.nonce = NoNonce
        BY <3>1
      <4>2. \A i \in 1..Len(runs) : runs[i] \in Run
        BY StageFacts
      <4>3. comment.nonce = NoNonce => DOMAIN runs = {}
        BY <4>2, <1>a DEF RunsInOrder, Run, NoNonce
      <4> QED
        BY <4>1, <4>3, <1>a
    <3>3. pc' \in {"adopt", "lookup", "dispatch"}
      BY <3>1
    <3>4. Cardinality(Rearms) <= plane /\ LastPlane <= checkout' /\ checkout' <= plane'
      BY <2>2, <3>1, <1>a, <1>c
    <3>6. pc' # "rearmed"
      BY <3>3
    <3>7. RearmsPaid'
      BY <2>2, <3>1, <3>4, <3>6, <1>a, <1>s, QuietPaid
    <3>5. FirstIsFirst'
      BY <2>2, <3>1, <3>2, <3>3, <1>a DEF FirstIsFirst
    <3> QED
      BY <3>5, <3>7, <1>1
  <2> QED
    BY <2>3, <2>4
<1>10. ASSUME comment'.retries = comment.retries, plane' = plane, used' = 0, checkout' = 0,
              pc' \in Resting
       PROVE  PaidInv'
  <2>1. ~Unspent'
    BY <1>10 DEF Unspent, Resting
  <2>2. RearmsPaid'
    BY <1>10, <2>1, <1>a, <1>c, <1>s, QuietPaid DEF Resting
  <2>3. FirstIsFirst'
    BY <1>10, <1>a DEF FirstIsFirst, Resting
  <2> QED
    BY <2>2, <2>3, <1>1
<1>11. CASE Accept \/ AdoptResult \/ Throw \/ Kill \/ NoContinuation \/ PostContinuation
              \/ FailStage
  <2>1. comment'.retries = comment.retries /\ plane' = plane
    BY <1>11, <1>a DEF Accept, AdoptResult, Throw, Kill, NoContinuation, PostContinuation,
       FailStage, Comment, github
  <2>2. used' = 0 /\ checkout' = 0 /\ pc' \in Resting
    BY <1>11 DEF Accept, AdoptResult, Throw, Kill, NoContinuation, PostContinuation,
       FailStage, Leave, Resting
  <2> QED
    BY <2>1, <2>2, <1>10
<1>12. CASE ReserveContinuation
  <2>1. /\ comment'.retries = comment.retries /\ pc' = "scheduling"
        /\ UNCHANGED <<used, way, checkout, plane>>
    BY <1>12, <1>a DEF ReserveContinuation, Comment, github
  <2>2. ~Unspent'
    BY <2>1 DEF Unspent
  <2>3. RearmsPaid'
    BY <2>1, <2>2, <1>a, <1>c, <1>s, QuietPaid
  <2>4. FirstIsFirst'
    BY <2>1, <1>a DEF FirstIsFirst
  <2> QED
    BY <2>3, <2>4, <1>1
<1>13. CASE UNCHANGED <<comment, session>> /\ (plane' = plane \/ plane' = plane + 1)
  <2>1. UNCHANGED <<comment, pc, used, way, checkout>> /\ plane' \in Nat /\ plane' >= plane
    BY <1>13, <1>a DEF session
  <2>2. Unspent' = Unspent
    BY <2>1, <1>s DEF Unspent
  <2>3. RearmsPaid'
    BY <2>1, <2>2, <1>a, <1>c, <1>s, QuietPaid DEF RearmsPaid
  <2>4. FirstIsFirst'
    BY <2>1, <1>a DEF FirstIsFirst
  <2> QED
    BY <2>3, <2>4, <1>1
<1>14. CASE ReserveHygiene \/ DispatchAgain \/ AdoptHygieneFailure \/ RearmHygiene
  BY <1>14, <1>a DEF ReserveHygiene, DispatchAgain, DispatchesAgain, AdoptHygieneFailure,
     RearmHygiene, LastRun
<1>15. CASE PostDispatch \/ PostRearm
  BY <1>15, DispatchPaid
<1>16. CASE RunListed \/ RunEnds
  BY <1>16, RunPaid
<1>17. CASE Push \/ ReleaseControlPlane \/ UNCHANGED vars
  BY <1>13, <1>17 DEF Push, ReleaseControlPlane, vars, session
<1> QED
  BY <1>2, <1>3, <1>4, <1>5, <1>6, <1>7, <1>8, <1>9, <1>11, <1>12, <1>14, <1>15, <1>16, <1>17
     DEF Next, SessionStep

LEMMA StepPaid == IInv /\ PaidInv /\ [Next]_vars => PaidInv'
<1> SUFFICES ASSUME IInv, PaidInv, [Next]_vars PROVE PaidInv'
  OBVIOUS
<1>1. stage' = stage
  BY DEF Next, SessionStep, vars, StoreNonce, PostDispatch, PostRearm, Dispatch, Observe, Retry,
     Accept, RearmWorker, FailStage, ReserveHygiene, Recover, DispatchAgain, AdoptResult,
     AdoptFailure, AdoptHygieneFailure, RearmAudit, RearmHygiene, Throw, ReserveContinuation,
     PostContinuation, NoContinuation, Kill, StartByPerson, StartScheduled, Enter, RunListed,
     RunEnds, Push, ReleaseControlPlane
<1>2. CASE stage # "hygiene"
  <2>1. CASE PostDispatch \/ PostRearm
    BY <1>2, <2>1, DispatchPaid
  <2>2. CASE RunListed \/ RunEnds
    BY <1>2, <2>2, RunPaid
  <2>3. CASE UNCHANGED runs
    BY <1>2, <2>3, OthersPaid
  <2> QED
    BY <2>1, <2>2, <2>3
       DEF Next, SessionStep, vars, StoreNonce, Observe, Retry, Accept, RearmWorker, FailStage,
           ReserveHygiene, Recover, DispatchAgain, AdoptResult, AdoptFailure,
           AdoptHygieneFailure, RearmAudit, RearmHygiene, Throw, ReserveContinuation,
           PostContinuation, NoContinuation, Kill, StartByPerson, StartScheduled, Enter, Push,
           ReleaseControlPlane
<1>3. CASE stage = "hygiene"
  BY <1>1, <1>3 DEF PaidInv
<1> QED
  BY <1>2, <1>3

LEMMA InitPaid == Init => PaidInv
<1> SUFFICES ASSUME Init, stage # "hygiene" PROVE RearmsPaid /\ FirstIsFirst
  BY DEF PaidInv
<1>1. /\ DOMAIN runs = {} /\ Len(runs) = 0 /\ pc = "dispatch" /\ used = 0 /\ way = "initial"
      /\ comment.retries = 0 /\ plane = 0 /\ checkout = 0
  BY EmptySeq DEF Init, Begin
<1>2. Cardinality(Rearms) = 0
  BY <1>1, FS_EmptySet DEF Rearms
<1> QED
  BY <1>1, <1>2 DEF RearmsPaid, FirstIsFirst, LastPlane, Unspent

--------------------------------------------------------------------------------
(* Every step is one of the promise.                                       *)

Outcomes == {"failed", "result"}

LEMMA PromiseOfQuiet ==
  ASSUME UNCHANGED <<runs, plane>>
  PROVE  UNCHANGED Promise!vars
<1>1. LastOutcome' = LastOutcome /\ Retries' = Retries /\ Rearms' = Rearms
  BY DEF LastOutcome, Retries, Rearms
<1> QED
  BY <1>1 DEF Promise!vars

LEMMA PromiseOfRelease ==
  ASSUME UNCHANGED runs, plane' = plane + 1
  PROVE  Promise!Release
<1>1. LastOutcome' = LastOutcome /\ Retries' = Retries /\ Rearms' = Rearms
  BY DEF LastOutcome, Retries, Rearms
<1> QED
  BY <1>1 DEF Promise!Release

LEMMA PromiseOfDispatch ==
  ASSUME IInv, PaidInv, stage # "hygiene", PostDispatch \/ PostRearm
  PROVE  Promise!Next
<1>a. /\ LastRun /\ RetryStored /\ RearmsPaid /\ FirstIsFirst
      /\ Len(runs) \in Nat /\ DOMAIN runs = 1..Len(runs) /\ used \in 0..1
  BY StageFacts DEF PaidInv
<1>b. /\ Len(runs') = Len(runs) + 1 /\ DOMAIN runs' = 1..(Len(runs) + 1)
      /\ \A i \in 1..Len(runs) : runs'[i] = runs[i]
      /\ runs'[Len(runs) + 1].phase = "posted"
      /\ runs'[Len(runs) + 1].why
           = IF PostRearm THEN "rearm" ELSE IF used > 0 THEN "retry" ELSE "first"
      /\ plane' = plane
  BY Dispatched
<1>1. LastOutcome' = "running"
  BY <1>a, <1>b DEF LastOutcome
<1>2. ASSUME Len(runs) > 0
      PROVE  LastOutcome = "failed"
  <2>1. Settled(runs[Len(runs)])
    BY <1>2, <1>a DEF LastRun, PostDispatch, PostRearm
  <2> QED
    BY <1>2, <2>1 DEF LastOutcome, Settled, HasResult
<1>3. IsFiniteSet(Rearms) /\ Cardinality(Rearms) \in Nat
  BY <1>a, RearmsFinite
<1>4. CASE PostRearm
  <2>1. pc = "rearmed"
    BY <1>4 DEF PostRearm
  <2>2. LastOutcome = "failed" /\ Cardinality(Rearms) < plane
    BY <2>1, <1>2, <1>a DEF FirstIsFirst, RearmsPaid
  <2>3. Rearms' = Rearms \cup {Len(runs) + 1} /\ Len(runs) + 1 \notin Rearms
    BY <1>4, <1>a, <1>b DEF Rearms
  <2>4. Cardinality(Rearms)' = Cardinality(Rearms) + 1
    BY <2>3, <1>3, FS_AddElement
  <2>5. Retries' = Retries
    BY <1>4, <1>a, <1>b DEF Retries
  <2>6. Promise!Rearm
    BY <2>2, <2>4, <2>5, <1>1, <1>b DEF Promise!Rearm
  <2> QED
    BY <2>6 DEF Promise!Next
<1>5. CASE PostDispatch /\ ~PostRearm /\ used > 0
  <2>1. pc = "dispatched"
    BY <1>5 DEF PostDispatch
  <2>2. LastOutcome = "failed" /\ Retries = {}
    BY <2>1, <1>2, <1>5, <1>a DEF FirstIsFirst, RetryStored
  <2>3. Len(runs) + 1 \in Retries'
    BY <1>5, <1>a, <1>b DEF Retries
  <2>4. Rearms' = Rearms
    BY <1>5, <1>a, <1>b DEF Rearms
  <2>5. Promise!Retry
    BY <2>2, <2>3, <2>4, <1>1, <1>b DEF Promise!Retry
  <2> QED
    BY <2>5 DEF Promise!Next
<1>6. CASE PostDispatch /\ ~PostRearm /\ used = 0
  <2>1. Len(runs) = 0
    BY <1>6, <1>a DEF PostDispatch, FirstIsFirst
  <2>2. LastOutcome = "none"
    BY <2>1 DEF LastOutcome
  <2>3. Rearms' = Rearms /\ Retries' = Retries
    BY <1>6, <1>a, <1>b DEF Rearms, Retries
  <2>4. Promise!First
    BY <2>2, <2>3, <1>1, <1>b DEF Promise!First
  <2> QED
    BY <2>4 DEF Promise!Next
<1> QED
  BY <1>4, <1>5, <1>6, <1>a

LEMMA PromiseOfRun ==
  ASSUME IInv, stage # "hygiene", RunListed \/ RunEnds
  PROVE  Promise!Next \/ UNCHANGED Promise!vars
<1>a. Len(runs) \in Nat /\ DOMAIN runs = 1..Len(runs)
  BY StageFacts
<1>b. /\ Len(runs') = Len(runs) /\ DOMAIN runs' = DOMAIN runs /\ Len(runs) > 0
      /\ \A i \in 1..Len(runs) : runs'[i].why = runs[i].why
      /\ runs[Len(runs)].phase # "done"
      /\ plane' = plane
  BY LastRunGoesOn
<1>1. LastOutcome = "running" /\ LastOutcome' \in {"running"} \cup Outcomes
  BY <1>b DEF LastOutcome, Outcomes
<1>2. Rearms' = Rearms /\ Retries' = Retries
  BY <1>a, <1>b DEF Rearms, Retries
<1>3. CASE LastOutcome' = "running"
  BY <1>1, <1>2, <1>3, <1>b DEF Promise!vars
<1>4. CASE LastOutcome' \in Outcomes
  <2>1. Promise!End
    BY <1>1, <1>2, <1>4, <1>b DEF Promise!End, Outcomes
  <2> QED
    BY <2>1 DEF Promise!Next
<1> QED
  BY <1>1, <1>3, <1>4

LEMMA PromiseOfStep ==
  ASSUME IInv, PaidInv, stage # "hygiene", [Next]_vars
  PROVE  Promise!Next \/ UNCHANGED Promise!vars
<1>1. CASE PostDispatch \/ PostRearm
  BY <1>1, PromiseOfDispatch
<1>2. CASE RunListed \/ RunEnds
  BY <1>2, PromiseOfRun
<1>3. CASE ReleaseControlPlane
  <2>1. Promise!Release
    BY <1>3, PromiseOfRelease DEF ReleaseControlPlane
  <2> QED
    BY <2>1 DEF Promise!Next
<1>4. CASE UNCHANGED <<runs, plane>>
  BY <1>4, PromiseOfQuiet
<1> QED
  BY <1>1, <1>2, <1>3, <1>4
     DEF Next, SessionStep, vars, StoreNonce, Observe, Retry, Accept, RearmWorker, FailStage,
         ReserveHygiene, Recover, DispatchAgain, AdoptResult, AdoptFailure,
         AdoptHygieneFailure, RearmAudit, RearmHygiene, Throw, ReserveContinuation,
         PostContinuation, NoContinuation, Kill, StartByPerson, StartScheduled, Enter, Push,
         github

LEMMA PromiseOfInit == Begin(pc) => Promise!Init
<1> SUFFICES ASSUME Begin(pc) PROVE Promise!Init
  OBVIOUS
<1>1. DOMAIN runs = {} /\ Len(runs) = 0 /\ plane = 0
  BY EmptySeq DEF Begin
<1>2. Retries = {} /\ Cardinality(Rearms) = 0 /\ LastOutcome = "none"
  BY <1>1, FS_EmptySet DEF Retries, Rearms, LastOutcome
<1> QED
  BY <1>1, <1>2 DEF Promise!Init

\* The account holds in every state of a stage, whatever the order of its sessions.
THEOREM PaidInvariance == Spec => []PaidInv
BY InitPaid, StepPaid, Invariance, PTL DEF Spec

\* A remediation or an audit implements StagePromise: whatever kills its sessions and whoever
\* starts them, a run follows a failed one only as the single retry, or on account of a control
\* plane that no other run used up (shouldRearmFailedRemediationWorker, shouldRearmFailedAuditWorkflow).
THEOREM StageImplements == Spec => StagePromiseKept
<1>1. Init => (stage # "hygiene" => Promise!Init)
  BY PromiseOfInit DEF Init, Begin
<1>2. IInv /\ PaidInv /\ [Next]_vars => [stage # "hygiene" => Promise!Next]_(Promise!vars)
  BY PromiseOfStep
<1> QED
  BY <1>1, <1>2, Invariance, PaidInvariance, PTL DEF Spec, StagePromiseKept
================================================================================
