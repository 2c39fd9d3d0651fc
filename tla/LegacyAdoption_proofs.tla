-------------------------- MODULE LegacyAdoption_proofs --------------------------
(***************************************************************************)
(* Proofs about the adoption of a pull request: the audit of an adopted    *)
(* pull request keeps what StageRecovery_proofs shows of a stage, and the  *)
(* checkpoint and the state comment agree on its verdict, over any number  *)
(* of sessions, runs, moves of the head and releases of the control plane. *)
(***************************************************************************)
EXTENDS LegacyAdoption, StageRecovery_proofs

--------------------------------------------------------------------------------
(* The inductive invariant.                                                *)

Early == {"idle", "reading", "frozen", "reserved"}

\* Before the state comment nothing is dispatched, bound or decided, and no session is
\* in the stage.
EarlyInv ==
  /\ place # "operating" =>
       bound = "no" /\ ~checkpoint.decided /\ result = NoRun /\ checkpoint.run = NoRun
  /\ place \in Early =>
       pc = "none" /\ Len(runs) = 0 /\ comment.nonce = NoNonce /\ comment.retries = 0
         /\ comment.run = NoRun /\ used = 0 /\ ~counted
  /\ place = "reserved" => checkpoint.nonce # NoNonce
  /\ place # "none" => stage = "audit"

\* The first dispatch is made by the session that charged the audit, and a retry, whose
\* nonce is new, follows it.
FirstDispatch ==
  place = "operating" =>
    /\ comment.nonce # NoNonce /\ way # "initial"
    /\ Len(runs) = 0 =>
         used = 0 /\ comment.retries = 0 /\ pc \notin {"dispatch", "rearmed"}
    /\ ~counted => Len(runs) = 0 /\ pc \in Resting \cup {"lookup"}
    /\ pc = "lookup" /\ way = "fresh" => Len(runs) = 0

\* The run the comment names carries the nonce of the comment, and is the one waited for.
NamedRun ==
  place = "operating" =>
    /\ comment.run # NoRun => runs[comment.run].nonce = comment.nonce
    /\ pc \in {"watch", "rewatch", "adopt"} => comment.run = current

Verdicts == {"success", "timed-out-verdict", "failure-verdict"}

\* A verdict in the checkpoint is that of the run the comment names, which nobody replaces.
DecidedInv ==
  checkpoint.decided =>
    /\ checkpoint.run = Len(runs) /\ checkpoint.run # NoRun
    /\ comment.run = checkpoint.run /\ comment.nonce = checkpoint.nonce
    /\ runs[Len(runs)].phase = "done" /\ runs[Len(runs)].conclusion \in Verdicts
    /\ pc \in Resting \cup {"adopt", "watch"}
    /\ pc = "watch" => ~MayRetry

\* What the session has done to the checkpoint for the run that it waited for.
BoundInv ==
  /\ bound # "no" =>
       AuditEnded /\ checkpoint.run = current /\ checkpoint.nonce = comment.nonce
  /\ bound = "recorded" => checkpoint.decided
  /\ result # NoRun => checkpoint.decided /\ checkpoint.run = result

AdoptionInv ==
  /\ IInv /\ AdoptionTypeOK
  /\ EarlyInv /\ FirstDispatch /\ NamedRun /\ DecidedInv /\ BoundInv

--------------------------------------------------------------------------------
(* The kinds of step.                                                      *)

\* The steps of the stage that leave the adoption alone.
StageStep ==
  /\ \/ StoreNonce \/ PostDispatch \/ PostRearm \/ Observe \/ Retry \/ AdoptFailure
     \/ ReserveContinuation \/ PostContinuation \/ NoContinuation
     \/ StartByPerson \/ StartScheduled \/ RunListed \/ RunEnds \/ Push \/ ReleaseControlPlane
     \/ counted /\ Recover
  /\ UNCHANGED adoption

Operating ==
  \/ StageStep \/ StartAudit \/ DispatchReserved
  \/ BindRun \/ RecordResult \/ TakeResult \/ FailAudit \/ ReplaceAudit
  \/ EndSession(Throw) \/ EndSession(Kill)

EarlyStep ==
  \/ BeginAdoption \/ Refreeze \/ ReserveAudit \/ Abandon \/ MoveHead
  \/ ReleaseControlPlane /\ UNCHANGED adoption

LEMMA Kinds ==
  ASSUME AdoptionTypeOK, AdoptionNext
  PROVE  \/ place = "none" /\ Next /\ UNCHANGED adoption
         \/ place \in Early /\ EarlyStep
         \/ StoreState
         \/ place = "operating" /\ Operating
<1>1. place \in Places
  BY DEF AdoptionTypeOK
<1>2. CASE place = "none" /\ Next /\ UNCHANGED adoption
  BY <1>2
<1>3. CASE BeginAdoption \/ Refreeze \/ ReserveAudit \/ Abandon \/ MoveHead
  BY <1>3 DEF EarlyStep, Early, BeginAdoption, Refreeze, ReserveAudit, Abandon, MoveHead
<1>4. CASE StoreState
  BY <1>4
<1>5. CASE AuditSession
  BY <1>5 DEF AuditSession, Operating, StageStep
<1>6. CASE EndSession(Kill)
  BY <1>6 DEF EndSession, Operating
<1>7. CASE Surroundings
  BY <1>1, <1>7 DEF Surroundings, Places, Early, EarlyStep, Operating, StageStep
<1> QED
  BY <1>2, <1>3, <1>4, <1>5, <1>6, <1>7 DEF AdoptionNext

LEMMA AsStage ==
  ASSUME Operating
  PROVE  Next \/ UNCHANGED vars \/ StartAudit \/ DispatchReserved
<1>1. CASE StageStep
  BY <1>1 DEF StageStep, Next, SessionStep
<1>2. CASE BindRun \/ RecordResult
  BY <1>2 DEF BindRun, RecordResult
<1>3. CASE TakeResult \/ FailAudit \/ ReplaceAudit
  BY <1>3 DEF TakeResult, FailAudit, ReplaceAudit, Next, SessionStep
<1>4. CASE EndSession(Throw) \/ EndSession(Kill)
  BY <1>4 DEF EndSession, Next, SessionStep
<1> QED
  BY <1>1, <1>2, <1>3, <1>4 DEF Operating

--------------------------------------------------------------------------------
(* An adopted audit is a stage.                                            *)

LEMMA StageKept ==
  ASSUME AdoptionInv, AdoptionNext
  PROVE  IInv'
<1>a. /\ IInv /\ TypeOK /\ NonceFirst /\ Len(runs) \in Nat /\ DOMAIN runs = 1..Len(runs)
      /\ comment \in Comment /\ comment.nonce \in Nat
  BY RunsAre DEF AdoptionInv, IInv, TypeOK, Comment
<1>1. CASE Next \/ UNCHANGED vars
  BY <1>1, <1>a, Step
<1>2. CASE BeginAdoption
  <2>1. starts' \in 0..MaxStarts /\ checkout' \in 0..MaxControlPlane
    BY <1>2, <1>a, BoundsAssumption DEF BeginAdoption, TypeOK
  <2>2. UNCHANGED <<stage, runs, comment, pc, current, used, way, plane, headMoved, scheduled>>
    BY <1>2 DEF BeginAdoption
  <2>3. TypeOK' /\ NonceFirst'
    BY <2>1, <2>2, <1>a DEF TypeOK, NonceFirst
  <2> QED
    BY <2>2, <2>3, <1>a
       DEF IInv, RunsInOrder, LastRun, RetryStored, Retries, Resting, Conclusions, Settled, HasResult
<1>3. CASE StoreState
  <2>1. /\ stage = "audit" /\ Len(runs) = 0 /\ comment.retries = 0 /\ comment.run = NoRun
        /\ used = 0 /\ checkpoint.nonce # NoNonce /\ checkpoint.nonce \in Nat
    BY <1>3 DEF StoreState, AdoptionInv, EarlyInv, Early, AdoptionTypeOK
  <2>2. /\ UNCHANGED <<stage, runs, current, used, checkout, plane, starts, scheduled>>
        /\ pc' = "lookup" /\ way' = "adopted" /\ headMoved' \in BOOLEAN
    BY <1>3 DEF StoreState
  <2>3. /\ comment' \in Comment /\ comment'.nonce = checkpoint.nonce /\ comment'.run = NoRun
        /\ comment'.retries = 0
    BY <1>3, <2>1, <1>a DEF StoreState, Comment
  <2>4. TypeOK'
    BY <2>2, <2>3, <1>a DEF TypeOK, PCs, Ways
  <2>5. NonceFirst'
    BY <2>1, <2>2, <2>3, <1>a DEF NonceFirst, NoNonce, NoRun
  <2>6. DOMAIN runs' = {} /\ Retries' = {}
    BY <2>1, <2>2, <1>a DEF Retries
  <2>7. RunsInOrder' /\ LastRun' /\ RetryStored'
    BY <2>1, <2>2, <2>3, <2>6 DEF RunsInOrder, LastRun, RetryStored, Resting
  <2> QED
    BY <2>4, <2>5, <2>7 DEF IInv
<1>4. CASE place = "operating" /\ StartAudit
  <2>1. /\ stage = "audit" /\ Len(runs) = 0 /\ pc = "lookup" /\ used = 0 /\ comment.retries = 0
        /\ RunsInOrder /\ LastRun /\ RetryStored
    BY <1>4, <1>a DEF StartAudit, AdoptionInv, EarlyInv, FirstDispatch, IInv
  <2>2. /\ UNCHANGED <<stage, runs, pc, current, used, checkout, plane, headMoved, starts, scheduled>>
        /\ way' = "fresh"
    BY <1>4 DEF StartAudit, github
  <2>3. DispatchOf["audit"] \in Actions
    BY Words DEF AllStages
  <2>4. /\ comment' \in Comment /\ comment'.nonce = comment.nonce /\ comment'.run = comment.run
        /\ comment'.retries = comment.retries
    BY <1>4, <2>3, <1>a DEF StartAudit, Comment
  <2>5. TypeOK' /\ NonceFirst'
    BY <2>2, <2>4, <1>a DEF TypeOK, Ways, NonceFirst
  <2>6. DOMAIN runs' = {} /\ Retries' = {}
    BY <2>1, <2>2, <1>a DEF Retries
  <2>7. RunsInOrder' /\ LastRun' /\ RetryStored'
    BY <2>1, <2>2, <2>4, <2>6 DEF RunsInOrder, LastRun, RetryStored, Resting
  <2> QED
    BY <2>5, <2>7 DEF IInv
<1>5. CASE place = "operating" /\ DispatchReserved
  <2>1. /\ stage = "audit" /\ Len(runs) = 0 /\ pc = "lookup" /\ used = 0 /\ comment.retries = 0
        /\ RunsInOrder /\ LastRun /\ RetryStored /\ comment.nonce # NoNonce
    BY <1>5, <1>a DEF DispatchReserved, ChargedHere, AdoptionInv, EarlyInv, FirstDispatch, IInv
  <2>2. /\ UNCHANGED <<stage, runs, comment, current, used, way, checkout, plane, headMoved, starts, scheduled>>
        /\ pc' = "dispatched"
    BY <1>5 DEF DispatchReserved, github
  <2>3. comment.run = NoRun
    BY <2>1, <1>a DEF NonceFirst, NoRun, Comment
  <2>4. TypeOK' /\ NonceFirst'
    BY <2>1, <2>2, <1>a DEF TypeOK, PCs, NonceFirst
  <2>5. DOMAIN runs' = {} /\ Retries' = {} /\ Retries = {}
    BY <2>1, <2>2, <1>a DEF Retries
  <2>6. RunsInOrder' /\ LastRun' /\ RetryStored'
    BY <2>1, <2>2, <2>3, <2>5 DEF RunsInOrder, LastRun, RetryStored, Resting
  <2> QED
    BY <2>4, <2>6 DEF IInv
<1>6. CASE place \in Early /\ EarlyStep
  <2>1. CASE BeginAdoption
    BY <1>2, <2>1
  <2>2. CASE Refreeze \/ ReserveAudit \/ Abandon \/ MoveHead
    BY <2>2, <1>1 DEF Refreeze, ReserveAudit, Abandon, MoveHead
  <2>3. CASE ReleaseControlPlane
    BY <2>3, <1>1 DEF Next
  <2> QED
    BY <1>6, <2>1, <2>2, <2>3 DEF EarlyStep
<1> QED
  BY <1>1, <1>3, <1>4, <1>5, <1>6, Kinds, AsStage DEF AdoptionInv

--------------------------------------------------------------------------------
(* What a step does to the session, and to the run and the nonce in the comment. *)

CommentKept ==
  comment'.run = comment.run /\ comment'.nonce = comment.nonce
    /\ comment'.retries = comment.retries

Rests == UNCHANGED <<pc, current, used, way>> /\ CommentKept /\ Len(runs') = Len(runs)

Leaves ==
  /\ pc' \in Resting /\ current' = NoRun /\ used' = 0 /\ way' = "fresh" /\ UNCHANGED runs
  /\ comment'.nonce = comment.nonce /\ comment'.retries = comment.retries
  /\ comment'.run = comment.run \/ (pc \in {"watch", "rewatch"} /\ comment'.run = current)

Schedules == pc' = "scheduling" /\ UNCHANGED <<current, used, way, runs>> /\ CommentKept

Enters ==
  /\ pc = "none" /\ pc' = IF comment.run # NoRun THEN "adopt" ELSE "lookup"
  /\ current' = comment.run /\ used' = comment.retries /\ way' = "adopted"
  /\ UNCHANGED runs /\ CommentKept

Prepares ==
  /\ pc = "dispatch" /\ pc' = "dispatched"
  /\ UNCHANGED <<current, used, way, runs>>
  /\ comment'.run = NoRun /\ comment'.nonce = comment.nonce + 1

Posts ==
  /\ pc \in {"dispatched", "rearmed"} /\ pc' = "correlate"
  /\ UNCHANGED <<current, used, way>> /\ CommentKept /\ Len(runs') = Len(runs) + 1

Finds ==
  /\ pc = "correlate" \/ (pc = "lookup" /\ counted)
  /\ pc' \in {"watch", "rewatch"} /\ UNCHANGED <<used, way, runs>>
  /\ current' \in 1..Len(runs) /\ comment'.run = current'
  /\ comment'.nonce = comment.nonce /\ comment'.retries = comment.retries
  /\ runs[current'].nonce = comment.nonce

RunsAgain ==
  /\ Done /\ MayRetry /\ pc' = "dispatch"
  /\ UNCHANGED <<current, way, runs>> /\ CommentKept

Watches ==
  /\ pc = "adopt" /\ Done /\ ~Usable(Conclusion) /\ pc' = "watch"
  /\ UNCHANGED <<current, used, way, runs>> /\ CommentKept

Replaces ==
  /\ pc = "adopt" /\ Done /\ CanRearmAudit /\ pc' = "rearmed"
  /\ UNCHANGED <<current, used, way, runs>>
  /\ comment'.run = NoRun /\ comment'.nonce = comment.nonce + 1
  /\ comment'.retries = comment.retries

Charges ==
  /\ pc = "lookup" /\ ~counted /\ way' = "fresh"
  /\ UNCHANGED <<pc, current, used, runs>> /\ CommentKept

PostsFirst ==
  /\ pc = "lookup" /\ counted /\ way = "fresh" /\ pc' = "dispatched"
  /\ UNCHANGED <<current, used, way, runs>> /\ CommentKept

Effect ==
  \/ Rests \/ Leaves \/ Schedules \/ Enters \/ Prepares \/ Posts \/ Finds \/ RunsAgain
  \/ Watches \/ Replaces \/ Charges \/ PostsFirst

LEMMA Facts ==
  ASSUME AdoptionInv
  PROVE  /\ TypeOK /\ NonceFirst /\ Len(runs) \in Nat /\ DOMAIN runs = 1..Len(runs)
         /\ comment \in Comment /\ comment.nonce \in Nat /\ comment.run \in 0..Len(runs)
         /\ current \in 0..Len(runs)
         /\ place = "operating" =>
              stage = "audit" /\ RunsInOrder /\ LastRun /\ RetryStored /\ comment.nonce # NoNonce
<1>1. TypeOK /\ NonceFirst /\ comment \in Comment /\ current \in 0..Len(runs)
  BY DEF AdoptionInv, IInv, TypeOK
<1>2. Len(runs) \in Nat /\ DOMAIN runs = 1..Len(runs)
  BY <1>1, RunsAre
<1>3. comment.nonce \in Nat /\ comment.run \in 0..Len(runs)
  BY <1>1, CommentFields
<1>4. ASSUME place = "operating"
      PROVE  stage = "audit" /\ RunsInOrder /\ LastRun /\ RetryStored /\ comment.nonce # NoNonce
  BY <1>4 DEF AdoptionInv, IInv, EarlyInv, FirstDispatch
<1> QED
  BY <1>1, <1>2, <1>3, <1>4

\* A step changes no run that has ended, and no nonce.
LEMMA RunsKept ==
  ASSUME TypeOK, NonceFirst, Next \/ UNCHANGED runs
  PROVE  \A i \in 1..Len(runs) :
           runs'[i].nonce = runs[i].nonce /\ (runs[i].phase = "done" => runs'[i] = runs[i])
<1>1. CASE UNCHANGED runs
  BY <1>1
<1>2. ASSUME NEW why \in {"first", "retry", "rearm"}, pc \in {"dispatched", "rearmed"},
             Dispatch(why)
      PROVE  \A i \in 1..Len(runs) : runs'[i] = runs[i]
  <2>1. NewRun(why) \in Run /\ runs' = Append(runs, NewRun(why))
    BY <1>2, NewRunIs DEF Dispatch, NewRun
  <2> QED
    BY <2>1, Appended
<1>3. CASE PostDispatch \/ PostRearm
  BY <1>2, <1>3 DEF PostDispatch, PostRearm
<1>4. CASE RunListed \/ RunEnds
  <2>1. PICK i \in 1..Len(runs), r \in Run :
          /\ runs' = [runs EXCEPT ![i] = r]
          /\ runs[i].phase # "done" /\ r.nonce = runs[i].nonce
    <3>1. \A i \in 1..Len(runs) : runs[i] \in Run
      BY RunsAre
    <3>2. CASE RunListed
      <4>1. PICK i \in 1..Len(runs) :
              /\ runs[i].phase = "posted" /\ [runs[i] EXCEPT !.phase = "listed"] \in Run
              /\ runs' = [runs EXCEPT ![i] = [runs[i] EXCEPT !.phase = "listed"]]
        BY <3>2, RunChanges, StagesAssumption
      <4>2. [runs[i] EXCEPT !.phase = "listed"].nonce = runs[i].nonce
        BY <3>1 DEF Run
      <4> QED
        BY <4>1, <4>2
    <3>3. CASE RunEnds
      <4>1. PICK i \in 1..Len(runs), c \in Conclusions(stage), pushed \in BOOLEAN :
              LET run == [runs[i] EXCEPT !.phase = "done", !.conclusion = c, !.pushed = pushed]
              IN  runs[i].phase = "listed" /\ run \in Run /\ runs' = [runs EXCEPT ![i] = run]
        BY <3>3, RunChanges, StagesAssumption
      <4>2. [runs[i] EXCEPT !.phase = "done", !.conclusion = c, !.pushed = pushed].nonce
              = runs[i].nonce
        BY <3>1 DEF Run
      <4> QED
        BY <4>1, <4>2
    <3> QED
      BY <1>4, <3>2, <3>3
  <2> QED
    BY <2>1, Altered
<1> QED
  BY <1>1, <1>3, <1>4 DEF Next, SessionStep, StoreNonce, Observe, Retry, Accept,
     RearmWorker, FailStage, ReserveHygiene, Recover, DispatchAgain, AdoptResult, AdoptFailure,
     AdoptHygieneFailure, RearmAudit, RearmHygiene, Throw, ReserveContinuation, PostContinuation,
     NoContinuation, Kill, StartByPerson, StartScheduled, Enter, Push, ReleaseControlPlane

LEMMA EffectOfStage ==
  ASSUME AdoptionInv, place = "operating", StageStep
  PROVE  Effect
<1>a. /\ TypeOK /\ NonceFirst /\ Len(runs) \in Nat /\ DOMAIN runs = 1..Len(runs)
      /\ comment \in Comment /\ stage = "audit" /\ LastRun /\ comment.nonce # NoNonce
  BY Facts
<1>1. CASE StoreNonce
  <2>1. Prepares
    BY <1>1, <1>a DEF StoreNonce, Prepares, KeepsNonce, NewNonce, Comment
  <2> QED
    BY <2>1 DEF Effect
<1>2. CASE PostDispatch \/ PostRearm
  <2>1. PICK why \in {"first", "retry", "rearm"} :
          Dispatch(why) /\ pc \in {"dispatched", "rearmed"}
    BY <1>2 DEF PostDispatch, PostRearm
  <2>2. NewRun(why) \in Run /\ runs' = Append(runs, NewRun(why))
    BY <1>a, <2>1, NewRunIs DEF Dispatch, NewRun
  <2>3. Len(runs') = Len(runs) + 1
    BY <1>a, <2>2, Appended
  <2>4. Posts
    BY <2>1, <2>3 DEF Dispatch, Posts, CommentKept
  <2> QED
    BY <2>4 DEF Effect
<1>3. CASE Observe
  <2>1. PICK i \in DOMAIN runs :
          /\ Listed(comment.nonce) = {i} /\ current' = i
          /\ LET recovery == comment.next = RearmOf["remediation"]
             IN /\ comment' = [comment EXCEPT
                     !.next = IF recovery THEN RearmSeenOf[stage] ELSE ObserveOf[stage],
                     !.run = i]
                /\ pc' = IF recovery THEN "rewatch" ELSE "watch"
    BY <1>3 DEF Observe
  <2>2. runs[i].nonce = comment.nonce
    BY <2>1 DEF Listed
  <2>3. /\ comment'.run = i /\ comment'.nonce = comment.nonce
        /\ comment'.retries = comment.retries
    BY <2>1, <1>a DEF Comment
  <2>4. pc' \in {"watch", "rewatch"}
    BY <2>1
  <2>5. Finds
    BY <1>3, <1>a, <2>1, <2>2, <2>3, <2>4 DEF Observe, Finds
  <2> QED
    BY <2>5 DEF Effect
<1>4. CASE Retry
  <2>1. RunsAgain
    BY <1>4 DEF Retry, RunsAgain, CommentKept
  <2> QED
    BY <2>1 DEF Effect
<1>5. CASE AdoptFailure
  <2>1. Watches
    BY <1>5 DEF AdoptFailure, Watches, CommentKept
  <2> QED
    BY <2>1 DEF Effect
<1>6. CASE ReserveContinuation
  <2>1. Schedules
    BY <1>6, <1>a DEF ReserveContinuation, Schedules, CommentKept, Comment
  <2> QED
    BY <2>1 DEF Effect
<1>7. CASE PostContinuation \/ NoContinuation
  <2>1. Leaves
    BY <1>7 DEF PostContinuation, NoContinuation, Leave, Leaves, Resting
  <2> QED
    BY <2>1 DEF Effect
<1>8. CASE StartByPerson \/ StartScheduled
  <2>1. Enter /\ pc = "none"
    BY <1>8 DEF StartByPerson, StartScheduled
  <2>2. CommentKept /\ UNCHANGED runs
    BY <2>1, <1>a DEF Enter, CommentKept, Comment
  <2>3. CASE headMoved
    <3>1. Leaves
      BY <2>1, <2>2, <2>3 DEF Enter, Leave, Leaves, Resting, CommentKept
    <3> QED
      BY <3>1 DEF Effect
  <2>4. CASE ~headMoved
    <3>1. Enters
      BY <2>1, <2>2, <2>4, <1>a DEF Enter, Enters, StoredRetries
    <3> QED
      BY <3>1 DEF Effect
  <2> QED
    BY <2>3, <2>4
<1>9. CASE RunListed \/ RunEnds
  <2>1. PICK i \in 1..Len(runs), r \in Run : runs' = [runs EXCEPT ![i] = r]
    BY <1>9, <1>a, RunChanges, StagesAssumption
  <2>2. Len(runs') = Len(runs)
    BY <2>1, <1>a, Altered
  <2>3. Rests
    BY <1>9, <2>2 DEF RunListed, RunEnds, session, Rests, CommentKept
  <2> QED
    BY <2>3 DEF Effect
<1>10. CASE Push \/ ReleaseControlPlane
  <2>1. Rests
    BY <1>10 DEF Push, ReleaseControlPlane, session, Rests, CommentKept
  <2> QED
    BY <2>1 DEF Effect
<1>11. CASE counted /\ Recover
  <2>1. PICK i \in DOMAIN runs :
          /\ Listed(comment.nonce) = {i} /\ current' = i
          /\ comment' = [comment EXCEPT !.next = ObserveOf[stage], !.run = i]
    BY <1>11 DEF Recover
  <2>2. runs[i].nonce = comment.nonce
    BY <2>1 DEF Listed
  <2>3. /\ comment'.run = i /\ comment'.nonce = comment.nonce
        /\ comment'.retries = comment.retries
    BY <2>1, <1>a DEF Comment
  <2>4. Finds
    BY <1>11, <1>a, <2>1, <2>2, <2>3 DEF Recover, Finds
  <2> QED
    BY <2>4 DEF Effect
<1> QED
  BY <1>1, <1>2, <1>3, <1>4, <1>5, <1>6, <1>7, <1>8, <1>9, <1>10, <1>11 DEF StageStep

LEMMA EffectOf ==
  ASSUME AdoptionInv, place = "operating", Operating
  PROVE  Effect
<1>a. comment \in Comment /\ stage = "audit"
  BY Facts
<1>1. CASE StageStep
  BY <1>1, EffectOfStage
<1>2. CASE StartAudit
  <2>1. Charges
    BY <1>2, <1>a DEF StartAudit, Charges, CommentKept, Comment
  <2> QED
    BY <2>1 DEF Effect
<1>3. CASE DispatchReserved
  <2>1. PostsFirst
    BY <1>3 DEF DispatchReserved, ChargedHere, PostsFirst, CommentKept
  <2> QED
    BY <2>1 DEF Effect
<1>4. CASE BindRun \/ RecordResult
  <2>1. Rests
    BY <1>4 DEF BindRun, RecordResult, vars, Rests, CommentKept
  <2> QED
    BY <2>1 DEF Effect
<1>5. CASE TakeResult \/ EndSession(Throw) \/ EndSession(Kill)
  <2>1. Leaves
    BY <1>5 DEF TakeResult, Accept, AdoptResult, EndSession, Throw, Kill, Leave, Leaves, Resting
  <2> QED
    BY <2>1 DEF Effect
<1>6. CASE FailAudit
  <2>1. /\ pc \in {"watch", "rewatch"} /\ UNCHANGED runs /\ Leave("threw")
        /\ comment' = [comment EXCEPT !.next = FailedOf[stage], !.run = current]
    BY <1>6 DEF FailAudit, FailStage
  <2>2. Leaves
    BY <2>1, <1>a DEF Leave, Leaves, Resting, Comment
  <2> QED
    BY <2>2 DEF Effect
<1>7. CASE ReplaceAudit
  <2>1. Replaces
    BY <1>7, <1>a DEF ReplaceAudit, RearmAudit, Replaces, NewNonce, Comment
  <2> QED
    BY <2>1 DEF Effect
<1> QED
  BY <1>1, <1>2, <1>3, <1>4, <1>5, <1>6, <1>7 DEF Operating
--------------------------------------------------------------------------------
(* Types.                                                                  *)

LEMMA RunsGrow ==
  ASSUME AdoptionInv, AdoptionNext
  PROVE  Len(runs') \in Nat /\ Len(runs') >= Len(runs) /\ DOMAIN runs' = 1..Len(runs')
<1>a. TypeOK /\ NonceFirst /\ Len(runs) \in Nat
  BY Facts
<1>1. TypeOK'
  BY StageKept DEF IInv
<1>2. Len(runs') \in Nat /\ DOMAIN runs' = 1..Len(runs')
  BY <1>1, LenProperties DEF TypeOK
<1>3. CASE Next
  BY <1>3, <1>a, <1>2, RunsStep
<1>4. CASE UNCHANGED runs
  BY <1>4, <1>a, <1>2
<1>5. CASE place = "operating" /\ Operating
  BY <1>3, <1>4, <1>5, AsStage DEF vars, StartAudit, DispatchReserved
<1>6. CASE EarlyStep \/ StoreState
  BY <1>3, <1>4, <1>6 DEF EarlyStep, BeginAdoption, Refreeze, ReserveAudit, Abandon, MoveHead,
     StoreState, vars, Next
<1> QED
  BY <1>3, <1>5, <1>6, Kinds DEF AdoptionInv

\* What the steps write to the checkpoint.
LEMMA CheckpointMade ==
  ASSUME AdoptionInv
  PROVE  /\ Reconciled \in
              [head : 0..MaxMoves, nonce : Nat, run : 0..Len(runs), decided : BOOLEAN,
               attempts : 0..LegacyAdoptionAuditMaxAttempts]
         /\ BudgetLeft => checkpoint.attempts + 1 \in 0..LegacyAdoptionAuditMaxAttempts
<1>1. /\ Len(runs) \in Nat
      /\ head \in 0..MaxMoves
      /\ checkpoint \in
           [head : 0..MaxMoves, nonce : Nat, run : 0..Len(runs), decided : BOOLEAN,
            attempts : 0..LegacyAdoptionAuditMaxAttempts]
  BY Facts DEF AdoptionInv, AdoptionTypeOK
<1>2. [checkpoint EXCEPT !.head = head, !.nonce = NoNonce, !.run = NoRun, !.decided = FALSE] \in
        [head : 0..MaxMoves, nonce : Nat, run : 0..Len(runs), decided : BOOLEAN,
         attempts : 0..LegacyAdoptionAuditMaxAttempts]
  <2> DEFINE S == [head : 0..MaxMoves, nonce : Nat, run : 0..Len(runs), decided : BOOLEAN,
                   attempts : 0..LegacyAdoptionAuditMaxAttempts]
  <2>1. \A c \in S : [c EXCEPT !.head = head] \in S
    BY <1>1
  <2>2. \A c \in S : [c EXCEPT !.nonce = NoNonce] \in S
    BY DEF NoNonce
  <2>3. \A c \in S : [c EXCEPT !.run = NoRun] \in S
    BY <1>1 DEF NoRun
  <2>4. \A c \in S : [c EXCEPT !.decided = FALSE] \in S
    OBVIOUS
  <2>5. checkpoint \in S
    BY <1>1
  <2> HIDE DEF S
  <2>6. [[[[checkpoint EXCEPT !.head = head] EXCEPT !.nonce = NoNonce] EXCEPT !.run = NoRun]
           EXCEPT !.decided = FALSE] \in S
    BY <2>1, <2>2, <2>3, <2>4, <2>5
  <2> QED
    BY <2>6 DEF S
<1>3. BudgetLeft => checkpoint.attempts + 1 \in 0..LegacyAdoptionAuditMaxAttempts
  BY <1>1 DEF BudgetLeft, LegacyAdoptionAuditMaxAttempts
<1> QED
  BY <1>1, <1>2, <1>3 DEF Reconciled

LEMMA AdoptionTyped ==
  ASSUME AdoptionInv, AdoptionNext
  PROVE  AdoptionTypeOK'
<1> DEFINE Checkpoints(n) ==
      [head : 0..MaxMoves, nonce : Nat, run : 0..n, decided : BOOLEAN,
       attempts : 0..LegacyAdoptionAuditMaxAttempts]
<1>a. /\ AdoptionTypeOK /\ Len(runs) \in Nat /\ DOMAIN runs = 1..Len(runs)
      /\ comment.nonce \in Nat /\ current \in 0..Len(runs)
  BY Facts DEF AdoptionInv
<1>b. Len(runs') \in Nat /\ Len(runs') >= Len(runs) /\ DOMAIN runs' = 1..Len(runs')
  BY RunsGrow
<1>c. checkpoint \in Checkpoints(Len(runs))
  BY <1>a DEF AdoptionTypeOK
<1>g. ASSUME NEW c \in Checkpoints(Len(runs))
      PROVE  c \in Checkpoints(Len(runs'))
  BY <1>a, <1>b, <1>g
<1>1. checkpoint' \in Checkpoints(Len(runs))
  <2>1. CASE UNCHANGED checkpoint
    BY <2>1, <1>c
  <2>2. CASE BeginAdoption \/ Refreeze
    <3>1. checkpoint' = Reconciled
      BY <2>2 DEF BeginAdoption, Refreeze
    <3> QED
      BY <3>1, CheckpointMade
  <2>3. CASE ReserveAudit
    <3>1. CASE BudgetLeft /\ checkpoint' = [checkpoint EXCEPT !.nonce = NewNonce, !.attempts = @ + 1]
      <4>1. comment.nonce + 1 \in Nat
        BY <1>a
      <4>2. checkpoint.attempts + 1 \in 0..LegacyAdoptionAuditMaxAttempts
        BY <3>1, CheckpointMade
      <4>3. \A c \in Checkpoints(Len(runs)), n \in Nat, k \in 0..LegacyAdoptionAuditMaxAttempts :
              [c EXCEPT !.nonce = n, !.attempts = k] \in Checkpoints(Len(runs))
        OBVIOUS
      <4>4. checkpoint' = [checkpoint EXCEPT !.nonce = comment.nonce + 1,
                                             !.attempts = checkpoint.attempts + 1]
        BY <3>1 DEF NewNonce
      <4> QED
        BY <4>1, <4>2, <4>3, <4>4, <1>c
    <3> QED
      BY <2>1, <2>3, <3>1 DEF ReserveAudit
  <2>4. CASE BindRun
    BY <2>4, <1>a, <1>c DEF BindRun
  <2>5. CASE RecordResult
    BY <2>5, <1>c DEF RecordResult
  <2> QED
    BY <2>1, <2>2, <2>3, <2>4, <2>5 DEF AdoptionNext, AuditSession, Surroundings, adoption,
       StoreState, Abandon, MoveHead, StartAudit, DispatchReserved, TakeResult, FailAudit,
       ReplaceAudit, EndSession
<1>2. checkpoint' \in Checkpoints(Len(runs'))
  BY <1>1, <1>g
<1>3. ledger' \in [failed : SUBSET DOMAIN runs, replaced : 0..Len(runs)]
  <2>1. ledger \in [failed : SUBSET DOMAIN runs, replaced : 0..Len(runs)]
    BY <1>a DEF AdoptionTypeOK
  <2>2. CASE UNCHANGED ledger
    BY <2>1, <2>2
  <2>3. CASE FailAudit
    <3>1. current \in DOMAIN runs
      BY <2>3, <1>a DEF FailAudit, FailStage, Done, NoRun
    <3> QED
      BY <2>1, <2>3, <3>1 DEF FailAudit
  <2>4. CASE ReplaceAudit
    BY <2>1, <2>4, <1>a DEF ReplaceAudit
  <2> QED
    BY <2>2, <2>3, <2>4 DEF AdoptionNext, AuditSession, Surroundings, adoption, BeginAdoption,
       Refreeze, ReserveAudit, StoreState, Abandon, MoveHead, StartAudit, DispatchReserved,
       BindRun, RecordResult, TakeResult, EndSession
<1>4. ledger' \in [failed : SUBSET DOMAIN runs', replaced : 0..Len(runs')]
  <2>1. DOMAIN runs \subseteq DOMAIN runs' /\ 0..Len(runs) \subseteq 0..Len(runs')
    BY <1>a, <1>b
  <2> QED
    BY <1>3, <2>1
<1>5. result' \in 0..Len(runs)
  <2>1. result' = result \/ result' = current
    BY DEF AdoptionNext, AuditSession, Surroundings, adoption, BeginAdoption,
       Refreeze, ReserveAudit, StoreState, Abandon, MoveHead, StartAudit, DispatchReserved,
       BindRun, RecordResult, TakeResult, FailAudit, ReplaceAudit, EndSession
  <2> QED
    BY <2>1, <1>a DEF AdoptionTypeOK
<1>6. result' \in 0..Len(runs')
  BY <1>5, <1>a, <1>b
<1>7. head' \in 0..MaxMoves
  <2>1. head' = head \/ (head < MaxMoves /\ head' = head + 1)
    BY DEF AdoptionNext, AuditSession, Surroundings, adoption, BeginAdoption,
       Refreeze, ReserveAudit, StoreState, Abandon, MoveHead, StartAudit, DispatchReserved,
       BindRun, RecordResult, TakeResult, FailAudit, ReplaceAudit, EndSession
  <2> QED
    BY <2>1, <1>a, MovesAssumption DEF AdoptionTypeOK
<1>8. place' \in Places /\ bound' \in {"no", "bound", "recorded"} /\ counted' \in BOOLEAN
  BY <1>a DEF AdoptionTypeOK, Places, AdoptionNext, AuditSession, Surroundings, adoption,
     BeginAdoption, Refreeze, ReserveAudit, StoreState, Abandon, MoveHead, StartAudit,
     DispatchReserved, BindRun, RecordResult, TakeResult, FailAudit, ReplaceAudit, EndSession
<1>9. TypeOK'
  BY StageKept DEF IInv
<1> QED
  BY <1>2, <1>4, <1>6, <1>7, <1>8, <1>9 DEF AdoptionTypeOK
--------------------------------------------------------------------------------
(* Before there is a state comment.                                        *)

LEMMA InitAdoption == AdoptionInit => AdoptionInv
<1> SUFFICES ASSUME AdoptionInit PROVE AdoptionInv
  OBVIOUS
<1>a. /\ head = 0 /\ counted = FALSE /\ bound = "no" /\ result = NoRun
      /\ checkpoint = [head |-> 0, nonce |-> NoNonce, run |-> NoRun, decided |-> FALSE, attempts |-> 0]
      /\ ledger = [failed |-> {}, replaced |-> NoRun]
  BY DEF AdoptionInit
<1>1. IInv
  <2>1. CASE Init
    BY <2>1, InitInv
  <2>2. CASE Begin("none") /\ stage = "audit"
    <3>1. stage \in AllStages /\ Status[stage] \in Actions
      BY <2>2, Words DEF AllStages
    <3>2. runs \in Seq(Run) /\ Len(runs) = 0 /\ DOMAIN runs = {}
      BY <2>2, EmptySeq DEF Begin
    <3>3. comment \in Comment /\ comment.run = 0 /\ comment.retries = 0
      BY <2>2, <3>1, BoundsAssumption
         DEF Begin, Comment, NoNonce, NoRun, NoPlane, MaxInfraStageRetries
    <3>4. /\ pc \in PCs /\ way \in Ways /\ current \in 0..Len(runs) /\ Len(runs) <= MaxRuns
          /\ used \in 0..MaxInfraStageRetries
      BY <2>2, <3>2, BoundsAssumption DEF Begin, PCs, Ways, NoRun, MaxInfraStageRetries
    <3>5. /\ checkout \in 0..MaxControlPlane /\ plane \in 0..MaxControlPlane
          /\ starts \in 0..MaxStarts
      BY <2>2, BoundsAssumption DEF Begin
    <3>6. headMoved \in BOOLEAN /\ scheduled \in BOOLEAN /\ stage \in Stages
      BY <2>2 DEF Begin
    <3>7. TypeOK
      BY <3>2, <3>3, <3>4, <3>5, <3>6 DEF TypeOK
    <3>8. pc = "none" /\ Retries = {} /\ comment.run = NoRun
      BY <2>2, <3>2 DEF Begin, Retries
    <3>9. NonceFirst /\ RunsInOrder /\ LastRun /\ RetryStored
      BY <2>2, <3>2, <3>3, <3>8 DEF NonceFirst, RunsInOrder, LastRun, RetryStored, Resting, NoRun
    <3> QED
      BY <3>7, <3>9 DEF IInv
  <2> QED
    BY <2>1, <2>2 DEF AdoptionInit
<1>2. TypeOK /\ Len(runs) = 0 /\ DOMAIN runs = {}
  BY <1>1, EmptySeq DEF IInv, AdoptionInit, Init, Begin
<1>3. place = "none" \/ (place = "reading" /\ Begin("none") /\ stage = "audit")
  BY DEF AdoptionInit
<1>4. AdoptionTypeOK
  <2>1. checkpoint.attempts \in 0..LegacyAdoptionAuditMaxAttempts
    BY <1>a DEF LegacyAdoptionAuditMaxAttempts
  <2>2. 0 \in 0..MaxMoves /\ 0 \in 0..Len(runs)
    BY <1>2, MovesAssumption
  <2>3. checkpoint \in
          [head : 0..MaxMoves, nonce : Nat, run : 0..Len(runs), decided : BOOLEAN,
           attempts : 0..LegacyAdoptionAuditMaxAttempts]
    BY <1>a, <2>1, <2>2 DEF NoNonce, NoRun
  <2> QED
    BY <1>a, <1>2, <1>3, <2>2, <2>3 DEF AdoptionTypeOK, Places, NoRun
<1>5. EarlyInv
  BY <1>a, <1>2, <1>3 DEF EarlyInv, Early, Begin, NoNonce, NoRun
<1>6. FirstDispatch /\ NamedRun /\ DecidedInv /\ BoundInv
  BY <1>a, <1>3 DEF FirstDispatch, NamedRun, DecidedInv, BoundInv
<1> QED
  BY <1>1, <1>4, <1>5, <1>6 DEF AdoptionInv

\* What the proof says of the two comments, besides the types.
Agreement == EarlyInv /\ FirstDispatch /\ NamedRun /\ DecidedInv /\ BoundInv

LEMMA StageSame ==
  ASSUME AdoptionNext
  PROVE  stage' = stage
<1>1. CASE Next
  BY <1>1 DEF Next, SessionStep, StoreNonce, PostDispatch, PostRearm, Dispatch, Observe, Retry,
     Accept, RearmWorker, FailStage, ReserveHygiene, Recover, DispatchAgain, AdoptResult,
     AdoptFailure, AdoptHygieneFailure, RearmAudit, RearmHygiene, Throw, ReserveContinuation,
     PostContinuation, NoContinuation, Kill, StartByPerson, StartScheduled, Enter, RunListed,
     RunEnds, Push, ReleaseControlPlane
<1>2. CASE Operating
  BY <1>1, <1>2, AsStage DEF vars, StartAudit, DispatchReserved
<1>3. CASE EarlyStep \/ StoreState
  BY <1>1, <1>3 DEF EarlyStep, BeginAdoption, Refreeze, ReserveAudit, Abandon, MoveHead,
     StoreState, vars, Next
<1>4. CASE AuditSession \/ EndSession(Kill) \/ Surroundings
  BY <1>1, <1>2, <1>4
     DEF AuditSession, Surroundings, EndSession, Operating, StageStep, Next
<1> QED
  BY <1>1, <1>3, <1>4 DEF AdoptionNext, EarlyStep

\* A delivery that is not adopted, and an adoption up to the state comment.
LEMMA OutsideKept ==
  ASSUME AdoptionInv, AdoptionNext,
         \/ place = "none" /\ Next /\ UNCHANGED adoption
         \/ place \in Early /\ EarlyStep
         \/ StoreState
  PROVE  Agreement'
<1>a. stage' = stage /\ EarlyInv /\ AdoptionTypeOK /\ comment \in Comment /\ comment.nonce \in Nat
      /\ Len(runs) \in Nat
  BY StageSame, Facts DEF AdoptionInv
<1>1. ASSUME bound' = "no", ~checkpoint'.decided, result' = NoRun, checkpoint'.run = NoRun,
             place' \in Early \cup {"none"},
             place' \in Early =>
               stage = "audit" /\ place \in Early
                 /\ UNCHANGED <<runs, comment, pc, used, counted>>,
             place' = "reserved" => checkpoint'.nonce # NoNonce
      PROVE  Agreement'
  BY <1>1, <1>a DEF Agreement, EarlyInv, FirstDispatch, NamedRun, DecidedInv, BoundInv, Early
<1>2. CASE place = "none" /\ Next /\ UNCHANGED adoption
  BY <1>1, <1>2, <1>a DEF EarlyInv, Early, adoption
<1>3. CASE place \in Early /\ EarlyStep
  <2>1. /\ stage = "audit" /\ bound = "no" /\ ~checkpoint.decided /\ result = NoRun
        /\ checkpoint.run = NoRun /\ place # "operating"
        /\ place = "reserved" => checkpoint.nonce # NoNonce
    BY <1>3, <1>a DEF EarlyInv, Early
  <2>2. /\ ~Reconciled.decided /\ Reconciled.run = NoRun
    BY <2>1, <1>a DEF Reconciled, AdoptionTypeOK, NoRun
  <2>3. CASE BeginAdoption
    BY <1>1, <2>1, <2>2, <2>3 DEF BeginAdoption, Early
  <2>4. CASE Refreeze
    BY <1>1, <2>1, <2>2, <2>4 DEF Refreeze, Early, vars
  <2>5. CASE ReserveAudit
    <3>1. checkpoint'.nonce # NoNonce /\ ~checkpoint'.decided /\ checkpoint'.run = NoRun
      <4>1. checkpoint \in
              [head : 0..MaxMoves, nonce : Nat, run : 0..Len(runs), decided : BOOLEAN,
               attempts : 0..LegacyAdoptionAuditMaxAttempts]
        BY <1>a DEF AdoptionTypeOK
      <4>2. CASE checkpoint.nonce # NoNonce /\ UNCHANGED checkpoint
        BY <2>1, <4>2
      <4>3. CASE checkpoint' = [checkpoint EXCEPT !.nonce = NewNonce, !.attempts = @ + 1]
        <5>1. /\ checkpoint'.nonce = comment.nonce + 1 /\ checkpoint'.run = checkpoint.run
              /\ checkpoint'.decided = checkpoint.decided
          BY <4>1, <4>3 DEF NewNonce
        <5> QED
          BY <2>1, <5>1, <1>a DEF NoNonce
      <4> QED
        BY <2>5, <4>2, <4>3 DEF ReserveAudit
    <3> QED
      BY <1>1, <2>1, <2>5, <3>1 DEF ReserveAudit, Early, vars
  <2>6. CASE Abandon
    BY <1>1, <2>1, <2>6 DEF Abandon, Early, vars
  <2>7. CASE MoveHead
    BY <1>1, <1>3, <2>1, <2>7 DEF MoveHead, vars
  <2>8. CASE ReleaseControlPlane /\ UNCHANGED adoption
    BY <1>1, <1>3, <2>1, <2>8 DEF ReleaseControlPlane, session, adoption
  <2> QED
    BY <1>3, <2>3, <2>4, <2>5, <2>6, <2>7, <2>8 DEF EarlyStep
<1>4. CASE StoreState
  <2>1. /\ stage = "audit" /\ Len(runs) = 0 /\ comment.retries = 0 /\ comment.run = NoRun
        /\ used = 0 /\ ~counted /\ checkpoint.nonce # NoNonce
        /\ bound = "no" /\ ~checkpoint.decided /\ result = NoRun
    BY <1>4, <1>a DEF StoreState, EarlyInv, Early
  <2>2. /\ place' = "operating" /\ pc' = "lookup" /\ way' = "adopted"
        /\ UNCHANGED <<runs, used, counted, bound, checkpoint, result>>
    BY <1>4 DEF StoreState
  <2>3. /\ comment'.nonce = checkpoint.nonce /\ comment'.run = NoRun /\ comment'.retries = 0
    BY <1>4, <2>1, <1>a DEF StoreState, Comment
  <2> QED
    BY <2>1, <2>2, <2>3, <1>a DEF Agreement, EarlyInv, Early, FirstDispatch, NamedRun, DecidedInv,
       BoundInv
<1> QED
  BY <1>2, <1>3, <1>4
--------------------------------------------------------------------------------
(* The audit of an adopted pull request.                                   *)

\* The facts about the step of an audit that the parts of the invariant rest on.
LEMMA AuditStep ==
  ASSUME AdoptionInv, place = "operating", Operating
  PROVE  /\ Effect /\ place' = "operating" /\ stage' = "audit"
         /\ \A i \in 1..Len(runs) :
              runs'[i].nonce = runs[i].nonce /\ (runs[i].phase = "done" => runs'[i] = runs[i])
         /\ counted => counted'
<1>a. TypeOK /\ NonceFirst /\ stage = "audit"
  BY Facts
<1>1. place' = "operating" /\ (counted => counted')
  BY DEF Operating, StageStep, adoption, StartAudit, DispatchReserved, BindRun, RecordResult,
     TakeResult, FailAudit, ReplaceAudit, EndSession
<1>2. AdoptionNext
  BY DEF Operating, StageStep, AdoptionNext, AuditSession, Surroundings
<1>3. Next \/ UNCHANGED runs
  BY AsStage DEF vars, StartAudit, DispatchReserved
<1> QED
  BY <1>a, <1>1, <1>2, <1>3, EffectOf, StageSame, RunsKept

LEMMA FirstDispatchKept ==
  ASSUME AdoptionInv, place = "operating", Operating
  PROVE  FirstDispatch'
<1>a. /\ Effect /\ (counted => counted') /\ Len(runs) \in Nat /\ comment.nonce \in Nat
      /\ comment.run \in 0..Len(runs) /\ current \in 0..Len(runs) /\ LastRun
      /\ comment.nonce # NoNonce /\ way # "initial"
      /\ Len(runs) = 0 => used = 0 /\ comment.retries = 0 /\ pc \notin {"dispatch", "rearmed"}
      /\ ~counted => Len(runs) = 0 /\ pc \in Resting \cup {"lookup"}
      /\ pc = "lookup" /\ way = "fresh" => Len(runs) = 0
  BY AuditStep, Facts DEF AdoptionInv, FirstDispatch
<1>1. comment'.nonce # NoNonce /\ way' # "initial"
  BY <1>a DEF Effect, Rests, Leaves, Schedules, Enters, Prepares, Posts, Finds, RunsAgain,
     Watches, Replaces, Charges, PostsFirst, CommentKept, NoNonce
<1>2. Done => Len(runs) # 0
  BY <1>a DEF Done, NoRun
<1>3. Len(runs') = 0 =>
        used' = 0 /\ comment'.retries = 0 /\ pc' \notin {"dispatch", "rearmed"}
  BY <1>a, <1>2 DEF Effect, Rests, Leaves, Schedules, Enters, Prepares, Posts, Finds, RunsAgain,
     Watches, Replaces, Charges, PostsFirst, CommentKept, Resting
<1>4. ~counted' => Len(runs') = 0 /\ pc' \in Resting \cup {"lookup"}
  BY <1>a DEF Effect, Rests, Leaves, Schedules, Enters, Prepares, Posts, Finds, RunsAgain,
     MayRetry, Watches, Replaces, Charges, PostsFirst, CommentKept, Resting, NoRun
<1>5. pc' = "lookup" /\ way' = "fresh" => Len(runs') = 0
  BY <1>a DEF Effect, Rests, Leaves, Schedules, Enters, Prepares, Posts, Finds, RunsAgain,
     Watches, Replaces, Charges, PostsFirst, CommentKept, Resting
<1> QED
  BY <1>1, <1>3, <1>4, <1>5 DEF FirstDispatch

LEMMA NamedRunKept ==
  ASSUME AdoptionInv, place = "operating", Operating
  PROVE  NamedRun'
<1>a. /\ Effect /\ Len(runs) \in Nat /\ comment.run \in 0..Len(runs) /\ LastRun
      /\ current \in 0..Len(runs)
      /\ \A i \in 1..Len(runs) : runs'[i].nonce = runs[i].nonce
      /\ comment.run # NoRun => runs[comment.run].nonce = comment.nonce
      /\ pc \in {"watch", "rewatch", "adopt"} => comment.run = current
  BY AuditStep, Facts DEF AdoptionInv, NamedRun
<1>1. comment'.run # NoRun => runs'[comment'.run].nonce = comment'.nonce
  BY <1>a DEF Effect, Rests, Leaves, Schedules, Enters, Prepares, Posts, Finds, RunsAgain,
     Watches, Replaces, Charges, PostsFirst, CommentKept, NoRun
<1>2. pc' \in {"watch", "rewatch", "adopt"} => comment'.run = current'
  BY <1>a DEF Effect, Rests, Leaves, Schedules, Enters, Prepares, Posts, Finds, RunsAgain,
     Watches, Replaces, Charges, PostsFirst, CommentKept, Resting
<1> QED
  BY <1>1, <1>2 DEF NamedRun

\* Binding a run to a checkpoint that has a verdict changes nothing.
LEMMA BindKeeps ==
  ASSUME AdoptionInv, place = "operating", BindRun, checkpoint.decided
  PROVE  /\ checkpoint'.run = checkpoint.run /\ checkpoint'.nonce = checkpoint.nonce
         /\ checkpoint'.decided
<1>1. comment.run = checkpoint.run /\ comment.nonce = checkpoint.nonce /\ comment.run = current
  BY DEF AdoptionInv, DecidedInv, NamedRun, BindRun, AuditEnded
<1>2. checkpoint' = [checkpoint EXCEPT !.nonce = comment.nonce, !.run = current]
  BY DEF BindRun
<1>3. checkpoint \in
        [head : 0..MaxMoves, nonce : Nat, run : 0..Len(runs), decided : BOOLEAN,
         attempts : 0..LegacyAdoptionAuditMaxAttempts]
  BY DEF AdoptionInv, AdoptionTypeOK
<1> QED
  BY <1>1, <1>2, <1>3
\* Only RecordResult decides, and only BindRun changes what is decided.
LEMMA CheckpointStep ==
  ASSUME AdoptionInv, place = "operating", Operating
  PROVE  UNCHANGED checkpoint \/ BindRun \/ RecordResult
BY DEF Operating, StageStep, adoption, StartAudit, DispatchReserved, TakeResult, FailAudit,
   ReplaceAudit, EndSession

LEMMA DecidedKept ==
  ASSUME AdoptionInv, place = "operating", Operating
  PROVE  DecidedInv'
<1>a. /\ Effect /\ Len(runs) \in Nat /\ current \in 0..Len(runs) /\ LastRun
      /\ stage = "audit" /\ stage' = "audit" /\ way # "initial" /\ DecidedInv
      /\ \A i \in 1..Len(runs) : runs[i].phase = "done" => runs'[i] = runs[i]
  BY AuditStep, Facts DEF AdoptionInv, FirstDispatch
<1>1. CASE RecordResult
  <2>1. /\ AuditEnded /\ Usable(Conclusion) /\ checkpoint.run = current
        /\ checkpoint.nonce = comment.nonce /\ comment.run = current /\ UNCHANGED vars
    BY <1>1 DEF RecordResult, AdoptionInv, BoundInv, NamedRun, AuditEnded
  <2>2. checkpoint'.run = checkpoint.run /\ checkpoint'.nonce = checkpoint.nonce
    <3>1. checkpoint \in
            [head : 0..MaxMoves, nonce : Nat, run : 0..Len(runs), decided : BOOLEAN,
             attempts : 0..LegacyAdoptionAuditMaxAttempts]
      BY DEF AdoptionInv, AdoptionTypeOK
    <3> QED
      BY <1>1, <3>1 DEF RecordResult
  <2>3. /\ current = Len(runs) /\ current # NoRun /\ runs[current].phase = "done"
        /\ pc \in {"adopt", "watch"} /\ (pc = "watch" => ~MayRetry)
    BY <2>1, <1>a DEF AuditEnded, Done, LastRun
  <2>4. runs[current].conclusion \in Verdicts
    BY <2>1, <1>a DEF Usable, Conclusion, Verdicts, LeftVerdict
  <2>5. MayRetry' = MayRetry
    BY <2>1 DEF vars, MayRetry, Retryable, Conclusion, RetryLeft
  <2> QED
    BY <2>1, <2>2, <2>3, <2>4, <2>5 DEF DecidedInv, vars
<1>2. CASE UNCHANGED checkpoint \/ BindRun
  <2> SUFFICES ASSUME checkpoint'.decided
               PROVE  DecidedInv'
    BY DEF DecidedInv
  <2>1. /\ checkpoint.decided /\ checkpoint'.run = checkpoint.run
        /\ checkpoint'.nonce = checkpoint.nonce
    <3>1. CASE UNCHANGED checkpoint
      BY <3>1
    <3>2. CASE BindRun
      <4>1. checkpoint.decided
        <5>1. checkpoint \in
                [head : 0..MaxMoves, nonce : Nat, run : 0..Len(runs), decided : BOOLEAN,
                 attempts : 0..LegacyAdoptionAuditMaxAttempts]
          BY DEF AdoptionInv, AdoptionTypeOK
        <5> QED
          BY <3>2, <5>1 DEF BindRun
      <4> QED
        BY <3>2, <4>1, BindKeeps
    <3> QED
      BY <1>2, <3>1, <3>2
  <2>2. /\ checkpoint.run = Len(runs) /\ checkpoint.run # NoRun
        /\ comment.run = checkpoint.run /\ comment.nonce = checkpoint.nonce
        /\ runs[Len(runs)].phase = "done" /\ runs[Len(runs)].conclusion \in Verdicts
        /\ pc \in Resting \cup {"adopt", "watch"}
        /\ pc = "watch" => ~MayRetry
    BY <2>1, <1>a DEF DecidedInv
  <2>3. runs'[Len(runs)] = runs[Len(runs)]
    BY <2>2, <1>a DEF NoRun
  <2>4. pc = "adopt" => current = Len(runs) /\ Usable(Conclusion) /\ ~CanRearmAudit
    BY <2>2, <1>a DEF LastRun, Usable, Conclusion, CanRearmAudit, Verdicts, LeftVerdict, Green
  <2>5. ~Prepares /\ ~Posts /\ ~Finds /\ ~RunsAgain /\ ~Charges /\ ~PostsFirst
    BY <2>2 DEF Prepares, Posts, Finds, RunsAgain, MayRetry, Charges, PostsFirst, Resting
  <2>6. ~Watches /\ ~Replaces
    BY <2>4 DEF Watches, Replaces
  <2>7. CASE Rests
    <3>1. pc = "watch" => current = Len(runs)
      BY <1>a DEF LastRun
    <3>2. pc = "watch" => ~MayRetry'
      BY <3>1, <2>2, <2>3, <2>7, <1>a
         DEF Rests, MayRetry, Retryable, Conclusion, RetryLeft
    <3> QED
      BY <3>2, <2>1, <2>2, <2>3, <2>7 DEF Rests, CommentKept, DecidedInv
  <2>8. CASE Leaves
    <3>1. comment'.run = comment.run
      BY <2>2, <2>8, <1>a DEF Leaves, LastRun
    <3>2. pc' \in Resting /\ pc' # "watch" /\ runs' = runs
      BY <2>8 DEF Leaves, Resting
    <3> QED
      BY <3>1, <3>2, <2>1, <2>2, <2>8 DEF Leaves, DecidedInv
  <2>9. CASE Schedules
    BY <2>1, <2>2, <2>9 DEF Schedules, CommentKept, DecidedInv, Resting
  <2>10. CASE Enters
    BY <2>1, <2>2, <2>10 DEF Enters, CommentKept, DecidedInv
  <2> QED
    BY <2>5, <2>6, <2>7, <2>8, <2>9, <2>10, <1>a DEF Effect
<1> QED
  BY <1>1, <1>2, CheckpointStep

\* A run that is being bound stays the run the session waited for.
LEMMA BindingRests ==
  ASSUME AdoptionInv, place = "operating", Operating, AuditEnded, UNCHANGED bound, bound # "no"
  PROVE  AuditEnded' /\ current' = current /\ comment'.nonce = comment.nonce
<1>a. /\ Effect /\ Len(runs) \in Nat /\ current \in 0..Len(runs) /\ LastRun
      /\ stage = "audit" /\ stage' = "audit" /\ way # "initial"
      /\ \A i \in 1..Len(runs) : runs[i].phase = "done" => runs'[i] = runs[i]
  BY AuditStep, Facts DEF AdoptionInv, FirstDispatch
<1>b. /\ current \in 1..Len(runs) /\ runs[current].phase = "done" /\ pc \in {"watch", "adopt"}
      /\ (pc = "watch" => ~MayRetry) /\ (pc = "adopt" => Usable(Conclusion))
  BY <1>a DEF AuditEnded, Done, NoRun
<1>1. Rests
  <2>1. ~CanRearmAudit \/ pc # "adopt"
    BY <1>a, <1>b DEF CanRearmAudit, Usable, Green
  <2>2. CASE RecordResult \/ BindRun
    BY <2>2 DEF RecordResult, BindRun, vars, Rests, CommentKept
  <2>3. CASE RunListed \/ RunEnds
    <3>1. Len(runs') = Len(runs)
      <4>1. PICK i \in 1..Len(runs), r \in Run : runs' = [runs EXCEPT ![i] = r]
        BY <2>3, Facts, RunChanges, StagesAssumption
      <4> QED
        BY <4>1, Facts, Altered
    <3> QED
      BY <2>3, <3>1 DEF RunListed, RunEnds, session, Rests, CommentKept
  <2>4. CASE Push \/ ReleaseControlPlane
    BY <2>4 DEF Push, ReleaseControlPlane, session, Rests, CommentKept
  <2>5. ~StoreNonce /\ ~PostDispatch /\ ~PostRearm /\ ~Observe /\ ~Retry /\ ~AdoptFailure
    BY <1>b DEF StoreNonce, PostDispatch, PostRearm, Observe, Retry, MayRetry, AdoptFailure
  <2>6. ~ReserveContinuation /\ ~PostContinuation /\ ~NoContinuation /\ ~StartByPerson
        /\ ~StartScheduled /\ ~Recover /\ ~StartAudit /\ ~DispatchReserved
    BY <1>b DEF ReserveContinuation, PostContinuation, NoContinuation, StartByPerson,
       StartScheduled, Recover, StartAudit, DispatchReserved
  <2>7. ~ReplaceAudit /\ ~TakeResult /\ ~FailAudit /\ ~EndSession(Throw) /\ ~EndSession(Kill)
    BY <2>1, <1>b DEF ReplaceAudit, RearmAudit, TakeResult, FailAudit, EndSession
  <2> QED
    BY <2>2, <2>3, <2>4, <2>5, <2>6, <2>7 DEF Operating, StageStep
<1>2. runs'[current] = runs[current] /\ UNCHANGED <<pc, current, used, way>>
      /\ comment'.nonce = comment.nonce
  BY <1>1, <1>a, <1>b DEF Rests, CommentKept
<1>3. /\ pc' = "watch" => ~MayRetry'
      /\ pc' = "adopt" => Usable(Conclusion)'
  BY <1>2, <1>a, <1>b DEF MayRetry, Retryable, RetryLeft, Usable, Conclusion
<1> QED
  BY <1>2, <1>3, <1>b DEF AuditEnded, Done, NoRun

LEMMA BoundKept ==
  ASSUME AdoptionInv, place = "operating", Operating
  PROVE  BoundInv'
<1>a. /\ BoundInv /\ LastRun
      /\ checkpoint \in
           [head : 0..MaxMoves, nonce : Nat, run : 0..Len(runs), decided : BOOLEAN,
            attempts : 0..LegacyAdoptionAuditMaxAttempts]
  BY Facts DEF AdoptionInv, AdoptionTypeOK
<1>1. CASE BindRun
  <2>1. /\ AuditEnded /\ bound' = "bound" /\ UNCHANGED vars /\ result' = result
        /\ checkpoint'.run = current /\ checkpoint'.nonce = comment.nonce
        /\ checkpoint'.decided = checkpoint.decided
    BY <1>1, <1>a DEF BindRun
  <2>2. AuditEnded'
    BY <2>1 DEF vars, AuditEnded, Done, MayRetry, Retryable, RetryLeft, Usable, Conclusion
  <2>3. result # NoRun => checkpoint'.decided /\ checkpoint'.run = result
    BY <1>1, <1>a, BindKeeps DEF BoundInv
  <2> QED
    BY <2>1, <2>2, <2>3 DEF BoundInv, vars
<1>2. CASE RecordResult
  <2>1. /\ AuditEnded /\ bound = "bound" /\ bound' = "recorded" /\ UNCHANGED vars
        /\ result' = result
        /\ checkpoint'.run = checkpoint.run /\ checkpoint'.nonce = checkpoint.nonce
        /\ checkpoint'.decided
    BY <1>2, <1>a DEF RecordResult
  <2>2. AuditEnded'
    BY <2>1 DEF vars, AuditEnded, Done, MayRetry, Retryable, RetryLeft, Usable, Conclusion
  <2> QED
    BY <2>1, <2>2, <1>a DEF BoundInv, vars
<1>3. CASE TakeResult
  BY <1>3, <1>a DEF TakeResult, TakesResult, BoundInv
<1>4. CASE FailAudit \/ EndSession(Throw) \/ EndSession(Kill)
  BY <1>4, <1>a DEF FailAudit, EndSession, BoundInv
<1>5. CASE UNCHANGED <<bound, checkpoint, result>>
  <2>1. CASE bound = "no"
    BY <1>5, <2>1, <1>a DEF BoundInv
  <2>2. CASE bound # "no"
    <3>1. AuditEnded' /\ current' = current /\ comment'.nonce = comment.nonce
      BY <1>5, <2>2, <1>a, BindingRests DEF BoundInv
    <3> QED
      BY <1>5, <2>2, <3>1, <1>a DEF BoundInv
  <2> QED
    BY <2>1, <2>2
<1> QED
  BY <1>1, <1>2, <1>3, <1>4, <1>5
     DEF Operating, StageStep, adoption, StartAudit, DispatchReserved, ReplaceAudit
--------------------------------------------------------------------------------
(* The invariant and what follows from it.                                  *)

LEMMA AdoptionStep == AdoptionInv /\ [AdoptionNext]_allVars => AdoptionInv'
<1> SUFFICES ASSUME AdoptionInv, [AdoptionNext]_allVars PROVE AdoptionInv'
  OBVIOUS
<1>1. CASE AdoptionNext
  <2>1. IInv' /\ AdoptionTypeOK'
    BY <1>1, StageKept, AdoptionTyped
  <2>2. Agreement'
    <3>1. CASE place = "operating" /\ Operating
      <4>1. EarlyInv'
        BY <3>1, AuditStep DEF EarlyInv, Early
      <4> QED
        BY <3>1, <4>1, FirstDispatchKept, NamedRunKept, DecidedKept, BoundKept DEF Agreement
    <3> QED
      BY <1>1, <3>1, OutsideKept, Kinds DEF AdoptionInv
  <2> QED
    BY <2>1, <2>2 DEF AdoptionInv, Agreement
<1>2. CASE UNCHANGED allVars
  <2>1. IInv'
    BY <1>2, Step DEF AdoptionInv, allVars
  <2>2. AdoptionTypeOK'
    BY <1>2, <2>1 DEF AdoptionInv, IInv, AdoptionTypeOK, allVars, vars, adoption
  <2>3. EarlyInv' /\ FirstDispatch' /\ NamedRun'
    BY <1>2 DEF AdoptionInv, EarlyInv, FirstDispatch, NamedRun, allVars, vars, adoption
  <2>4. DecidedInv' /\ BoundInv'
    BY <1>2 DEF AdoptionInv, DecidedInv, BoundInv, allVars, vars, adoption, AuditEnded, Done,
       MayRetry, Retryable, RetryLeft, Usable, Conclusion
  <2> QED
    BY <2>1, <2>2, <2>3, <2>4 DEF AdoptionInv
<1> QED
  BY <1>1, <1>2

\* The inductive invariant of the adoption, and of a stage that is no adoption, holds in
\* every state of every run of the two comments.
THEOREM AdoptionInvariance == AdoptionSpec => []AdoptionInv
BY InitAdoption, AdoptionStep, PTL DEF AdoptionSpec

\* The checkpoint, the state comment and what a session holds of an adoption have their
\* types; the audit budget of the checkpoint is never exceeded, over all heads.
THEOREM AdoptionTypes == AdoptionSpec => []AdoptionTypeOK
<1>1. AdoptionInv => AdoptionTypeOK
  BY DEF AdoptionInv
<1> QED
  BY <1>1, AdoptionInvariance, PTL

\* The checkpoint and the state comment agree on the verdict of the audit, wherever a
\* session ends between the binding of the run, the record and the state comment.
THEOREM CommentsAgree == AdoptionSpec => []CheckpointAgrees
<1>1. ASSUME AdoptionInv
      PROVE  CheckpointAgrees
  <2>1. EarlyInv /\ NamedRun /\ DecidedInv /\ BoundInv
    BY <1>1 DEF AdoptionInv
  <2>2. ASSUME checkpoint.decided
        PROVE  /\ checkpoint.run = Len(runs) /\ checkpoint.run # NoRun
               /\ runs[checkpoint.run].nonce = checkpoint.nonce
               /\ runs[checkpoint.run].phase = "done"
               /\ Usable(runs[checkpoint.run].conclusion)
    <3>1. place = "operating" /\ stage = "audit" /\ way # "initial"
      BY <1>1, <2>1, <2>2, Facts DEF EarlyInv, AdoptionInv, FirstDispatch
    <3>2. /\ checkpoint.run = Len(runs) /\ checkpoint.run # NoRun
          /\ comment.run = checkpoint.run /\ comment.nonce = checkpoint.nonce
          /\ runs[checkpoint.run].phase = "done" /\ runs[checkpoint.run].conclusion \in Verdicts
      BY <2>1, <2>2 DEF DecidedInv
    <3>3. runs[checkpoint.run].nonce = checkpoint.nonce
      BY <2>1, <3>1, <3>2 DEF NamedRun
    <3> QED
      BY <3>1, <3>2, <3>3 DEF Usable, Verdicts, LeftVerdict
  <2>3. result # NoRun => checkpoint.decided /\ checkpoint.run = result
    BY <2>1 DEF BoundInv
  <2> QED
    BY <2>2, <2>3 DEF CheckpointAgrees
<1> QED
  BY <1>1, AdoptionInvariance, PTL

\* The audit of an adopted pull request never runs twice at a time, although two comments
\* remember its nonce and a session may die between the two writes.
THEOREM AdoptedAuditsLiveAlone == AdoptionSpec => []OneLiveRun
<1>1. AdoptionInv => OneLiveRun
  BY LivesAlone DEF AdoptionInv
<1> QED
  BY <1>1, AdoptionInvariance, PTL

\* The audit of an adopted pull request is dispatched again at most once for a failure of
\* its infrastructure.
THEOREM AdoptedAuditsRetryOnce == AdoptionSpec => []RetriedOnce
<1>1. AdoptionInv => RetriedOnce
  BY RetriesAreOne DEF AdoptionInv
<1> QED
  BY <1>1, AdoptionInvariance, PTL

\* Nothing is dispatched after the audit of an adopted pull request has left its verdict.
THEOREM AdoptedVerdictStands == AdoptionSpec => []ResultStands
<1>1. AdoptionInv => ResultStands
  BY NothingFollows DEF AdoptionInv
<1> QED
  BY <1>1, AdoptionInvariance, PTL

--------------------------------------------------------------------------------
(* An adopted audit keeps the promise of a stage.                          *)

LEMMA UnrunPaid ==
  ASSUME stage' = "audit", DOMAIN runs' = {}, Len(runs') = 0, plane' \in Nat,
         checkout' <= plane', checkout' \in Nat, used' = 0, comment'.retries = 0, pc' # "rearmed"
  PROVE  PaidInv'
<1>1. Cardinality(Rearms)' = 0 /\ LastPlane' = 0
  BY FS_EmptySet DEF Rearms, LastPlane
<1> QED
  BY <1>1 DEF PaidInv, RearmsPaid, FirstIsFirst, Unspent

LEMMA PaidKept ==
  ASSUME AdoptionInv, PaidInv, AdoptionNext
  PROVE  PaidInv'
<1>a. /\ IInv /\ TypeOK /\ comment \in Comment /\ plane \in Nat /\ checkout \in Nat
      /\ Len(runs) \in Nat /\ DOMAIN runs = 1..Len(runs)
  BY Facts, BoundsAssumption DEF AdoptionInv, TypeOK
<1>b. stage = "audit" => checkout <= plane
  BY DEF PaidInv, RearmsPaid
<1>1. CASE Next \/ UNCHANGED vars
  BY <1>1, <1>a, StepPaid
<1>2. CASE BeginAdoption
  <2>1. /\ stage = "audit" /\ Len(runs) = 0 /\ pc = "none" /\ used = 0 /\ comment.retries = 0
    BY <1>2 DEF BeginAdoption, AdoptionInv, EarlyInv, Early
  <2>2. UNCHANGED <<stage, runs, comment, pc, used, plane>> /\ checkout' = plane
    BY <1>2 DEF BeginAdoption
  <2> QED
    BY <2>1, <2>2, <1>a, UnrunPaid
<1>3. CASE StoreState
  <2>1. /\ stage = "audit" /\ Len(runs) = 0 /\ used = 0 /\ comment.retries = 0
    BY <1>3 DEF StoreState, AdoptionInv, EarlyInv, Early
  <2>2. /\ UNCHANGED <<stage, runs, used, checkout, plane>> /\ pc' = "lookup"
        /\ comment'.retries = comment.retries
    BY <1>3, <1>a DEF StoreState, Comment
  <2> QED
    BY <2>1, <2>2, <1>a, <1>b, UnrunPaid
<1>4. CASE place = "operating" /\ (StartAudit \/ DispatchReserved)
  <2>1. /\ stage = "audit" /\ Len(runs) = 0 /\ used = 0 /\ comment.retries = 0
    BY <1>4 DEF StartAudit, DispatchReserved, ChargedHere, AdoptionInv, EarlyInv, FirstDispatch
  <2>2. /\ UNCHANGED <<stage, runs, used, checkout, plane>> /\ pc' \in {"lookup", "dispatched"}
        /\ comment'.retries = comment.retries
    BY <1>4, <1>a DEF StartAudit, DispatchReserved, Comment, github
  <2> QED
    BY <2>1, <2>2, <1>a, <1>b, UnrunPaid
<1>5. CASE place \in Early /\ EarlyStep
  BY <1>1, <1>2, <1>5 DEF EarlyStep, Refreeze, ReserveAudit, Abandon, MoveHead, Next
<1> QED
  BY <1>1, <1>3, <1>4, <1>5, Kinds, AsStage DEF AdoptionInv

LEMMA AdoptionPromises ==
  ASSUME AdoptionInv, PaidInv, stage # "hygiene", AdoptionNext
  PROVE  Promise!Next \/ UNCHANGED Promise!vars
<1>1. CASE Next \/ UNCHANGED vars
  BY <1>1, PromiseOfStep DEF AdoptionInv
<1>2. CASE UNCHANGED <<runs, plane>>
  BY <1>2, PromiseOfQuiet
<1>3. CASE StoreState \/ StartAudit \/ DispatchReserved
  BY <1>2, <1>3 DEF StoreState, StartAudit, DispatchReserved, github
<1>4. CASE place \in Early /\ EarlyStep
  BY <1>1, <1>2, <1>4 DEF EarlyStep, BeginAdoption, Refreeze, ReserveAudit, Abandon, MoveHead,
     Next, vars
<1> QED
  BY <1>1, <1>3, <1>4, Kinds, AsStage DEF AdoptionInv

LEMMA AdoptionBegins ==
  ASSUME AdoptionInit
  PROVE  PaidInv /\ Promise!Init
<1>1. CASE Init
  BY <1>1, InitPaid, PromiseOfInit DEF Init, Begin
<1>2. CASE Begin("none") /\ stage = "audit"
  <2>1. /\ DOMAIN runs = {} /\ Len(runs) = 0 /\ pc = "none" /\ used = 0
        /\ comment.retries = 0 /\ plane = 0 /\ checkout = 0
    BY <1>2, EmptySeq DEF Begin
  <2>2. Cardinality(Rearms) = 0
    BY <2>1, FS_EmptySet DEF Rearms
  <2>3. PaidInv
    BY <2>1, <2>2, <1>2 DEF PaidInv, RearmsPaid, FirstIsFirst, LastPlane, Unspent
  <2>4. Promise!Init
    BY <1>2, <2>1, PromiseOfInit
  <2> QED
    BY <2>3, <2>4
<1> QED
  BY <1>1, <1>2 DEF AdoptionInit

\* The audit of an adopted pull request, and every remediation and audit of another delivery,
\* implement StagePromise, though an adoption charges, binds and records its audit in two comments
\* and begins it from a place of its own.
THEOREM AdoptionImplements == AdoptionSpec => StagePromiseKept
<1>1. AdoptionInit => PaidInv /\ (stage # "hygiene" => Promise!Init)
  BY AdoptionBegins
<1>2. AdoptionInv /\ PaidInv /\ [AdoptionNext]_allVars => PaidInv'
  BY PaidKept, StepPaid DEF AdoptionInv, allVars
<1>3. AdoptionInv /\ PaidInv /\ [AdoptionNext]_allVars
        => [stage # "hygiene" => Promise!Next]_(Promise!vars)
  BY AdoptionPromises, PromiseOfQuiet DEF allVars, vars
<1> QED
  BY <1>1, <1>2, <1>3, AdoptionInvariance, PTL DEF AdoptionSpec, StagePromiseKept
================================================================================
