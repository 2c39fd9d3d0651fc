------------------------ MODULE DeliveryController_safety -----------------------
(***************************************************************************)
(* The safety of the delivery controller for any number of heads, sessions, *)
(* crashes and releases of the control plane, any risk profiles and any     *)
(* ceilings: budgets, effective risk, evidence, and the release status; then *)
(* that no success stands while a candidate is evaluated, that every launch  *)
(* was paid for, that an escalation is kept, that every step implements      *)
(* ReleasePromise, and that a success is for what the last read showed.      *)
(***************************************************************************)
EXTENDS DeliveryController_types

-----------------------------------------------------------------------------
(* The inductive invariant.                                                  *)

\* What is true of a delivery wherever it is kept, given the risk of the heads,
\* the last head, and the heads on which CI was green and an audit approved.
SoundFor(d, risk, last, green, approved) ==
  /\ d.materialHeadSha <= last
  /\ d.materialHeadSha # NoHead => ~HigherRisk(risk[d.materialHeadSha], d.riskProfile)
  /\ d.ciEvidence # NoHead => d.ciEvidence = d.materialHeadSha /\ d.ciEvidence \in green
  /\ d.auditEvidence.decision = "approved" =>
       d.auditEvidence.candidateSha = d.materialHeadSha /\ d.materialHeadSha \in approved
  /\ CiJustified(d)
Sound(d) == SoundFor(d, headRisk, lastHead, greenHeads, approvedHeads)

\* Where a session holds a state that can be stored.
StoringPcs == {"promoting", "loop", "worker", "recover", "audit", "hygiene", "released"}
\* Where it is on the way to a success, which it stores nothing on.
ReleasePcs == {"gate", "ready", "confirm", "publish"}
HoldingPcs == StoringPcs \cup ReleasePcs
ReadyToRelease == delivery.status = "ready-for-human-merge"

EnvironmentInv ==
  /\ remoteHead <= lastHead
  /\ audit.verdict = "approved" /\ audit.candidate # NoHead => audit.candidate \in approvedHeads

CommentInv == Sound(persistent) /\ CommentLoads

MemoryInv ==
  /\ Sound(delivery) /\ Ready(delivery)
  /\ pc \in StoringPcs => WithinCeilings(delivery)
  /\ pc \in ReleasePcs => WithinCeilings(delivery) /\ ReadyToRelease
  /\ pc # "idle" => SpentAtLeast(persistent, delivery)
  /\ pc = "discover" => persistent = NoDelivery
  /\ pc \notin {"idle", "discover"} => delivery.materialHeadSha \in Heads
  /\ pc = "promote" => delivery.technicalHygiene.promotionRequired

StatusInv ==
  /\ SuccessStatusSound
  /\ \A h \in Heads : commitStatus[h] # "none" => h <= lastHead

SafetyInv == EnvironmentInv /\ CommentInv /\ MemoryInv /\ StatusInv

-----------------------------------------------------------------------------
(* What soundness needs of a step.                                           *)

SoundNext(d) == SoundFor(d, headRisk', lastHead', greenHeads', approvedHeads')

\* The heads, what is known of them and the audit run do not change.
Calm == UNCHANGED <<github, audit, greenOn, approvedOn>>

\* Heads are only added, and what is known of them is not forgotten.
Grows ==
  /\ lastHead' >= lastHead
  /\ \A h \in Heads : h <= lastHead => headRisk'[h] = headRisk[h]
  /\ greenHeads \subseteq greenHeads' /\ approvedHeads \subseteq approvedHeads'

\* The attempts in the comment do not go down, and once it is about a head it stays
\* about one.
Kept ==
  /\ SpentAtLeast(persistent, persistent')
  /\ persistent'.materialHeadSha = NoHead => UNCHANGED persistent

\* A delivery with the same evidence, under a risk that is not lower, is as sound.
LEMMA SoundSame ==
  ASSUME NEW risk, NEW last, NEW green, NEW approved,
         NEW d \in Delivery, NEW e \in Delivery,
         SoundFor(d, risk, last, green, approved), SameEvidence(d, e), CiJustified(e),
         \/ e.riskProfile = d.riskProfile
         \/ ~HigherRisk(d.riskProfile, e.riskProfile)
            /\ \A h \in Heads : risk[h] \in Profiles
  PROVE  SoundFor(e, risk, last, green, approved)
<1>1. d.materialHeadSha # NoHead => d.materialHeadSha \in Heads
  BY MaxHeadAssumption, DeliveryFields DEF HeadOrNone, Heads, NoHead
<1>2. d.riskProfile \in Profiles /\ e.riskProfile \in Profiles
  BY DeliveryFields
<1>3. ASSUME e.materialHeadSha # NoHead
      PROVE  ~HigherRisk(risk[e.materialHeadSha], e.riskProfile)
  BY <1>1, <1>2, <1>3 DEF SoundFor, SameEvidence, HigherRisk, Rank, Profiles
<1> QED
  BY <1>3 DEF SoundFor, SameEvidence

\* A delivery without evidence, under the risk of its head, is sound.
LEMMA SoundFresh ==
  ASSUME NEW risk, NEW last, NEW green, NEW approved, NEW head,
         NEW d \in Delivery, NoEvidence(d, head), Unclaimed(d),
         head <= last, ~HigherRisk(risk[head], d.riskProfile)
  PROVE  SoundFor(d, risk, last, green, approved)
BY UnclaimedJustified DEF SoundFor, NoEvidence, NoAuditEvidence

\* No delivery is sound, ready or charged.
LEMMA NothingIsSound ==
  ASSUME NEW risk, NEW last \in Nat, NEW green, NEW approved
  PROVE  SoundFor(NoDelivery, risk, last, green, approved) /\ Ready(NoDelivery)
BY DEF SoundFor, NoDelivery, CreateDeliveryState, NoHead, NoAuditEvidence, CiJustified, BeyondCi,
       Ready

\* What the steps use of the invariant.
LEMMA SafetyHeld ==
  ASSUME TypeOK, SafetyInv
  PROVE  /\ lastHead \in Nat /\ remoteHead \in Nat /\ remoteHead <= lastHead
         /\ \A h \in Heads : headRisk[h] \in Profiles
         /\ SoundFor(delivery, headRisk, lastHead, greenHeads, approvedHeads)
         /\ SoundFor(persistent, headRisk, lastHead, greenHeads, approvedHeads)
         /\ CiJustified(delivery) /\ CiJustified(persistent) /\ Ready(delivery)
         /\ delivery.materialHeadSha <= lastHead
BY DomainTypes DEF TypeOK, SafetyInv, EnvironmentInv, MemoryInv, CommentInv, Sound, SoundFor

\* A sound delivery stays sound while the environment grows.
LEMMA SoundGrows ==
  ASSUME TypeOK, TypeOK', Grows, NEW d \in Delivery, Sound(d)
  PROVE  SoundNext(d)
<1>1. d.materialHeadSha \in Nat /\ lastHead \in Nat /\ lastHead' \in Nat
  BY MaxHeadAssumption, DeliveryFields, DomainTypes DEF TypeOK, HeadOrNone
<1>2. d.materialHeadSha # NoHead => d.materialHeadSha \in Heads
  BY MaxHeadAssumption, DeliveryFields DEF HeadOrNone, Heads, NoHead
<1>3. d.materialHeadSha <= lastHead'
  BY <1>1 DEF Sound, SoundFor, Grows
<1>4. d.materialHeadSha # NoHead =>
        ~HigherRisk(headRisk'[d.materialHeadSha], d.riskProfile)
  BY <1>2 DEF Sound, SoundFor, Grows
<1> QED
  BY <1>3, <1>4 DEF Sound, SoundFor, SoundNext, Grows

\* A calm step keeps the environment as it is.
LEMMA CalmGrows ==
  ASSUME TypeOK, Calm
  PROVE  Grows /\ (EnvironmentInv => EnvironmentInv')
BY DomainTypes DEF TypeOK, Calm, Grows, EnvironmentInv, github, greenHeads, approvedHeads

\* In a calm step soundness is about the same environment.
LEMMA CalmSound ==
  ASSUME Calm, NEW d
  PROVE  SoundNext(d) <=> SoundFor(d, headRisk, lastHead, greenHeads, approvedHeads)
BY DEF Calm, SoundNext, github, greenHeads, approvedHeads

\* Storing a sound delivery within its ceilings keeps the comment sound.
LEMMA CommentStored ==
  ASSUME TypeOK, NEW d \in Delivery, NEW b, NEW c, Persist(d, b, c),
         SoundNext(d), WithinCeilings(d), SpentAtLeast(persistent, d),
         d.materialHeadSha \in Heads
  PROVE  CommentInv' /\ Kept /\ SpentAtLeast(persistent', d)
<1>1. /\ persistent' = Persisted(d) /\ persistent' \in Delivery
      /\ SameBudget(d, persistent') /\ SameEvidence(d, persistent') /\ CiJustified(persistent')
  BY PersistenceTypes, PersistedFrame DEF Persist, SoundNext, SoundFor
<1>2. WithinCeilings(persistent') /\ SpentAtLeast(d, persistent')
  BY <1>1, SameBudgetWithin
<1>3. SpentAtLeast(persistent', d)
  BY <1>1, DeliveryFields DEF SameBudget, SameAttempts, SpentAtLeast
<1>4. SoundFor(persistent', headRisk', lastHead', greenHeads', approvedHeads')
  BY <1>1, SoundSame DEF SoundNext, SameBudget
<1>5. persistent'.materialHeadSha # NoHead
  BY <1>1, MaxHeadAssumption DEF SameEvidence, Heads, NoHead
<1>6. Kept
  BY <1>1, <1>2, <1>5, SpentTransitive, Held DEF Kept
<1> QED
  BY <1>2, <1>3, <1>4, <1>6 DEF CommentInv, Sound, CommentLoads

\* An unchanged comment stays sound.
LEMMA CommentUnchanged ==
  ASSUME TypeOK, TypeOK', CommentInv, Grows, UNCHANGED persistent
  PROVE  CommentInv' /\ Kept
<1>1. SoundNext(persistent)
  BY SoundGrows, Held DEF CommentInv
<1>2. Kept
  BY Held, DeliveryFields DEF Kept, SpentAtLeast
<1> QED
  BY <1>1, <1>2 DEF CommentInv, SoundNext, Sound, CommentLoads

\* An ended session holds nothing unsound.
LEMMA MemoryEnded ==
  ASSUME TypeOK', EndSession
  PROVE  MemoryInv'
<1>1. lastHead' \in Nat
  BY DomainTypes DEF TypeOK
<1> QED
  BY <1>1, NothingIsSound DEF EndSession, MemoryInv, Sound, StoringPcs, ReleasePcs

\* A session that holds what it has stored is sound.
LEMMA MemoryStored ==
  ASSUME TypeOK, NEW d \in Delivery, delivery' = d, SoundNext(d), Ready(d), WithinCeilings(d),
         d.materialHeadSha \in Heads, SpentAtLeast(persistent', d), pc' \in StoringPcs
  PROVE  MemoryInv'
BY DEF MemoryInv, Sound, SoundNext, StoringPcs, ReleasePcs

\* A session that stores nothing and changes neither its delivery nor, but for a
\* place where it may store, its position, stays sound.
LEMMA MemoryUnchanged ==
  ASSUME TypeOK, TypeOK', MemoryInv, Grows, UNCHANGED <<delivery, persistent>>,
         \/ UNCHANGED pc
         \/ pc \in StoringPcs /\ pc' \in StoringPcs
  PROVE  MemoryInv'
<1>1. SoundNext(delivery)
  BY SoundGrows, Held DEF MemoryInv
<1> QED
  BY <1>1 DEF MemoryInv, Sound, SoundNext, StoringPcs, ReleasePcs, ReadyToRelease

\* Statuses that do not change stay sound.
LEMMA StatusUnchanged ==
  ASSUME TypeOK, TypeOK', StatusInv, Grows, UNCHANGED commitStatus
  PROVE  StatusInv'
<1>1. lastHead \in Nat /\ lastHead' \in Nat /\ Heads \subseteq Nat
  BY DomainTypes DEF TypeOK
<1>2. ASSUME NEW h \in Heads, commitStatus[h] # "none" PROVE h <= lastHead /\ h <= lastHead'
  BY <1>1, <1>2 DEF StatusInv, Grows
<1> QED
  BY <1>2 DEF StatusInv, SuccessStatusSound, Grows

\* Withdrawing a status keeps the statuses sound.
LEMMA StatusLowered ==
  ASSUME TypeOK, TypeOK', StatusInv, Calm, NEW h, h <= lastHead,
         NEW s \in {"pending", "failure"}, SetStatus(h, s)
  PROVE  StatusInv'
<1>1. commitStatus \in [Heads -> CommitStatuses]
  BY DEF TypeOK
<1>2. ASSUME NEW g \in Heads
      PROVE  commitStatus'[g] = IF g = h THEN s ELSE commitStatus[g]
  BY <1>1 DEF SetStatus
<1>3. UNCHANGED <<lastHead, headRisk, greenHeads, approvedHeads>>
  BY DEF Calm, github, greenHeads, approvedHeads
<1> QED
  BY <1>2, <1>3 DEF StatusInv, SuccessStatusSound

-----------------------------------------------------------------------------
(* The shapes of a step.                                                     *)

\* A session stores d: d is sound, within its ceilings, and gives no attempt back.
Storable(d) ==
  /\ Sound(d) /\ WithinCeilings(d) /\ SpentAtLeast(persistent, d)
  /\ d.materialHeadSha \in Heads

\* No status, or one that is not a success, is published.
Lowered ==
  \/ UNCHANGED commitStatus
  \/ \E h \in {delivery.materialHeadSha, remoteHead}, s \in {"pending", "failure"} :
       SetStatus(h, s)

\* What a session in a place where it may store can store: its delivery, and any
\* with the same budget and evidence.
LEMMA SameStorable ==
  ASSUME TypeOK, SafetyInv, pc \in StoringPcs
  PROVE  /\ Storable(delivery) /\ Ready(delivery) /\ CiJustified(delivery)
         /\ \A d \in Delivery :
              /\ SameBudget(delivery, d) =>
                   WithinCeilings(d) /\ SpentAtLeast(persistent, d)
              /\ SameBudget(delivery, d) /\ SameEvidence(delivery, d) /\ CiJustified(d) =>
                   Storable(d)
<1>1. Storable(delivery) /\ Ready(delivery) /\ CiJustified(delivery)
  BY SafetyHeld DEF SafetyInv, MemoryInv, StoringPcs, Storable
<1>2. ASSUME NEW d \in Delivery, SameBudget(delivery, d)
      PROVE  WithinCeilings(d) /\ SpentAtLeast(persistent, d)
  BY <1>1, <1>2, Held, SameBudgetWithin, SpentTransitive DEF Storable
<1>3. ASSUME NEW d \in Delivery, SameBudget(delivery, d), SameEvidence(delivery, d),
             CiJustified(d)
      PROVE  Storable(d)
  <2>1. SoundFor(d, headRisk, lastHead, greenHeads, approvedHeads)
    BY <1>1, <1>3, Held, SoundSame DEF Storable, Sound, SameBudget
  <2> QED
    BY <1>1, <1>2, <1>3, <2>1 DEF Storable, Sound, SameEvidence
<1> QED
  BY <1>1, <1>2, <1>3

\* Statuses that are only lowered stay sound.
LEMMA LoweredSafe ==
  ASSUME TypeOK, TypeOK', SafetyInv, Calm, Lowered
  PROVE  StatusInv'
<1>1. Grows /\ StatusInv
  BY CalmGrows DEF SafetyInv
<1>2. delivery.materialHeadSha <= lastHead /\ remoteHead <= lastHead
  BY SafetyHeld
<1>3. CASE UNCHANGED commitStatus
  BY <1>1, <1>3, StatusUnchanged
<1>4. ASSUME NEW h \in {delivery.materialHeadSha, remoteHead}, NEW s \in {"pending", "failure"},
             SetStatus(h, s)
      PROVE  StatusInv'
  <2>1. h <= lastHead
    BY <1>2
  <2> QED
    BY <1>1, <1>4, <2>1, StatusLowered
<1> QED
  BY <1>3, <1>4 DEF Lowered

\* A session that ends without storing anything.
LEMMA EndedSafe ==
  ASSUME TypeOK, TypeOK', SafetyInv, Calm, EndSession, UNCHANGED persistent, Lowered
  PROVE  SafetyInv' /\ Kept
BY CalmGrows, CommentUnchanged, MemoryEnded, LoweredSafe DEF SafetyInv

\* A session that stores nothing and stays where it may store.
LEMMA UnmovedSafe ==
  ASSUME TypeOK, TypeOK', SafetyInv, Calm, Lowered, UNCHANGED <<delivery, persistent>>,
         UNCHANGED pc \/ (pc \in StoringPcs /\ pc' \in StoringPcs)
  PROVE  SafetyInv' /\ Kept
BY CalmGrows, CommentUnchanged, MemoryUnchanged, LoweredSafe DEF SafetyInv

\* A session that goes on with what it stores.
LEMMA StoredSafe ==
  ASSUME TypeOK, TypeOK', SafetyInv, Calm, Lowered, NEW d \in Delivery, NEW b, NEW c,
         Storable(d), Ready(d), Persist(d, b, c), delivery' = d, pc' \in StoringPcs
  PROVE  SafetyInv' /\ Kept
<1>1. SoundNext(d)
  BY CalmSound DEF Storable, Sound
<1>2. CommentInv' /\ Kept /\ SpentAtLeast(persistent', d)
  BY <1>1, CommentStored DEF Storable
<1>3. MemoryInv'
  BY <1>1, <1>2, MemoryStored DEF Storable
<1> QED
  BY <1>2, <1>3, CalmGrows, LoweredSafe DEF SafetyInv

\* A session that goes on with a delivery it does not store.
LEMMA TakenSafe ==
  ASSUME TypeOK, TypeOK', SafetyInv, Calm, Lowered, NEW d \in Delivery,
         Storable(d), Ready(d), UNCHANGED persistent, delivery' = d, pc' \in StoringPcs
  PROVE  SafetyInv' /\ Kept
<1>1. SoundNext(d) /\ SpentAtLeast(persistent', d)
  BY CalmSound DEF Storable, Sound
<1>2. MemoryInv'
  BY <1>1, MemoryStored DEF Storable
<1> QED
  BY <1>2, CalmGrows, CommentUnchanged, LoweredSafe DEF SafetyInv

\* A session that ends with what it stores.
LEMMA StoredEndedSafe ==
  ASSUME TypeOK, TypeOK', SafetyInv, Calm, Lowered, NEW d \in Delivery, NEW b, NEW c,
         Storable(d), Persist(d, b, c), EndSession
  PROVE  SafetyInv' /\ Kept
<1>1. SoundNext(d)
  BY CalmSound DEF Storable, Sound
<1>2. CommentInv' /\ Kept
  BY <1>1, CommentStored DEF Storable
<1> QED
  BY <1>2, CalmGrows, MemoryEnded, LoweredSafe DEF SafetyInv

\* A session that accepts a material stores it when it is within its ceilings.
LEMMA AcceptMaterialSafe ==
  ASSUME TypeOK, TypeOK', SafetyInv, Calm, NEW d \in Delivery, NEW b,
         Sound(d), Ready(d), SpentAtLeast(persistent, d), d.materialHeadSha \in Heads,
         AcceptMaterial(d, b)
  PROVE  SafetyInv' /\ Kept
<1>1. SoundNext(d) /\ delivery' = d
  BY CalmSound DEF Sound, AcceptMaterial
<1>2. Grows /\ EnvironmentInv'
  BY CalmGrows DEF SafetyInv
<1>3. StatusInv'
  <2>1. d.materialHeadSha <= lastHead /\ StatusInv
    BY DEF Sound, SoundFor, SafetyInv
  <2>2. UNCHANGED commitStatus \/ SetStatus(d.materialHeadSha, "pending")
    BY DEF AcceptMaterial
  <2> QED
    BY <1>2, <2>1, <2>2, StatusUnchanged, StatusLowered
<1>4. CASE d.technicalHygiene.promotionRequired
  <2>1. pc' = "promote" /\ UNCHANGED persistent
    BY <1>4 DEF AcceptMaterial, comment
  <2>2. CommentInv' /\ Kept
    BY <1>2, <2>1, CommentUnchanged DEF SafetyInv
  <2>3. MemoryInv'
    BY <1>1, <1>4, <2>1 DEF MemoryInv, Sound, SoundNext, StoringPcs, ReleasePcs
  <2> QED
    BY <1>2, <1>3, <2>2, <2>3 DEF SafetyInv
<1>5. CASE ~d.technicalHygiene.promotionRequired
  <2>1. /\ pc' = "loop" /\ WithinCeilings(d)
        /\ Persist(d, b, NewMaterialMetadata(d))
    BY <1>5 DEF AcceptMaterial
  <2>2. CommentInv' /\ Kept /\ SpentAtLeast(persistent', d)
    BY <1>1, <2>1, CommentStored
  <2>3. MemoryInv'
    BY <1>1, <2>1, <2>2, MemoryStored DEF StoringPcs
  <2> QED
    BY <1>2, <1>3, <2>2, <2>3 DEF SafetyInv
<1> QED
  BY <1>4, <1>5

-----------------------------------------------------------------------------
(* The initial states and the environment.                                   *)

\* The initial states are safe.
LEMMA InitSafe == Init => SafetyInv
<1> SUFFICES ASSUME Init PROVE SafetyInv
  OBVIOUS
<1>1. EnvironmentInv
  BY DEF Init, EnvironmentInv, NoAuditRun
<1>2. SoundFor(NoDelivery, headRisk, lastHead, greenHeads, approvedHeads) /\ Ready(NoDelivery)
  BY NothingIsSound DEF Init
<1>3. NoDelivery.materialHeadSha = NoHead
  BY DEF NoDelivery, CreateDeliveryState
<1>4. SpentAtLeast(NoDelivery, NoDelivery)
  BY NothingTypes, DeliveryFields DEF SpentAtLeast
<1> QED
  BY <1>1, <1>2, <1>3, <1>4
  DEF Init, SafetyInv, CommentInv, CommentLoads, MemoryInv, Sound, StoringPcs, ReleasePcs,
      StatusInv, SuccessStatusSound

\* A step in which the environment grows and no session or comment changes.
LEMMA GrownSafe ==
  ASSUME TypeOK, TypeOK', SafetyInv, Grows, EnvironmentInv',
         UNCHANGED <<delivery, persistent, pc, commitStatus>>
  PROVE  SafetyInv' /\ Kept
BY CommentUnchanged, MemoryUnchanged, StatusUnchanged DEF SafetyInv

\* A push adds a head.
LEMMA PushGrows ==
  ASSUME TypeOK, TypeOK', SafetyInv, Push, UNCHANGED <<audit, greenOn, approvedOn>>
  PROVE  Grows /\ EnvironmentInv'
<1>1. /\ lastHead \in Nat /\ NewHead = lastHead + 1 /\ lastHead' = NewHead
      /\ remoteHead' = NewHead /\ headRisk \in [Heads -> Profiles]
      /\ greenHeads' = greenHeads /\ approvedHeads' = approvedHeads
  BY DomainTypes DEF TypeOK, Push, NewHead, greenHeads, approvedHeads
<1>2. ASSUME NEW h \in Heads, h <= lastHead
      PROVE  headRisk'[h] = headRisk[h]
  <2>1. h # NewHead
    BY <1>1, <1>2, DomainTypes
  <2> QED
    BY <1>1, <2>1 DEF Push
<1> QED
  BY <1>1, <1>2 DEF Grows, EnvironmentInv, SafetyInv

\* Pushes, base advances, releases of the control plane and workers are safe.
LEMMA EnvironmentSafe ==
  ASSUME TypeOK, TypeOK', SafetyInv, Environment \/ WorkerRuns
  PROVE  SafetyInv' /\ Kept
<1>1. CASE ExternalPush
  <2>1. Push /\ UNCHANGED <<audit, greenOn, approvedOn, delivery, persistent, pc, commitStatus>>
    BY <1>1 DEF ExternalPush, runs, comment, memory, history
  <2> QED
    BY <2>1, PushGrows, GrownSafe
<1>2. CASE WorkerPushes
  <2>1. Push /\ UNCHANGED <<audit, greenOn, approvedOn, delivery, persistent, pc, commitStatus>>
    BY <1>2 DEF WorkerPushes, comment, memory, history
  <2> QED
    BY <2>1, PushGrows, GrownSafe
<1>3. ASSUME UNCHANGED <<remoteHead, lastHead, headRisk, audit, greenOn, approvedOn,
                         delivery, persistent, pc, commitStatus>>
      PROVE  SafetyInv' /\ Kept
  <2>1. Grows /\ EnvironmentInv'
    BY <1>3, DomainTypes DEF TypeOK, Grows, SafetyInv, EnvironmentInv, greenHeads, approvedHeads
  <2> QED
    BY <1>3, <2>1, GrownSafe
<1>4. CASE BaseAdvance
  BY <1>3, <1>4 DEF BaseAdvance, runs, comment, memory, history
<1>5. CASE ControlPlaneRelease
  BY <1>3, <1>5 DEF ControlPlaneRelease, runs, comment, memory, history
<1>6. CASE WorkerEndsWithoutPush
  BY <1>3, <1>6 DEF WorkerEndsWithoutPush, github, comment, memory, history
<1> QED
  BY <1>1, <1>2, <1>4, <1>5, <1>6 DEF Environment, WorkerRuns

-----------------------------------------------------------------------------
(* The steps of a session.                                                   *)

\* Material is discovered, assessed and promoted safely.
LEMMA MaterialStepSafe ==
  ASSUME TypeOK, TypeOK', SafetyInv, MaterialStep
  PROVE  SafetyInv' /\ Kept
<1>0. MemoryInv /\ CommentInv
  BY DEF SafetyInv
<1>1. CASE DiscoverMaterial
  <2> DEFINE created == CreateOperationalDelivery(headRisk[remoteHead], remoteHead)
             d == [created EXCEPT !.implementationAttempts = bootstrapAttempts]
  <2>1. /\ created \in Delivery /\ created.riskProfile = headRisk[remoteHead]
        /\ NoEvidence(created, remoteHead) /\ Unclaimed(created)
    BY Held, CreateOperationalDeliveryType, CreateOperationalDeliveryFrame
  <2>2. delivery' = d /\ pc' = "assess" /\ Calm /\ UNCHANGED <<persistent, commitStatus>>
    BY <1>1 DEF DiscoverMaterial, Calm, runs, comment, history
  <2>3. persistent = NoDelivery
    BY <1>0, <1>1 DEF DiscoverMaterial, MemoryInv
  <2> HIDE DEF created
  <2>4. bootstrapAttempts \in Nat
    BY DEF TypeOK
  <2>5. /\ d \in Delivery /\ NoEvidence(d, remoteHead) /\ Unclaimed(d)
        /\ d.riskProfile = headRisk[remoteHead]
    BY <2>1, <2>4 DEF Delivery, NoEvidence, Unclaimed, BeyondCi
  <2> HIDE DEF d
  <2>6. Sound(d) /\ Ready(d)
    <3>1. ~HigherRisk(headRisk[remoteHead], d.riskProfile)
      BY <2>5, Held DEF HigherRisk, Rank
    <3> QED
      BY <2>5, <3>1, SafetyHeld, SoundFresh, UnclaimedJustified DEF Sound
  <2>7. SpentAtLeast(persistent, d)
    BY <2>3, <2>5, DeliveryFields DEF NoDelivery, CreateDeliveryState, SpentAtLeast
  <2>8. Grows /\ EnvironmentInv' /\ SoundNext(d)
    BY <2>2, <2>6, CalmGrows, CalmSound DEF SafetyInv, Sound
  <2>9. MemoryInv'
    BY <2>2, <2>5, <2>6, <2>7, <2>8, Held
    DEF MemoryInv, Sound, SoundNext, StoringPcs, ReleasePcs, NoEvidence
  <2> QED
    BY <1>0, <2>2, <2>8, <2>9, CommentUnchanged, StatusUnchanged DEF SafetyInv
<1>2. CASE AssessMaterial
  <2> DEFINE h == HygieneFor(delivery, worker.head, worker.hygiene)
  <2>1. h \in Hygiene
    BY Held, HygieneForType
  <2> HIDE DEF h
  <2>2. /\ AssessedMaterial \in Delivery /\ SameBudget(delivery, AssessedMaterial)
        /\ SameEvidence(delivery, AssessedMaterial)
        /\ CiJustified(AssessedMaterial) /\ Ready(AssessedMaterial)
    BY <2>1, Held, SafetyHeld, ApplyHygieneType, ApplyHygieneFrame DEF AssessedMaterial, h
  <2>3. Sound(AssessedMaterial)
    BY <2>2, Held, SafetyHeld, SoundSame DEF Sound, SameBudget
  <2>4. SpentAtLeast(persistent, delivery) /\ delivery.materialHeadSha \in Heads
    BY <1>0, <1>2 DEF AssessMaterial, MemoryInv
  <2>5. SpentAtLeast(persistent, AssessedMaterial) /\ AssessedMaterial.materialHeadSha \in Heads
    BY <2>2, <2>4, Held, SameBudgetWithin, SpentTransitive DEF SameEvidence
  <2>6. Calm /\ AcceptMaterial(AssessedMaterial, prBase)
    BY <1>2 DEF AssessMaterial, Calm, runs, history
  <2> QED
    BY <2>2, <2>3, <2>5, <2>6, AcceptMaterialSafe
<1>3. CASE MaterialUnstorable
  BY <1>3, EndedSafe DEF MaterialUnstorable, Calm, runs, history, comment, Lowered
<1>4. CASE ReservePromotion
  <2>1. /\ Promoted \in Delivery /\ SameAttempts(delivery, Promoted)
        /\ SameEvidence(delivery, Promoted) /\ CiJustified(Promoted)
        /\ ~HigherRisk(delivery.riskProfile, Promoted.riskProfile)
        /\ Promoted.status = delivery.status
    <3>1. PromotedRisk \in Profiles
      BY Held DEF PromotedRisk, Profiles
    <3> QED
      BY <1>4, <3>1, Held, SafetyHeld, PromoteRiskType, PromoteRiskFrame
      DEF Promoted, ReservePromotion, CanPromoteRisk
  <2>2. Sound(Promoted)
    BY <2>1, Held, SafetyHeld, SoundSame DEF Sound
  <2>3. pc \in {"promote", "loop"}
    BY <1>4 DEF ReservePromotion, AwaitsPromotion, Pending, AtLoop
  <2>4. /\ SpentAtLeast(persistent, delivery) /\ delivery.materialHeadSha \in Heads
    BY <1>0, <2>3 DEF MemoryInv
  <2>5. SpentAtLeast(persistent, Promoted) /\ Promoted.materialHeadSha \in Heads
    BY <2>1, <2>4 DEF SameAttempts, SpentAtLeast, SameEvidence
  <2>6. Storable(Promoted)
    BY <1>4, <2>2, <2>5 DEF Storable, ReservePromotion
  <2> DEFINE c == [controller EXCEPT !.nextAction = "dispatch-technical-hygiene",
                     !.hygieneRun = "reserved",
                     !.technicalHygiene = IF Pending THEN NoHygiene
                                          ELSE controller.technicalHygiene]
  <2>7. /\ Persist(Promoted, prBase, c) /\ Calm /\ UNCHANGED commitStatus
        /\ delivery' = Promoted /\ pc' = "promoting"
    BY <1>4 DEF ReservePromotion, Calm, history
  <2> HIDE DEF c
  <2>8. delivery.technicalHygiene.promotionRequired
    BY <1>0, <1>4 DEF MemoryInv, ReservePromotion, AwaitsPromotion
  <2>9. Ready(Promoted)
    BY <1>0, <2>1, <2>8 DEF MemoryInv, Ready, HygienePassed
  <2> QED
    BY <2>6, <2>1, <2>7, <2>9, StoredSafe DEF Lowered, StoringPcs
<1>5. CASE PromotionFailed
  BY <1>5, EndedSafe DEF PromotionFailed, Calm, runs, history, comment, Lowered
<1>6. ASSUME pc = "promoting", PromotionHolds
      PROVE  /\ PromotionResult \in Delivery /\ Storable(PromotionResult)
             /\ Ready(PromotionResult)
  <2> DEFINE h == HygieneFor(delivery, hygiene.examined, hygiene.result)
  <2>1. h \in Hygiene
    BY <1>6, Held, HygieneForType DEF PromotionHolds, HygieneRun
  <2> HIDE DEF h
  <2>2. /\ PromotionResult \in Delivery /\ SameBudget(delivery, PromotionResult)
        /\ SameEvidence(delivery, PromotionResult)
        /\ CiJustified(PromotionResult) /\ Ready(PromotionResult)
    BY <2>1, Held, SafetyHeld, ApplyHygieneType, ApplyHygieneFrame DEF PromotionResult, h
  <2> QED
    BY <1>6, <2>2, SameStorable DEF StoringPcs
<1>7. CASE MaterialPromoted
  <2>1. /\ Calm /\ AcceptMaterial(PromotionResult, prBase) /\ pc = "promoting"
        /\ PromotionHolds
    BY <1>7 DEF MaterialPromoted, Calm, runs, history
  <2> QED
    BY <1>6, <2>1, AcceptMaterialSafe DEF Storable
<1>8. CASE PendingPromoted
  <2> DEFINE c == [controller EXCEPT !.technicalHygiene = PromotionResult.technicalHygiene]
  <2>1. /\ Calm /\ Persist(PromotionResult, prBase, c) /\ pc = "promoting" /\ PromotionHolds
        /\ UNCHANGED commitStatus /\ delivery' = PromotionResult /\ pc' = "loop"
    BY <1>8 DEF PendingPromoted, Calm, runs, history
  <2> HIDE DEF c
  <2> QED
    BY <1>6, <2>1, StoredSafe DEF Lowered, StoringPcs
<1> QED
  BY <1>1, <1>2, <1>3, <1>4, <1>5, <1>7, <1>8 DEF MaterialStep

\* A delivery that starts over with the remote head, under its risk, is storable.
LEMMA FreshStorable ==
  ASSUME TypeOK, SafetyInv, pc \in StoringPcs, NEW d \in Delivery,
         SameAttempts(delivery, d), NoEvidence(d, remoteHead), Unclaimed(d),
         ~HigherRisk(headRisk[remoteHead], d.riskProfile), WithinCeilings(d)
  PROVE  Storable(d) /\ Ready(d)
<1>1. Sound(d) /\ Ready(d)
  BY SafetyHeld, SoundFresh, UnclaimedJustified DEF Sound
<1>2. SpentAtLeast(persistent, d)
  BY SameStorable DEF Storable, SameAttempts, SpentAtLeast
<1> QED
  BY <1>1, <1>2, Held DEF Storable, NoEvidence

\* Required CI is observed safely.
LEMMA CiStepSafe ==
  ASSUME TypeOK, TypeOK', SafetyInv, CiStep
  PROVE  SafetyInv' /\ Kept
<1>1. CASE InitialObservesDrift
  <2> DEFINE d == Classify(RecordHeadDrift(delivery, remoteHead), headRisk[remoteHead])
             c == [controller EXCEPT
                     !.nextAction = "external-head-drift-requires-controller-resume",
                     !.technicalHygiene = NoHygiene]
  <2>1. /\ pc \in StoringPcs /\ HeadDrifted /\ EndSession /\ Calm /\ UNCHANGED commitStatus
        /\ (WithinCeilings(d) /\ Persist(d, base, c)) \/ UNCHANGED comment
    BY <1>1
    DEF InitialObservesDrift, InitialWaitsForCi, HygieneBlocked, AtLoop, StoringPcs, Calm,
        runs, history
  <2>2. /\ d \in Delivery /\ SameAttempts(delivery, d) /\ NoEvidence(d, remoteHead)
        /\ Unclaimed(d) /\ d.riskProfile = headRisk[remoteHead]
    BY <2>1, Held, RecordHeadDriftType, ClassifyType, HeadDriftFrame DEF HeadDrifted
  <2> HIDE DEF d, c
  <2>3. ~HigherRisk(headRisk[remoteHead], d.riskProfile)
    BY <2>2, Held DEF HigherRisk, Rank
  <2>4. CASE WithinCeilings(d) /\ Persist(d, base, c)
    BY <2>1, <2>2, <2>3, <2>4, FreshStorable, StoredEndedSafe DEF Lowered
  <2>5. CASE UNCHANGED comment
    BY <2>1, <2>5, EndedSafe DEF comment, Lowered
  <2> QED
    BY <2>1, <2>4, <2>5
<1>2. CASE InitialBlockedByHygiene
  BY <1>2, EndedSafe DEF InitialBlockedByHygiene, Calm, runs, history, comment, Lowered
<1>3. CASE ResumeObservesDrift
  <2> DEFINE d == RebuildCiPendingState(headRisk[remoteHead], remoteHead, delivery)
             c == [controller EXCEPT !.nextAction = "observe-ci",
                                     !.technicalHygiene = NoHygiene]
  <2>1. /\ pc \in StoringPcs /\ Calm /\ UNCHANGED commitStatus
        /\ \/ /\ WithinCeilings(d) /\ delivery' = d /\ Persist(d, base, c) /\ UNCHANGED pc
           \/ EndSession /\ UNCHANGED comment
    BY <1>3 DEF ResumeObservesDrift, AtLoop, StoringPcs, Calm, runs, history
  <2>2. /\ d \in Delivery /\ SameAttempts(delivery, d) /\ NoEvidence(d, remoteHead)
        /\ Unclaimed(d) /\ d.riskProfile = headRisk[remoteHead]
    BY Held, PersistenceTypes, RebuildCiPendingStateFrame
  <2> HIDE DEF d, c
  <2>3. ~HigherRisk(headRisk[remoteHead], d.riskProfile)
    BY <2>2, Held DEF HigherRisk, Rank
  <2>4. CASE WithinCeilings(d) /\ delivery' = d /\ Persist(d, base, c) /\ UNCHANGED pc
    BY <2>1, <2>2, <2>3, <2>4, FreshStorable, StoredSafe DEF Lowered
  <2>5. CASE EndSession /\ UNCHANGED comment
    BY <2>1, <2>5, EndedSafe DEF comment, Lowered
  <2> QED
    BY <2>1, <2>4, <2>5
<1>4. CASE CiSucceeds
  <2> DEFINE d == ApplyCiSuccess(delivery)
             c == [controller EXCEPT !.nextAction = d.status]
  <2>1. /\ pc = "loop" /\ delivery' = d /\ Persist(d, prBase, c) /\ UNCHANGED pc
        /\ delivery.materialHeadSha = remoteHead
        /\ UNCHANGED <<github, audit, approvedOn, commitStatus>>
        /\ greenOn' = [greenOn EXCEPT ![remoteHead] = @ \cup {base}]
    BY <1>4 DEF CiSucceeds, AwaitsCi, CanRecordCi, runs
  <2>2. /\ d \in Delivery /\ SameBudget(delivery, d) /\ d.materialHeadSha = remoteHead
        /\ d.ciEvidence = remoteHead /\ d.auditEvidence = delivery.auditEvidence
        /\ CiJustified(d) /\ Ready(d)
    BY <2>1, Held, ApplyResultTypes, ApplyCiSuccessFrame
  <2> HIDE DEF d, c
  <2>3. /\ greenHeads \subseteq greenHeads' /\ remoteHead \in greenHeads'
        /\ approvedHeads' = approvedHeads
    <3>1. greenOn \in [Heads -> SUBSET Bases] /\ remoteHead \in Heads
      BY DEF TypeOK
    <3>2. \A h \in Heads : greenOn'[h] = IF h = remoteHead THEN greenOn[h] \cup {base}
                                         ELSE greenOn[h]
      BY <2>1, <3>1
    <3> QED
      BY <2>1, <3>1, <3>2 DEF greenHeads, approvedHeads
  <2>4. Grows /\ EnvironmentInv'
    BY <2>1, <2>3, SafetyHeld DEF Grows, github, SafetyInv, EnvironmentInv
  <2>5. WithinCeilings(d) /\ SpentAtLeast(persistent, d)
    BY <2>1, <2>2, SameStorable DEF StoringPcs
  <2>6. SoundNext(d)
    <3>1. Sound(delivery)
      BY DEF SafetyInv, MemoryInv
    <3> QED
      BY <2>1, <2>2, <2>3, <3>1 DEF Sound, SoundNext, SoundFor, SameBudget, github
  <2>7. CommentInv' /\ Kept /\ SpentAtLeast(persistent', d)
    BY <2>1, <2>2, <2>5, <2>6, Held, CommentStored
  <2>8. MemoryInv'
    BY <2>1, <2>2, <2>5, <2>6, <2>7, Held, MemoryStored DEF StoringPcs
  <2> QED
    BY <2>1, <2>4, <2>7, <2>8, StatusUnchanged DEF SafetyInv
<1>5. CASE CiFailsActionably \/ CiFailsExternally
  <2>1. ASSUME NEW class \in {"actionable", "external"}, AwaitsCi
        PROVE  LET d == RecordCiFailure(delivery, class)
               IN  d \in Delivery /\ Storable(d) /\ Ready(d)
    <3> DEFINE d == RecordCiFailure(delivery, class)
    <3>1. pc \in StoringPcs /\ delivery.status = "ci-pending"
      BY <2>1 DEF AwaitsCi, CanRecordCi, StoringPcs
    <3>2. /\ d \in Delivery /\ SameBudget(delivery, d) /\ Unclaimed(d)
          /\ d.materialHeadSha = delivery.materialHeadSha
          /\ d.auditEvidence = delivery.auditEvidence
          /\ d.ciEvidence \in {NoHead, delivery.ciEvidence}
      BY <3>1, Held, RecordCiFailureType, RecordCiFailureFrame
    <3> HIDE DEF d
    <3>3. Sound(d) /\ Ready(d)
      BY <3>2, SafetyHeld, UnclaimedJustified DEF Sound, SoundFor, SameBudget
    <3> QED
      BY <3>1, <3>2, <3>3, SameStorable DEF Storable, d
  <2>2. CASE CiFailsActionably
    <3> DEFINE d == RecordCiFailure(delivery, "actionable")
               c == [controller EXCEPT !.nextAction = d.status]
    <3>1. /\ AwaitsCi /\ Calm /\ delivery' = d /\ Persist(d, prBase, c) /\ UNCHANGED pc
          /\ pc \in StoringPcs /\ UNCHANGED commitStatus
      BY <2>2 DEF CiFailsActionably, AwaitsCi, StoringPcs, Calm, runs, history
    <3>2. d \in Delivery /\ Storable(d) /\ Ready(d)
      BY <2>1, <3>1
    <3> HIDE DEF d, c
    <3> QED
      BY <3>1, <3>2, StoredSafe DEF Lowered
  <2>3. CASE CiFailsExternally
    <3> DEFINE d == RecordCiFailure(delivery, "external")
               c == [controller EXCEPT !.nextAction = "external-ci-blocker"]
    <3>1. /\ AwaitsCi /\ Calm /\ Persist(d, prBase, c) /\ EndSession
          /\ SetStatus(delivery.materialHeadSha, "failure")
      BY <2>3 DEF CiFailsExternally, Calm, runs, history
    <3>2. d \in Delivery /\ Storable(d)
      BY <2>1, <3>1
    <3> HIDE DEF d, c
    <3> QED
      BY <3>1, <3>2, StoredEndedSafe DEF Lowered
  <2> QED
    BY <1>5, <2>2, <2>3
<1> QED
  BY <1>1, <1>2, <1>3, <1>4, <1>5 DEF CiStep

\* A session stores its own delivery once more, and goes on or ends.
LEMMA RewrittenSafe ==
  ASSUME TypeOK, TypeOK', SafetyInv, Calm, Lowered, pc \in StoringPcs, NEW b, NEW c,
         Persist(delivery, b, c),
         EndSession \/ (UNCHANGED delivery /\ pc' \in StoringPcs)
  PROVE  SafetyInv' /\ Kept
BY Held, SameStorable, StoredSafe, StoredEndedSafe

\* A session escalates and ends.
LEMMA EscalatedSafe ==
  ASSUME TypeOK, TypeOK', SafetyInv, Calm, Lowered, pc \in StoringPcs, EndSession,
         NEW reason \in Reasons \ {"technical-hygiene"}, NEW b, NEW c,
         Persist(Escalate(delivery, reason), b, c)
  PROVE  SafetyInv' /\ Kept
<1> DEFINE d == Escalate(delivery, reason)
<1>1. d \in Delivery /\ SameBudget(delivery, d) /\ SameEvidence(delivery, d) /\ CiJustified(d)
  BY Held, EscalateType, EscalateFrame, UnclaimedJustified
<1> HIDE DEF d
<1>2. Storable(d) /\ Persist(d, b, c)
  BY <1>1, SameStorable DEF d
<1> QED
  BY <1>1, <1>2, StoredEndedSafe

\* Remediation is safe.
LEMMA WorkerStepSafe ==
  ASSUME TypeOK, TypeOK', SafetyInv, WorkerStep
  PROVE  SafetyInv' /\ Kept
<1>1. CASE ReserveRemediation
  <2> DEFINE d == StartImplementation(delivery)
             c == [controller EXCEPT !.nextAction = "dispatch-remediation",
                                     !.workerRun = "reserved",
                                     !.remediationContext = @ \/ session = "resume"]
             f == [controller EXCEPT !.nextAction = "human-escalation"]
  <2>1. /\ pc = "loop" /\ delivery' = d /\ Calm /\ UNCHANGED commitStatus
        /\ pc' \in {"loop", "worker"}
        /\ Persist(d, prBase, f) \/ Persist(d, prBase, c)
    BY <1>1 DEF ReserveRemediation, Calm, history
  <2>2. /\ d \in Delivery /\ SpentAtLeast(delivery, d) /\ d.riskProfile = delivery.riskProfile
        /\ WithinCeilings(delivery) => WithinCeilings(d)
        /\ SameEvidence(delivery, d) /\ Unclaimed(d)
    BY Held, StartImplementationType, StartImplementationFrame
  <2> HIDE DEF d, c, f
  <2>3. Storable(delivery) /\ CiJustified(d) /\ Ready(d)
    BY <2>1, <2>2, SameStorable, UnclaimedJustified DEF StoringPcs
  <2>4. SpentAtLeast(persistent, d) /\ Sound(d)
    BY <2>2, <2>3, Held, SpentTransitive, SoundSame DEF Storable, Sound
  <2>5. Storable(d)
    BY <2>2, <2>3, <2>4 DEF Storable, SameEvidence
  <2> QED
    BY <2>1, <2>2, <2>3, <2>5, StoredSafe DEF Lowered, StoringPcs
<1>2. CASE LaunchWorker
  BY <1>2, UnmovedSafe DEF LaunchWorker, Calm, comment, memory, Lowered
<1>3. CASE CorrelateWorker
  <2> DEFINE c == [controller EXCEPT !.nextAction = "observe-remediation",
                                     !.workerRun = "observed"]
  <2>1. /\ pc \in StoringPcs /\ Persist(delivery, prBase, c) /\ UNCHANGED <<delivery, pc>>
        /\ Calm /\ UNCHANGED commitStatus
    BY <1>3 DEF CorrelateWorker, StoringPcs, Calm, runs, memory, history
  <2> HIDE DEF c
  <2> QED
    BY <2>1, RewrittenSafe DEF Lowered
<1>4. CASE RecoveryRefused
  BY <1>4, EndedSafe DEF RecoveryRefused, Calm, runs, history, comment, Lowered
<1>5. CASE RearmWorker
  <2> DEFINE c == [controller EXCEPT !.nextAction = "dispatch-remediation-recovery",
                                     !.workerRun = "reserved", !.remediationContext = TRUE,
                                     !.recoveredAt = checkout]
  <2>1. /\ pc \in StoringPcs /\ Persist(delivery, prBase, c) /\ UNCHANGED delivery
        /\ pc' = "worker" /\ Calm /\ UNCHANGED commitStatus
    BY <1>5 DEF RearmWorker, StoringPcs, Calm, history
  <2> HIDE DEF c
  <2> QED
    BY <2>1, RewrittenSafe DEF Lowered, StoringPcs
<1>6. ASSUME NEW phases, WorkerFinished(phases) PROVE pc \in StoringPcs
  BY <1>6 DEF WorkerFinished, StoringPcs
<1>7. CASE WorkerFailed
  <2> DEFINE c == [controller EXCEPT !.nextAction = "remediation-worker-failed"]
  <2>1. /\ pc \in StoringPcs /\ EndSession /\ Calm
        /\ \/ Persist(delivery, prBase, c) /\ SetStatus(delivery.materialHeadSha, "failure")
           \/ UNCHANGED <<comment, commitStatus>>
    BY <1>6, <1>7 DEF WorkerFailed, Calm, runs, history
  <2> HIDE DEF c
  <2>2. CASE Persist(delivery, prBase, c) /\ SetStatus(delivery.materialHeadSha, "failure")
    BY <2>1, <2>2, RewrittenSafe DEF Lowered
  <2>3. CASE UNCHANGED <<comment, commitStatus>>
    BY <2>1, <2>3, EndedSafe DEF comment, Lowered
  <2> QED
    BY <2>1, <2>2, <2>3
<1>8. CASE RemediationWithoutMaterial
  <2> DEFINE c == [controller EXCEPT !.nextAction = "human-escalation"]
  <2>1. /\ pc \in StoringPcs /\ EndSession /\ Calm /\ Lowered
        /\ Persist(Escalate(delivery, "remediation-produced-no-material"), prBase, c)
    BY <1>6, <1>8 DEF RemediationWithoutMaterial, Calm, runs, history, Lowered
  <2> HIDE DEF c
  <2> QED
    BY <2>1, EscalatedSafe DEF Reasons
<1>9. CASE MaterialNeverAppears
  BY <1>9, EndedSafe DEF MaterialNeverAppears, Calm, runs, history, comment, Lowered
<1>10. CASE MaterialEscalates
  <2> DEFINE c == [controller EXCEPT !.nextAction = "human-escalation"]
  <2>1. /\ pc \in StoringPcs /\ EndSession /\ Calm /\ Lowered
        /\ \/ Persist(Escalate(delivery, "remediation-opened-higher-risk-surface"), base, c)
           \/ UNCHANGED comment
    BY <1>6, <1>10 DEF MaterialEscalates, MaterialAppears, Calm, runs, history, Lowered
  <2> HIDE DEF c
  <2>2. CASE Persist(Escalate(delivery, "remediation-opened-higher-risk-surface"), base, c)
    BY <2>1, <2>2, EscalatedSafe DEF Reasons
  <2>3. CASE UNCHANGED comment
    BY <2>1, <2>3, EndedSafe DEF comment
  <2> QED
    BY <2>1, <2>2, <2>3
<1>11. CASE MaterialPublished
  <2> DEFINE published == PublishMaterial(delivery, remoteHead)
             h == HygieneFor(published, worker.head, worker.hygiene)
             d == ApplyHygiene(published, h)
  <2>1. /\ pc \in StoringPcs /\ AcceptMaterial(d, base) /\ Calm
        /\ ~HigherRisk(headRisk[remoteHead], delivery.riskProfile)
    BY <1>6, <1>11 DEF MaterialPublished, MaterialAppears, Calm, runs, history
  <2>2. /\ published \in Delivery /\ SameBudget(delivery, published)
        /\ NoEvidence(published, remoteHead) /\ Unclaimed(published)
    BY Held, PublishMaterialType, PublishMaterialFrame
  <2> HIDE DEF published
  <2>3. h \in Hygiene
    BY <2>2, Held, HygieneForType
  <2> HIDE DEF h
  <2>4. Storable(published)
    BY <2>1, <2>2, SameStorable, FreshStorable DEF SameBudget
  <2>5. /\ d \in Delivery /\ SameBudget(published, d) /\ SameEvidence(published, d)
        /\ CiJustified(d) /\ Ready(d)
    BY <2>2, <2>3, ApplyHygieneType, ApplyHygieneFrame, UnclaimedJustified
  <2> HIDE DEF d
  <2>6. Sound(d)
    BY <2>2, <2>4, <2>5, SoundSame DEF Storable, Sound, SameBudget
  <2>7. SpentAtLeast(persistent, d) /\ d.materialHeadSha \in Heads
    BY <2>2, <2>4, <2>5, Held, SameBudgetWithin, SpentTransitive DEF Storable, SameEvidence
  <2> QED
    BY <2>1, <2>5, <2>6, <2>7, AcceptMaterialSafe
<1> QED
  BY <1>1, <1>2, <1>3, <1>4, <1>5, <1>7, <1>8, <1>9, <1>10, <1>11 DEF WorkerStep

\* Starting an audit run replaces the run that is known.
LEMMA StartsAuditSafe ==
  ASSUME TypeOK, TypeOK', SafetyInv, NEW d \in Delivery, Storable(d), Ready(d),
         StartsAudit(d, controller),
         UNCHANGED <<github, commitStatus, greenOn, approvedOn>>
  PROVE  SafetyInv' /\ Kept
<1> DEFINE c == [controller EXCEPT !.nextAction = "dispatch-audit", !.auditRun = "reserved"]
<1>1. /\ Persist(d, prBase, c) /\ delivery' = d /\ pc' \in StoringPcs /\ audit' = NoAuditRun
  BY DEF StartsAudit, StoringPcs
<1> HIDE DEF c
<1>2. /\ greenHeads' = greenHeads /\ approvedHeads' = approvedHeads /\ UNCHANGED github
  BY DEF greenHeads, approvedHeads
<1>3. Grows /\ EnvironmentInv'
  BY <1>1, <1>2, SafetyHeld DEF Grows, github, EnvironmentInv, NoAuditRun
<1>4. SoundNext(d)
  BY <1>2 DEF Storable, Sound, SoundNext, github
<1>5. CommentInv' /\ Kept /\ SpentAtLeast(persistent', d)
  BY <1>1, <1>4, CommentStored DEF Storable
<1>6. MemoryInv'
  BY <1>1, <1>4, <1>5, MemoryStored DEF Storable
<1> QED
  BY <1>3, <1>5, <1>6, StatusUnchanged DEF SafetyInv

\* Auditing is safe.
LEMMA AuditStepSafe ==
  ASSUME TypeOK, TypeOK', SafetyInv, AuditStep
  PROVE  SafetyInv' /\ Kept
<1>1. CASE ReserveAudit
  <2> DEFINE d == StartAudit(delivery)
             c == [controller EXCEPT !.nextAction = "human-escalation"]
  <2>1. /\ pc = "loop" /\ delivery.status = "audit-pending"
        /\ UNCHANGED <<github, commitStatus, greenOn, approvedOn>>
        /\ \/ delivery' = d /\ Persist(d, prBase, c) /\ UNCHANGED <<pc, audit>>
           \/ StartsAudit(d, controller)
    BY <1>1 DEF ReserveAudit, AtLoop, history
  <2>2. /\ d \in Delivery /\ SpentAtLeast(delivery, d) /\ d.riskProfile = delivery.riskProfile
        /\ WithinCeilings(delivery) => WithinCeilings(d)
        /\ SameEvidence(delivery, d) /\ Ready(d)
        /\ CiJustified(delivery) => CiJustified(d)
    BY <2>1, Held, StartAuditType, StartAuditFrame
  <2> HIDE DEF d, c
  <2>3. Storable(delivery) /\ CiJustified(d) /\ Ready(d)
    BY <2>1, <2>2, SameStorable DEF StoringPcs
  <2>4. SpentAtLeast(persistent, d) /\ Sound(d)
    BY <2>2, <2>3, Held, SpentTransitive, SoundSame DEF Storable, Sound
  <2>5. Storable(d)
    BY <2>2, <2>3, <2>4 DEF Storable, SameEvidence
  <2>6. CASE delivery' = d /\ Persist(d, prBase, c) /\ UNCHANGED <<pc, audit>>
    BY <2>1, <2>2, <2>3, <2>5, <2>6, StoredSafe DEF Calm, Lowered, StoringPcs
  <2>7. CASE StartsAudit(d, controller)
    BY <2>1, <2>2, <2>3, <2>5, <2>7, StartsAuditSafe
  <2> QED
    BY <2>1, <2>6, <2>7
<1> DEFINE flying == [delivery EXCEPT !.auditInFlight = TRUE]
<1>2. ASSUME AtLoop("audit-pending")
      PROVE  flying \in Delivery /\ Storable(flying) /\ Ready(flying)
  <2>1. /\ flying \in Delivery /\ SameBudget(delivery, flying) /\ SameEvidence(delivery, flying)
        /\ CiJustified(flying) /\ flying.status = "audit-pending"
    <3>1. flying \in Delivery
      BY Held DEF Delivery
    <3> QED
      BY <1>2, <3>1, Held, SafetyHeld, InFlightFrame DEF AtLoop
  <2> HIDE DEF flying
  <2> QED
    BY <1>2, <2>1, SameStorable DEF AtLoop, StoringPcs, Ready
<1>3. CASE RearmAudit
  <2>1. /\ AtLoop("audit-pending") /\ StartsAudit(flying, controller)
        /\ UNCHANGED <<github, commitStatus, greenOn, approvedOn>>
    BY <1>3 DEF RearmAudit, history
  <2> HIDE DEF flying
  <2> QED
    BY <1>2, <2>1, StartsAuditSafe
<1>4. CASE AdoptAudit
  <2>1. /\ AtLoop("audit-pending") /\ delivery' = flying /\ pc' = "audit" /\ Calm
        /\ UNCHANGED <<commitStatus, persistent>>
    BY <1>4 DEF AdoptAudit, Calm, runs, comment, history
  <2> HIDE DEF flying
  <2> QED
    BY <1>2, <2>1, TakenSafe DEF Lowered, StoringPcs
<1>5. CASE LaunchAudit
  <2>1. PICK run \in AuditRun :
          /\ run.candidate = delivery.materialHeadSha
          /\ audit' = run
          /\ approvedOn' = IF run.verdict = "approved"
                           THEN [approvedOn EXCEPT ![run.candidate] = @ \cup {base}]
                           ELSE approvedOn
    BY <1>5 DEF LaunchAudit
  <2>2. /\ pc = "audit" /\ UNCHANGED <<github, greenOn, delivery, persistent, pc, commitStatus>>
    BY <1>5 DEF LaunchAudit, comment, memory
  <2>3. delivery.materialHeadSha \in Heads
    BY <2>2 DEF SafetyInv, MemoryInv
  <2>4. /\ approvedHeads \subseteq approvedHeads' /\ greenHeads' = greenHeads
        /\ run.verdict = "approved" => run.candidate \in approvedHeads'
    <3>1. approvedOn \in [Heads -> SUBSET Bases]
      BY DEF TypeOK
    <3>2. CASE run.verdict = "approved"
      <4>1. \A h \in Heads : approvedOn'[h] = IF h = run.candidate THEN approvedOn[h] \cup {base}
                                              ELSE approvedOn[h]
        BY <2>1, <3>1, <3>2
      <4> QED
        BY <2>1, <2>2, <2>3, <4>1 DEF approvedHeads, greenHeads
    <3>3. CASE run.verdict # "approved"
      BY <2>1, <2>2, <3>3 DEF approvedHeads, greenHeads
    <3> QED
      BY <3>2, <3>3
  <2>5. Grows /\ EnvironmentInv'
    BY <2>1, <2>2, <2>4, SafetyHeld DEF Grows, github, EnvironmentInv
  <2> QED
    BY <2>2, <2>5, GrownSafe
<1>6. CASE CorrelateAudit
  <2> DEFINE c == [controller EXCEPT !.nextAction = "observe-audit", !.auditRun = "observed"]
  <2>1. /\ pc \in StoringPcs /\ Persist(delivery, prBase, c) /\ UNCHANGED <<delivery, pc>>
        /\ Calm /\ UNCHANGED commitStatus
    BY <1>6 DEF CorrelateAudit, StoringPcs, Calm, runs, memory, history
  <2> HIDE DEF c
  <2> QED
    BY <2>1, RewrittenSafe DEF Lowered
<1>7. CASE AuditRecoveryRefused
  BY <1>7, EndedSafe DEF AuditRecoveryRefused, Calm, runs, history, comment, Lowered
<1>8. CASE AuditWorkflowFailed
  <2> DEFINE c == [controller EXCEPT !.nextAction = "audit-workflow-failed"]
  <2>1. /\ pc \in StoringPcs /\ Persist(delivery, prBase, c) /\ EndSession
        /\ Calm /\ UNCHANGED commitStatus
    BY <1>8 DEF AuditWorkflowFailed, StoringPcs, Calm, runs, history
  <2> HIDE DEF c
  <2> QED
    BY <2>1, RewrittenSafe DEF Lowered
<1>9. CASE ConsumeVerdict
  <2> DEFINE d == ApplyAuditResult(delivery, audit.verdict)
             c == [controller EXCEPT !.nextAction = d.status]
  <2>1. /\ pc = "audit" /\ delivery' = d /\ pc' = "loop" /\ Persist(d, prBase, c)
        /\ VerdictReadable /\ delivery.status = "audit-pending"
        /\ audit.candidate = delivery.materialHeadSha
        /\ Calm /\ UNCHANGED commitStatus
    BY <1>9 DEF ConsumeVerdict, CanRecordAudit, Calm, runs, history
  <2>2. audit.verdict \in AuditVerdicts
    BY <2>1, Held DEF VerdictReadable, AuditRun
  <2>3. /\ d \in Delivery /\ SameBudget(delivery, d)
        /\ d.materialHeadSha = delivery.materialHeadSha
        /\ d.ciEvidence = delivery.ciEvidence
        /\ d.auditEvidence.candidateSha = delivery.materialHeadSha
        /\ d.auditEvidence.decision = "approved" => audit.verdict = "approved"
        /\ CiJustified(d) /\ Ready(d)
    BY <2>1, <2>2, Held, SafetyHeld, ApplyResultTypes, ApplyAuditResultFrame
  <2> HIDE DEF d, c
  <2>4. Storable(delivery) /\ WithinCeilings(d) /\ SpentAtLeast(persistent, d)
    BY <2>1, <2>3, SameStorable DEF StoringPcs
  <2>5. audit.verdict = "approved" => delivery.materialHeadSha \in approvedHeads
    <3>1. delivery.materialHeadSha # NoHead
      BY <2>4, MaxHeadAssumption DEF Storable, Heads, NoHead
    <3> QED
      BY <2>1, <3>1 DEF SafetyInv, EnvironmentInv
  <2>6. Sound(d)
    BY <2>3, <2>4, <2>5 DEF Storable, Sound, SoundFor, SameBudget
  <2>7. Storable(d)
    BY <2>3, <2>4, <2>6 DEF Storable
  <2> QED
    BY <2>1, <2>3, <2>7, StoredSafe DEF Lowered, StoringPcs
<1> QED
  BY <1>1, <1>3, <1>4, <1>5, <1>6, <1>7, <1>8, <1>9 DEF AuditStep

\* Starting a hygiene run is safe.
LEMMA StartsHygieneSafe ==
  ASSUME TypeOK, TypeOK', SafetyInv, pc \in StoringPcs, NEW stored, StartsHygiene(stored)
  PROVE  SafetyInv' /\ Kept
<1> DEFINE c == [controller EXCEPT !.nextAction = "dispatch-technical-hygiene",
                                   !.hygieneRun = "reserved", !.technicalHygiene = stored]
<1>1. /\ Persist(delivery, prBase, c) /\ UNCHANGED <<delivery, commitStatus>>
      /\ pc' \in StoringPcs /\ Calm
  BY DEF StartsHygiene, StoringPcs, Calm, history
<1> HIDE DEF c
<1> QED
  BY <1>1, RewrittenSafe DEF Lowered

\* Technical hygiene is gathered and resolved safely.
LEMMA HygieneStepSafe ==
  ASSUME TypeOK, TypeOK', SafetyInv, HygieneStep
  PROVE  SafetyInv' /\ Kept
<1>0. NeedsHygiene => pc \in StoringPcs
  BY DEF NeedsHygiene, Pending, AtLoop, StoringPcs
<1>1. CASE ReserveHygiene
  BY <1>0, <1>1, StartsHygieneSafe DEF ReserveHygiene
<1>2. CASE RearmHygiene
  BY <1>0, <1>2, StartsHygieneSafe DEF RearmHygiene
<1>3. CASE AdoptHygiene
  BY <1>0, <1>3, UnmovedSafe DEF AdoptHygiene, StoringPcs, Calm, runs, comment, history, Lowered
<1>4. CASE LaunchHygiene
  BY <1>4, UnmovedSafe DEF LaunchHygiene, Calm, comment, memory, history, Lowered
<1>5. CASE CorrelateHygiene
  <2> DEFINE c == [controller EXCEPT !.nextAction = "observe-technical-hygiene",
                                     !.hygieneRun = "observed"]
  <2>1. /\ pc \in StoringPcs /\ Persist(delivery, prBase, c) /\ UNCHANGED <<delivery, pc>>
        /\ Calm /\ UNCHANGED commitStatus
    BY <1>5 DEF CorrelateHygiene, StoringPcs, Calm, runs, memory, history
  <2> HIDE DEF c
  <2> QED
    BY <2>1, RewrittenSafe DEF Lowered
<1>6. CASE HygieneRecoveryRefused
  BY <1>6, EndedSafe DEF HygieneRecoveryRefused, Calm, runs, history, comment, Lowered
<1>7. CASE HygieneWorkerFailed
  <2> DEFINE c == [controller EXCEPT !.nextAction = "technical-hygiene-worker-failed"]
  <2>1. /\ pc \in StoringPcs /\ Persist(delivery, prBase, c) /\ EndSession
        /\ Calm /\ UNCHANGED commitStatus
    BY <1>7 DEF HygieneWorkerFailed, StoringPcs, Calm, runs, history
  <2> HIDE DEF c
  <2> QED
    BY <2>1, RewrittenSafe DEF Lowered
<1>8. CASE ConsumeHygiene
  <2> DEFINE h == HygieneFor(delivery, hygiene.examined, hygiene.result)
             d == ApplyHygiene(delivery, h)
             c == [controller EXCEPT !.nextAction = d.status,
                                     !.technicalHygiene = d.technicalHygiene]
  <2>1. /\ pc \in StoringPcs /\ delivery' = d /\ pc' = "loop" /\ Persist(d, prBase, c)
        /\ hygiene.result # "failed" /\ Calm /\ UNCHANGED commitStatus
    BY <1>8 DEF ConsumeHygiene, StoringPcs, Calm, runs, history
  <2>2. h \in Hygiene
    BY <2>1, Held, HygieneForType DEF HygieneRun
  <2> HIDE DEF h
  <2>3. /\ d \in Delivery /\ SameBudget(delivery, d) /\ SameEvidence(delivery, d)
        /\ CiJustified(d) /\ Ready(d)
    BY <2>2, Held, SafetyHeld, ApplyHygieneType, ApplyHygieneFrame
  <2> HIDE DEF d, c
  <2> QED
    BY <2>1, <2>3, SameStorable, StoredSafe DEF Lowered, StoringPcs
<1>9. CASE ResolvePending
  <2> DEFINE d == ResolveHygiene(delivery)
             c == [controller EXCEPT !.nextAction = IF d.status = "escalated"
                                                    THEN "human-escalation" ELSE d.status,
                                     !.technicalHygiene = IF session = "resume"
                                                          THEN d.technicalHygiene ELSE @]
  <2>1. /\ pc \in StoringPcs /\ delivery' = d /\ UNCHANGED pc /\ Persist(d, prBase, c)
        /\ Calm /\ UNCHANGED commitStatus
    BY <1>9 DEF ResolvePending, AtLoop, StoringPcs, Calm, runs, history
  <2>2. /\ d \in Delivery /\ SameBudget(delivery, d) /\ SameEvidence(delivery, d)
        /\ CiJustified(d) /\ Ready(d)
    BY Held, SafetyHeld, ResolveHygieneType, ResolveHygieneFrame
  <2> HIDE DEF d, c
  <2> QED
    BY <2>1, <2>2, SameStorable, StoredSafe DEF Lowered
<1> QED
  BY <1>1, <1>2, <1>3, <1>4, <1>5, <1>6, <1>7, <1>8, <1>9 DEF HygieneStep

\* A delivery that is ready for a release has a head, on which CI was green and
\* which an audit approved where its paths oblige to one.
LEMMA ReadyIsEarned ==
  ASSUME TypeOK, SafetyInv, ReadyToRelease, delivery.materialHeadSha \in Heads
  PROVE  /\ delivery.materialHeadSha \in greenHeads
         /\ AuditRequiredFor(headRisk[delivery.materialHeadSha]) =>
              delivery.materialHeadSha \in approvedHeads
         /\ AuditRequiredFor(headRisk[delivery.materialHeadSha]) => AuditRequired(delivery)
<1> DEFINE head == delivery.materialHeadSha
<1>1. Sound(delivery) /\ Ready(delivery) /\ head \in Heads /\ head # NoHead
  BY SafetyHeld, MaxHeadAssumption DEF Sound, Heads, NoHead
<1>2. head \in greenHeads
  BY <1>1 DEF Ready, ReadyToRelease, Sound, SoundFor
<1>3. AuditRequiredFor(headRisk[head]) => AuditRequired(delivery)
  <2>1. ~HigherRisk(headRisk[head], delivery.riskProfile)
    BY <1>1 DEF Sound, SoundFor
  <2>2. delivery.riskProfile \in Profiles /\ headRisk[head] \in Profiles
    BY <1>1, Held, SafetyHeld, DeliveryFields
  <2> QED
    BY <2>1, <2>2 DEF AuditRequired, AuditRequiredFor, HigherRisk, Rank, Profiles
<1>4. AuditRequired(delivery) => head \in approvedHeads
  BY <1>1 DEF Ready, ReadyToRelease, Sound, SoundFor
<1> QED
  BY <1>2, <1>3, <1>4

\* A read of the pull request by the release changes nothing that is stored.
LEMMA ReadsIdentitySafe ==
  ASSUME TypeOK, TypeOK', SafetyInv, NEW next \in ReleasePcs, ReadsIdentity(next),
         pc \in ReleasePcs \cup {"loop"}, ReadyToRelease
  PROVE  SafetyInv' /\ Kept
<1>1. /\ Calm /\ UNCHANGED <<delivery, persistent, commitStatus>> /\ pc' = next
  BY DEF ReadsIdentity, Calm, runs, comment, history
<1>2. SoundNext(delivery)
  BY <1>1, SafetyHeld, CalmSound
<1>3. MemoryInv'
  BY <1>1, <1>2 DEF SafetyInv, MemoryInv, Sound, SoundNext, StoringPcs, ReleasePcs, ReadyToRelease
<1> QED
  BY <1>1, <1>3, CalmGrows, CommentUnchanged, LoweredSafe DEF SafetyInv, Lowered

\* What a release does before it publishes: it reads the pull request, with a
\* delivery that is ready.
Reading == RereadEvidence \/ EvaluateRelease \/ MarkReadyForReview \/ ConfirmReadyForReview

LEMMA ReleaseReads ==
  ASSUME Reading
  PROVE  /\ pc \in {"loop", "gate", "ready", "confirm"}
         /\ pc = "loop" => ReadyToRelease
         /\ \E next \in ReleasePcs : ReadsIdentity(next)
BY DEF Reading, RereadEvidence, EvaluateRelease, MarkReadyForReview, ConfirmReadyForReview, AtLoop,
       ReleasePcs, ReadyToRelease

LEMMA ReadyWhenRead ==
  ASSUME SafetyInv, Reading
  PROVE  ReadyToRelease
BY ReleaseReads DEF SafetyInv, MemoryInv, ReleasePcs

\* A release, and the end of a session, are safe.
LEMMA ReleaseStepSafe ==
  ASSUME TypeOK, TypeOK', SafetyInv, ReleaseStep
  PROVE  SafetyInv' /\ Kept
<1>1. CASE ReleaseIdentityDrifts
  BY <1>1, EndedSafe DEF ReleaseIdentityDrifts, Calm, runs, history, comment, Lowered
<1>2. CASE ReleaseRefused
  BY <1>2, EndedSafe DEF ReleaseRefused, Calm, runs, history, comment, Lowered
<1>6. CASE Reading
  BY <1>6, ReleaseReads, ReadyWhenRead, ReadsIdentitySafe DEF ReleasePcs
<1>3. CASE Release
  <2> DEFINE head == delivery.materialHeadSha
  <2>1. /\ pc = "publish" /\ pc' = "released"
        /\ SetStatus(head, "success") /\ Calm /\ UNCHANGED <<delivery, persistent>>
    BY <1>3 DEF Release, Calm, runs, comment, history
  <2>2. ReadyToRelease /\ head \in Heads /\ head <= lastHead
    BY <2>1, SafetyHeld DEF SafetyInv, MemoryInv, ReleasePcs
  <2>3. StatusInv'
    <3>1. \A h \in Heads : commitStatus'[h] = IF h = head THEN "success" ELSE commitStatus[h]
      BY <2>1 DEF SetStatus, TypeOK
    <3>2. UNCHANGED <<lastHead, headRisk, greenHeads, approvedHeads>>
      BY <2>1 DEF Calm, github, greenHeads, approvedHeads
    <3>3. StatusInv
      BY DEF SafetyInv
    <3>4. head \in greenHeads /\ (AuditRequiredFor(headRisk[head]) => head \in approvedHeads)
      BY <2>2, ReadyIsEarned
    <3> HIDE DEF head
    <3> QED
      BY <2>2, <3>1, <3>2, <3>3, <3>4 DEF StatusInv, SuccessStatusSound
  <2>4. SoundNext(delivery)
    BY <2>1, SafetyHeld, CalmSound
  <2>5. MemoryInv'
    BY <2>1, <2>4 DEF SafetyInv, MemoryInv, Sound, SoundNext, StoringPcs, ReleasePcs
  <2> QED
    BY <2>1, <2>3, <2>5, CalmGrows, CommentUnchanged DEF SafetyInv
<1>4. CASE RecordRelease
  <2> DEFINE c == [controller EXCEPT !.nextAction = "human-merge-policy"]
  <2>1. /\ pc \in StoringPcs /\ Persist(delivery, prBase, c) /\ EndSession
        /\ Calm /\ UNCHANGED commitStatus
    BY <1>4 DEF RecordRelease, StoringPcs, Calm, runs, history
  <2> HIDE DEF c
  <2> QED
    BY <2>1, RewrittenSafe DEF Lowered
<1>5. CASE ReportEscalation
  BY <1>5, EndedSafe DEF ReportEscalation, Calm, runs, history, comment, Lowered
<1> QED
  BY <1>1, <1>2, <1>3, <1>4, <1>5, <1>6 DEF ReleaseStep, Reading

-----------------------------------------------------------------------------
(* A new session.                                                            *)

\* Entering the loop with a sound state is safe, and so is failing to.
LEMMA EnterResumeSafe ==
  ASSUME TypeOK, TypeOK', SafetyInv, Calm, NEW d \in Delivery, NEW c,
         Sound(d), Ready(d), SpentAtLeast(persistent, d), d.materialHeadSha \in Heads,
         EnterResume(d, c)
  PROVE  SafetyInv' /\ Kept
<1>1. Lowered
  BY DEF EnterResume, Lowered
<1>2. CASE WithinCeilings(d)
  <2> DEFINE k == [c EXCEPT !.nextAction = IF @ \in EntryActions THEN @ ELSE d.status]
  <2>1. Persist(d, base, k) /\ delivery' = d /\ pc' \in StoringPcs
    BY <1>2 DEF EnterResume, StoringPcs
  <2> HIDE DEF k
  <2> QED
    BY <1>1, <1>2, <2>1, StoredSafe DEF Storable
<1>3. CASE ~WithinCeilings(d)
  BY <1>1, <1>3, UnmovedSafe DEF EnterResume, memory, comment
<1> QED
  BY <1>2, <1>3

\* Resuming from what was loaded is safe: a state that is stale is rebuilt, and
\* one that is not is as sound as the comment.
LEMMA ResumeFromSafe ==
  ASSUME TypeOK, TypeOK', SafetyInv, Calm, NEW d \in Delivery, NEW c, ResumeFrom(d, c),
         SpentAtLeast(persistent, d),
         ~StoredStale => Sound(d) /\ Ready(d) /\ d.materialHeadSha = remoteHead
  PROVE  SafetyInv' /\ Kept
<1> DEFINE r == RebuildCiPendingState(headRisk[remoteHead], remoteHead, d)
<1>1. /\ r \in Delivery /\ SameAttempts(d, r) /\ r.riskProfile = headRisk[remoteHead]
      /\ NoEvidence(r, remoteHead) /\ Unclaimed(r)
  BY Held, PersistenceTypes, RebuildCiPendingStateFrame
<1>2. EnterResume(r, RebuiltMetadata(c)) \/ (~StoredStale /\ EnterResume(d, c))
  <2>1. StoredStale => MustRebuildOnResume(StoredStale, d)
    BY Zenon DEF MustRebuildOnResume
  <2> HIDE DEF r
  <2> QED
    BY <2>1, Zenon DEF ResumeFrom, r
<1> HIDE DEF r
<1>3. Sound(r) /\ Ready(r)
  <2>1. ~HigherRisk(headRisk[remoteHead], r.riskProfile)
    BY <1>1, Held DEF HigherRisk, Rank
  <2> QED
    BY <1>1, <2>1, SafetyHeld, SoundFresh, UnclaimedJustified DEF Sound
<1>4. SpentAtLeast(persistent, r) /\ r.materialHeadSha \in Heads
  BY <1>1, Held DEF SameAttempts, SpentAtLeast, NoEvidence
<1> QED
  BY <1>1, <1>2, <1>3, <1>4, Held, EnterResumeSafe

\* What a new session reads back is charged, and sound unless it is stale.
LEMMA LoadedSound ==
  ASSUME TypeOK, SafetyInv
  PROVE  /\ Loaded \in Delivery /\ SameBudget(persistent, Loaded)
         /\ ~StoredStale => /\ Sound(Loaded) /\ Ready(Loaded) /\ CiJustified(Loaded)
                            /\ SameEvidence(persistent, Loaded)
                            /\ Loaded.materialHeadSha = remoteHead
<1>1. CASE StoredStale
  <2> DEFINE r == ReconcilePersistentState(persistent, remoteHead)
  <2>1. r \in Delivery /\ SameBudget(persistent, r)
    BY Held, PersistenceTypes, ReconcilePersistentStateFrame
  <2>2. Loaded = OperationalFromPersistent(r)
    BY <1>1 DEF Loaded
  <2> HIDE DEF r
  <2> QED
    BY <1>1, <2>1, <2>2, PersistenceTypes, OperationalFromPersistentFrame
    DEF SameBudget, SameAttempts
<1>2. CASE ~StoredStale
  <2>1. Loaded = OperationalFromPersistent(persistent)
        /\ persistent.materialHeadSha = remoteHead
    BY <1>2 DEF Loaded, StoredStale
  <2>2. /\ Loaded \in Delivery /\ SameBudget(persistent, Loaded)
        /\ SameEvidence(persistent, Loaded) /\ CiJustified(Loaded) /\ Ready(Loaded)
    BY <2>1, Held, SafetyHeld, PersistenceTypes, OperationalFromPersistentFrame
  <2>3. Sound(Loaded)
    BY <2>2, Held, SafetyHeld, SoundSame DEF Sound, SameBudget
  <2> QED
    BY <2>1, <2>2, <2>3 DEF SameEvidence
<1> QED
  BY <1>1, <1>2

\* A new session is safe.
LEMMA ResumeSafe ==
  ASSUME TypeOK, TypeOK', SafetyInv, Resume \/ ResumeRearmingHygiene
  PROVE  SafetyInv' /\ Kept
<1>0. /\ Loaded \in Delivery /\ SpentAtLeast(persistent, Loaded)
  BY Held, LoadedSound, SameBudgetWithin
<1>1. CASE Resume
  <2>1. Calm
    BY <1>1 DEF Resume, Calm, runs, history
  <2>2. CASE ResumeFrom(Loaded, controller)
    BY <1>0, <2>1, <2>2, LoadedSound, ResumeFromSafe
  <2>3. CASE ~StoredStale
             /\ ResumeFrom(ApplyHygiene(Loaded, controller.technicalHygiene), controller)
    <3> DEFINE d == ApplyHygiene(Loaded, controller.technicalHygiene)
    <3>1. /\ d \in Delivery /\ SameBudget(Loaded, d) /\ SameEvidence(Loaded, d)
          /\ CiJustified(d) /\ Ready(d)
      BY <1>0, <2>3, Held, LoadedSound, ControllerFields, ApplyHygieneType, ApplyHygieneFrame
    <3>2. ResumeFrom(d, controller)
      BY <2>3
    <3> HIDE DEF d
    <3>3. Sound(d) /\ d.materialHeadSha = remoteHead
      BY <1>0, <2>3, <3>1, LoadedSound, SoundSame DEF Sound, SameBudget, SameEvidence
    <3>4. SpentAtLeast(persistent, d)
      BY <1>0, <3>1, Held, SameBudgetWithin, SpentTransitive
    <3> QED
      BY <2>1, <3>1, <3>2, <3>3, <3>4, ResumeFromSafe
  <2> QED
    BY <1>1, <2>2, <2>3 DEF Resume
<1>2. CASE ResumeRearmingHygiene
  <2> DEFINE back == [Loaded EXCEPT !.status = "technical-hygiene-pending",
                                    !.terminalReason = "none"]
             d == IF Loaded.status = "escalated" THEN back ELSE Loaded
             c == [controller EXCEPT !.nextAction = "dispatch-technical-hygiene",
                                     !.hygieneRun = "reserved",
                                     !.technicalHygiene = NoHygiene]
  <2>1. /\ Calm /\ ResumeFrom(d, c) /\ ~StoredStale
        /\ Loaded.status = "escalated" => Loaded.terminalReason = "technical-hygiene"
    BY <1>2 DEF ResumeRearmingHygiene, CanRearmUnknown, Calm, history
  <2>2. CASE Loaded.status = "escalated"
    <3>1. /\ back \in Delivery /\ SameBudget(Loaded, back) /\ SameEvidence(Loaded, back)
          /\ back.status = "technical-hygiene-pending"
      BY <1>0 DEF Delivery, Statuses, Reasons, SameBudget, SameAttempts, SameEvidence
    <3>2. ResumeFrom(back, c)
      BY <2>1, <2>2
    <3> HIDE DEF back, c
    <3>3. CiJustified(back) /\ Ready(back)
      BY <2>1, <2>2, <3>1, LoadedSound DEF CiJustified, BeyondCi, SameEvidence, Ready
    <3>4. Sound(back) /\ back.materialHeadSha = remoteHead
      BY <1>0, <2>1, <3>1, <3>3, LoadedSound, SoundSame DEF Sound, SameBudget, SameEvidence
    <3>5. SpentAtLeast(persistent, back)
      BY <1>0, <3>1, Held, SameBudgetWithin, SpentTransitive
    <3> QED
      BY <2>1, <3>1, <3>2, <3>3, <3>4, <3>5, ResumeFromSafe
  <2>3. CASE Loaded.status # "escalated"
    BY <1>0, <2>1, <2>3, LoadedSound, ResumeFromSafe
  <2> QED
    BY <2>2, <2>3
<1> QED
  BY <1>1, <1>2

-----------------------------------------------------------------------------
(* The theorems.                                                             *)

\* Every step is safe and gives no attempt back.
LEMMA NextSafe == TypeOK /\ TypeOK' /\ SafetyInv /\ [Next]_vars => SafetyInv' /\ Kept
<1> SUFFICES ASSUME TypeOK, TypeOK', SafetyInv, [Next]_vars PROVE SafetyInv' /\ Kept
  OBVIOUS
<1>1. CASE SessionStep
  BY <1>1, MaterialStepSafe, CiStepSafe, WorkerStepSafe, AuditStepSafe, HygieneStepSafe,
     ReleaseStepSafe DEF SessionStep
<1>2. CASE Crash
  BY <1>2, EndedSafe DEF Crash, Calm, runs, history, comment, Lowered
<1>3. CASE UNCHANGED vars
  BY <1>3, UnmovedSafe DEF vars, Calm, runs, history, comment, memory, Lowered
<1> QED
  BY <1>1, <1>2, <1>3, EnvironmentSafe, ResumeSafe DEF Next

\* The inductive invariant holds whatever sessions, crashes, runs and pushes do.
THEOREM Safe == Spec => []SafetyInv
BY InitSafe, NextSafe, TypeCorrect, PTL DEF Spec

\* The state comment can always be read back: its counters never exceed the
\* ceilings of its risk, which normalisation refuses.
THEOREM CommentAlwaysLoads == Spec => []CommentLoads
<1>1. SafetyInv => CommentLoads
  BY DEF SafetyInv, CommentInv
<1> QED
  BY <1>1, Safe, PTL

\* Evidence in memory and in the comment is for their head and was established.
THEOREM EvidenceIsBound == Spec => []EvidenceBound
<1>1. SafetyInv => EvidenceBound
  BY DEF SafetyInv, CommentInv, MemoryInv, Sound, SoundFor, EvidenceBound, EvidenceHolds
<1> QED
  BY <1>1, Safe, PTL

\* A delivery is ready only with CI, hygiene and the audit it owes.
THEOREM ReadinessIsJustified == Spec => []ReadyIsJustified
<1>1. SafetyInv => ReadyIsJustified
  BY DEF SafetyInv, MemoryInv, Ready, ReadyIsJustified
<1> QED
  BY <1>1, Safe, PTL

\* The effective risk of a head is never understated.
THEOREM RiskAlwaysCovers == Spec => []RiskCoversHead
<1>1. SafetyInv => RiskCoversHead
  BY DEF SafetyInv, CommentInv, MemoryInv, Sound, SoundFor, RiskCoversHead, RiskCovers
<1> QED
  BY <1>1, Safe, PTL

\* Every success on GitHub stands on green CI and the audit the paths oblige to.
THEOREM SuccessIsSound == Spec => []SuccessStatusSound
<1>1. SafetyInv => SuccessStatusSound
  BY DEF SafetyInv, StatusInv
<1> QED
  BY <1>1, Safe, PTL

\* No step of any session takes back an attempt that the comment has charged.
THEOREM AttemptsAreKept == Spec => AttemptsNeverDecrease
<1>1. /\ TypeOK /\ TypeOK' /\ SafetyInv /\ [Next]_vars
      => [/\ persistent'.implementationAttempts >= persistent.implementationAttempts
          /\ persistent'.auditAttempts >= persistent.auditAttempts
          /\ persistent'.auditRemediationAttempts >= persistent.auditRemediationAttempts]_vars
  BY NextSafe DEF Kept, SpentAtLeast
<1> QED
  BY <1>1, Safe, TypeCorrect, PTL DEF Spec, AttemptsNeverDecrease

-----------------------------------------------------------------------------
(* Statuses while a session is evaluating a head.                            *)

\* Heads only go up, so that a session that has moved to a head has not released
\* it or a later one yet.
ProgressInv ==
  /\ session = "none" <=> pc = "idle"
  /\ remoteHead = lastHead
  /\ pc = "discover" => delivery.materialHeadSha = NoHead
  /\ pc \notin {"idle", "released"} =>
       \A h \in Heads : h >= delivery.materialHeadSha => commitStatus[h] # "success"

\* A session ends.
Ends == pc \notin {"idle", "publish"} /\ EndSession /\ UNCHANGED github

\* A session goes on, about the same head or the remote one; it comes to a success
\* only from a read of the pull request, and publishes it only to be done.
GoesOn ==
  /\ pc \notin {"idle", "released"} /\ pc' \notin {"idle", "discover"}
  /\ UNCHANGED <<github, session>>
  /\ delivery'.materialHeadSha \in {delivery.materialHeadSha, remoteHead}
  /\ \/ pc' = "released"
     \/ UNCHANGED commitStatus
     \/ \E h : SetStatus(h, "pending")
  /\ pc = "publish" => Release
  /\ pc' = "publish" => Reading /\ ReadsIdentity("publish")

\* Accepting a material goes on.
LEMMA AcceptMaterialGoes ==
  ASSUME NEW d, NEW b, AcceptMaterial(d, b), pc \notin {"idle", "released", "publish"},
         UNCHANGED <<github, session>>, d.materialHeadSha \in {delivery.materialHeadSha, remoteHead}
  PROVE  GoesOn
BY DEF AcceptMaterial, GoesOn

\* What a session does with material, in these terms.
LEMMA MaterialGoes ==
  ASSUME TypeOK, SafetyInv, MaterialStep
  PROVE  Ends \/ GoesOn
<1>1. CASE DiscoverMaterial
  <2> DEFINE created == CreateOperationalDelivery(headRisk[remoteHead], remoteHead)
  <2>1. created \in Delivery /\ created.materialHeadSha = remoteHead
    BY Held, CreateOperationalDeliveryType, CreateOperationalDeliveryFrame DEF NoEvidence
  <2> HIDE DEF created
  <2>2. [created EXCEPT !.implementationAttempts = bootstrapAttempts].materialHeadSha = remoteHead
    BY <2>1 DEF Delivery
  <2> QED
    BY <1>1, <2>2 DEF DiscoverMaterial, GoesOn, created
<1>2. CASE AssessMaterial
  <2>1. AssessedMaterial.materialHeadSha = delivery.materialHeadSha
    BY Held, HygieneForType, ApplyHygieneFrame DEF AssessedMaterial, SameEvidence
  <2> QED
    BY <1>2, <2>1, AcceptMaterialGoes DEF AssessMaterial, identity
<1>3. CASE MaterialUnstorable
  BY <1>3 DEF MaterialUnstorable, AwaitsPromotion, Pending, AtLoop, Ends
<1>4. CASE ReservePromotion
  <2>1. Promoted.materialHeadSha = delivery.materialHeadSha
    BY Held DEF Promoted, PromoteRisk, Delivery
  <2> QED
    BY <1>4, <2>1 DEF ReservePromotion, AwaitsPromotion, Pending, AtLoop, GoesOn
<1>5. CASE PromotionFailed
  BY <1>5 DEF PromotionFailed, Ends
<1>6. ASSUME PromotionHolds
      PROVE  PromotionResult.materialHeadSha = delivery.materialHeadSha
  <2>1. hygiene.result \in HygieneResults
    BY <1>6, Held DEF PromotionHolds, HygieneRun
  <2> QED
    BY <2>1, Held, HygieneForType, ApplyHygieneFrame DEF PromotionResult, SameEvidence
<1>7. CASE MaterialPromoted
  BY <1>6, <1>7, AcceptMaterialGoes DEF MaterialPromoted, identity
<1>8. CASE PendingPromoted
  BY <1>6, <1>8 DEF PendingPromoted, GoesOn, identity
<1> QED
  BY <1>1, <1>2, <1>3, <1>4, <1>5, <1>7, <1>8 DEF MaterialStep

\* What a session does with CI, in these terms.
LEMMA CiGoes ==
  ASSUME TypeOK, SafetyInv, CiStep
  PROVE  Ends \/ GoesOn
<1>1. CASE InitialObservesDrift \/ InitialBlockedByHygiene \/ CiFailsExternally
  BY <1>1
  DEF InitialObservesDrift, InitialBlockedByHygiene, CiFailsExternally, InitialWaitsForCi,
      HygieneBlocked, AwaitsCi, AtLoop, Ends
<1>2. CASE ResumeObservesDrift
  <2>1. RebuildCiPendingState(headRisk[remoteHead], remoteHead, delivery).materialHeadSha
          = remoteHead
    BY Held, RebuildCiPendingStateFrame DEF NoEvidence
  <2> QED
    BY <1>2, <2>1 DEF ResumeObservesDrift, AtLoop, GoesOn, Ends
<1>3. CASE CiSucceeds
  <2>1. ApplyCiSuccess(delivery).materialHeadSha = delivery.materialHeadSha
    BY Held, ApplyCiSuccessFrame
  <2> QED
    BY <1>3, <2>1 DEF CiSucceeds, AwaitsCi, GoesOn, identity
<1>4. CASE CiFailsActionably
  <2>1. delivery.status = "ci-pending"
    BY <1>4 DEF CiFailsActionably, AwaitsCi, CanRecordCi
  <2>2. RecordCiFailure(delivery, "actionable").materialHeadSha = delivery.materialHeadSha
    BY <2>1, Held, RecordCiFailureFrame
  <2> QED
    BY <1>4, <2>2 DEF CiFailsActionably, AwaitsCi, GoesOn, identity
<1> QED
  BY <1>1, <1>2, <1>3, <1>4 DEF CiStep

\* What a session does with its worker, in these terms.
LEMMA WorkerGoes ==
  ASSUME TypeOK, SafetyInv, WorkerStep
  PROVE  Ends \/ GoesOn
<1>1. CASE ReserveRemediation
  <2>1. StartImplementation(delivery).materialHeadSha = delivery.materialHeadSha
    BY Held, StartImplementationFrame DEF SameEvidence
  <2> QED
    BY <1>1, <2>1 DEF ReserveRemediation, GoesOn, identity
<1>2. CASE LaunchWorker \/ CorrelateWorker \/ RearmWorker
  BY <1>2 DEF LaunchWorker, CorrelateWorker, RearmWorker, GoesOn, memory, identity
<1>3. CASE RecoveryRefused \/ WorkerFailed \/ RemediationWithoutMaterial
           \/ MaterialNeverAppears \/ MaterialEscalates
  BY <1>3
  DEF RecoveryRefused, WorkerFailed, RemediationWithoutMaterial, MaterialNeverAppears,
      MaterialEscalates, MaterialAppears, WorkerFinished, Ends
<1>4. CASE MaterialPublished
  <2> DEFINE published == PublishMaterial(delivery, remoteHead)
             h == HygieneFor(published, worker.head, worker.hygiene)
             d == ApplyHygiene(published, h)
  <2>1. published \in Delivery /\ published.materialHeadSha = remoteHead
    BY Held, PublishMaterialType, PublishMaterialFrame DEF NoEvidence
  <2>2. h \in Hygiene
    BY <2>1, Held, HygieneForType
  <2>3. d.materialHeadSha = remoteHead
    BY <2>1, <2>2, ApplyHygieneFrame DEF SameEvidence
  <2>4. /\ AcceptMaterial(d, base) /\ UNCHANGED <<github, session>>
        /\ pc \notin {"idle", "released", "publish"}
    BY <1>4 DEF MaterialPublished, MaterialAppears, WorkerFinished
  <2> HIDE DEF d
  <2> QED
    BY <2>3, <2>4, AcceptMaterialGoes
<1> QED
  BY <1>1, <1>2, <1>3, <1>4 DEF WorkerStep

\* What a session does with an audit, in these terms.
LEMMA AuditGoes ==
  ASSUME TypeOK, SafetyInv, AuditStep
  PROVE  Ends \/ GoesOn
<1>1. CASE ReserveAudit
  <2>1. StartAudit(delivery).materialHeadSha = delivery.materialHeadSha
    BY <1>1, Held, StartAuditFrame DEF ReserveAudit, AtLoop, SameEvidence
  <2> QED
    BY <1>1, <2>1 DEF ReserveAudit, StartsAudit, AtLoop, GoesOn, identity
<1>2. [delivery EXCEPT !.auditInFlight = TRUE].materialHeadSha = delivery.materialHeadSha
  BY Held DEF Delivery
<1>3. CASE RearmAudit \/ AdoptAudit
  BY <1>2, <1>3 DEF RearmAudit, AdoptAudit, StartsAudit, AtLoop, GoesOn, identity
<1>4. CASE LaunchAudit \/ CorrelateAudit
  BY <1>4 DEF LaunchAudit, CorrelateAudit, GoesOn, memory, identity
<1>5. CASE AuditRecoveryRefused \/ AuditWorkflowFailed
  BY <1>5 DEF AuditRecoveryRefused, AuditWorkflowFailed, Ends
<1>6. CASE ConsumeVerdict
  <2>1. audit.verdict \in AuditVerdicts /\ delivery.status = "audit-pending"
    BY <1>6, Held DEF ConsumeVerdict, VerdictReadable, CanRecordAudit, AuditRun
  <2>2. ApplyAuditResult(delivery, audit.verdict).materialHeadSha = delivery.materialHeadSha
    BY <2>1, Held, SafetyHeld, ApplyAuditResultFrame
  <2> QED
    BY <1>6, <2>2 DEF ConsumeVerdict, GoesOn, identity
<1> QED
  BY <1>1, <1>3, <1>4, <1>5, <1>6 DEF AuditStep

\* What a session does with hygiene evidence, in these terms.
LEMMA HygieneGoes ==
  ASSUME TypeOK, SafetyInv, HygieneStep
  PROVE  Ends \/ GoesOn
<1>1. CASE ReserveHygiene \/ RearmHygiene \/ AdoptHygiene
  BY <1>1
  DEF ReserveHygiene, RearmHygiene, AdoptHygiene, StartsHygiene, NeedsHygiene, Pending, AtLoop,
      GoesOn, identity
<1>2. CASE LaunchHygiene \/ CorrelateHygiene
  BY <1>2 DEF LaunchHygiene, CorrelateHygiene, HygieneUndispatched, GoesOn, memory, identity
<1>3. CASE HygieneRecoveryRefused \/ HygieneWorkerFailed
  BY <1>3 DEF HygieneRecoveryRefused, HygieneWorkerFailed, HygieneUndispatched, Ends
<1>4. CASE ConsumeHygiene
  <2> DEFINE h == HygieneFor(delivery, hygiene.examined, hygiene.result)
  <2>1. h \in Hygiene
    BY <1>4, Held, HygieneForType DEF ConsumeHygiene, HygieneRun
  <2>2. ApplyHygiene(delivery, h).materialHeadSha = delivery.materialHeadSha
    BY <2>1, Held, ApplyHygieneFrame DEF SameEvidence
  <2> QED
    BY <1>4, <2>2 DEF ConsumeHygiene, GoesOn, identity
<1>5. CASE ResolvePending
  <2>1. ResolveHygiene(delivery).materialHeadSha = delivery.materialHeadSha
    BY Held, ResolveHygieneFrame DEF SameEvidence
  <2> QED
    BY <1>5, <2>1 DEF ResolvePending, AtLoop, GoesOn, identity
<1> QED
  BY <1>1, <1>2, <1>3, <1>4, <1>5 DEF HygieneStep

\* What a session does in the end, in these terms.
LEMMA ReleaseGoes ==
  ASSUME ReleaseStep
  PROVE  Ends \/ GoesOn
<1>1. CASE Release
  BY <1>1 DEF Release, GoesOn, identity
<1>2. CASE ReleaseIdentityDrifts \/ ReleaseRefused \/ RecordRelease \/ ReportEscalation
  BY <1>2
  DEF ReleaseIdentityDrifts, ReleaseRefused, RecordRelease, ReportEscalation, Pending, AtLoop,
      Ends
<1>3. CASE Reading
  <2>1. PICK next \in ReleasePcs : ReadsIdentity(next)
    BY <1>3, ReleaseReads
  <2> QED
    BY <1>3, <2>1, ReleaseReads DEF ReadsIdentity, GoesOn, ReleasePcs
<1> QED
  BY <1>1, <1>2, <1>3 DEF ReleaseStep, Reading

\* A step of a session ends it or goes on.
LEMMA SessionGoes ==
  ASSUME TypeOK, SafetyInv, SessionStep
  PROVE  Ends \/ GoesOn
BY MaterialGoes, CiGoes, WorkerGoes, AuditGoes, HygieneGoes, ReleaseGoes DEF SessionStep

\* A step of a session keeps the progress.
LEMMA SessionProgress ==
  ASSUME TypeOK, TypeOK', SafetyInv, ProgressInv, SessionStep
  PROVE  ProgressInv'
<1>1. CASE Ends
  BY <1>1 DEF Ends, EndSession, ProgressInv, github
<1>2. CASE GoesOn
  <2>1. delivery.materialHeadSha <= delivery'.materialHeadSha
    BY <1>2, SafetyHeld, Held, DomainTypes, MaxHeadAssumption DEF GoesOn, ProgressInv, HeadOrNone
  <2>2. ASSUME pc' # "released", NEW h \in Heads, h >= delivery'.materialHeadSha
        PROVE  commitStatus'[h] # "success"
    <3>1. delivery.materialHeadSha \in Nat /\ delivery'.materialHeadSha \in Nat /\ h \in Nat
      BY <1>2, Held, DomainTypes, MaxHeadAssumption DEF GoesOn, HeadOrNone
    <3>2. commitStatus[h] # "success"
      BY <1>2, <2>1, <2>2, <3>1 DEF GoesOn, ProgressInv
    <3> QED
      BY <1>2, <2>2, <3>2 DEF GoesOn, SetStatus, TypeOK
  <2> QED
    BY <1>2, <2>2 DEF GoesOn, ProgressInv, github
<1> QED
  BY <1>1, <1>2, SessionGoes

\* A step in which nobody publishes and heads only go up keeps the progress.
LEMMA QuietProgress ==
  ASSUME ProgressInv, UNCHANGED <<commitStatus, session, pc, delivery>>,
         UNCHANGED <<remoteHead, lastHead>> \/ Push
  PROVE  ProgressInv'
BY DEF ProgressInv, Push

\* A new session works on the last head, whose success it has withdrawn.
LEMMA ResumeProgress ==
  ASSUME TypeOK, TypeOK', SafetyInv, ProgressInv, Resume \/ ResumeRearmingHygiene
  PROVE  ProgressInv'
<1>1. /\ session = "none" /\ UNCHANGED github
      /\ \E d \in Delivery : \E c :
            ResumeFrom(d, c) /\ (~StoredStale => d.materialHeadSha = remoteHead)
  <2>1. Loaded \in Delivery /\ (~StoredStale => Loaded.materialHeadSha = remoteHead)
    BY LoadedSound
  <2>2. CASE Resume
    <3>1. \/ ResumeFrom(Loaded, controller)
          \/ ResumeFrom(ApplyHygiene(Loaded, controller.technicalHygiene), controller)
      BY <2>2 DEF Resume
    <3>2. /\ ApplyHygiene(Loaded, controller.technicalHygiene) \in Delivery
          /\ ApplyHygiene(Loaded, controller.technicalHygiene).materialHeadSha
               = Loaded.materialHeadSha
      BY <2>1, Held, ControllerFields, ApplyHygieneType, ApplyHygieneFrame DEF SameEvidence
    <3> QED
      BY <2>1, <2>2, <3>1, <3>2 DEF Resume, CanResume
  <2>3. CASE ResumeRearmingHygiene
    <3> DEFINE back == [Loaded EXCEPT !.status = "technical-hygiene-pending",
                                      !.terminalReason = "none"]
               c == [controller EXCEPT !.nextAction = "dispatch-technical-hygiene",
                                       !.hygieneRun = "reserved",
                                       !.technicalHygiene = NoHygiene]
    <3>1. ResumeFrom(back, c) \/ ResumeFrom(Loaded, c)
      BY <2>3 DEF ResumeRearmingHygiene
    <3>2. back \in Delivery /\ back.materialHeadSha = Loaded.materialHeadSha
      BY <2>1 DEF Delivery, Statuses, Reasons
    <3> HIDE DEF back, c
    <3> QED
      BY <2>1, <2>3, <3>1, <3>2 DEF ResumeRearmingHygiene, CanResume
  <2> QED
    BY <2>2, <2>3
<1>2. PICK d \in Delivery : \E c :
        ResumeFrom(d, c) /\ (~StoredStale => d.materialHeadSha = remoteHead)
  BY <1>1
<1>3. PICK c :
        ResumeFrom(d, c) /\ (~StoredStale => d.materialHeadSha = remoteHead)
  BY <1>2
<1>4. \E e, k : EnterResume(e, k) /\ e.materialHeadSha = remoteHead
  <2> DEFINE r == RebuildCiPendingState(headRisk[remoteHead], remoteHead, d)
  <2>1. r.materialHeadSha = remoteHead
    BY Held, RebuildCiPendingStateFrame DEF NoEvidence
  <2>2. StoredStale => MustRebuildOnResume(StoredStale, d)
    BY Zenon DEF MustRebuildOnResume
  <2>3. EnterResume(r, RebuiltMetadata(c)) \/ (~StoredStale /\ EnterResume(d, c))
    BY <1>3, <2>2, Zenon DEF ResumeFrom
  <2> HIDE DEF r
  <2> QED
    BY <1>3, <2>1, <2>3
<1>5. PICK e, k : EnterResume(e, k) /\ e.materialHeadSha = remoteHead
  BY <1>4
<1>6. SetStatus(remoteHead, "pending")
  BY <1>5 DEF EnterResume
<1>7. CASE UNCHANGED memory
  BY <1>1, <1>7 DEF ProgressInv, memory, identity, github
<1>8. CASE /\ session' = "resume" /\ pc' \in {"recover", "loop"}
           /\ delivery'.materialHeadSha = remoteHead
  <2>1. ASSUME NEW h \in Heads, h >= remoteHead PROVE commitStatus'[h] # "success"
    <3>1. CASE h = remoteHead
      BY <1>6, <3>1 DEF SetStatus, TypeOK
    <3>2. CASE h # remoteHead
      <4>1. ~(h <= lastHead)
        BY <2>1, <3>2, SafetyHeld, DomainTypes DEF ProgressInv
      <4>2. commitStatus[h] = "none"
        BY <4>1 DEF SafetyInv, StatusInv
      <4> QED
        BY <1>6, <3>2, <4>2 DEF SetStatus, TypeOK
    <3> QED
      BY <3>1, <3>2
  <2> QED
    BY <1>1, <1>8, <2>1 DEF ProgressInv, github
<1>9. UNCHANGED memory \/ (/\ session' = "resume" /\ pc' \in {"recover", "loop"}
                           /\ delivery'.materialHeadSha = remoteHead)
  BY <1>5 DEF EnterResume
<1> QED
  BY <1>7, <1>8, <1>9

\* The progress is an invariant.
LEMMA ProgressHolds ==
  /\ Init => ProgressInv
  /\ TypeOK /\ TypeOK' /\ SafetyInv /\ ProgressInv /\ [Next]_vars => ProgressInv'
<1>1. Init => ProgressInv
  BY DEF Init, ProgressInv, NoDelivery, CreateDeliveryState
<1>2. ASSUME TypeOK, TypeOK', SafetyInv, ProgressInv, [Next]_vars PROVE ProgressInv'
  <2>1. CASE Environment \/ WorkerRuns \/ UNCHANGED vars
    BY <1>2, <2>1, QuietProgress
    DEF Environment, WorkerRuns, ExternalPush, BaseAdvance, ControlPlaneRelease, WorkerPushes,
        WorkerEndsWithoutPush, vars, github, memory, identity
  <2>2. CASE Crash
    BY <1>2, <2>2 DEF Crash, EndSession, ProgressInv, github
  <2> QED
    BY <1>2, <2>1, <2>2, SessionProgress, ResumeProgress DEF Next
<1> QED
  BY <1>1, <1>2

\* While a session evaluates a head, GitHub shows no success for it.
THEOREM NoSuccessWhileEvaluating == Spec => []NoStaleSuccess
<1>1. TypeOK /\ ProgressInv => NoStaleSuccess
  BY Held, MaxHeadAssumption DEF ProgressInv, NoStaleSuccess, HeadOrNone, Heads, NoHead
<1> QED
  BY <1>1, ProgressHolds, Safe, TypeCorrect, PTL DEF Spec

-----------------------------------------------------------------------------
(* The audits of an initial session.                                         *)

\* The initial controller starts an audit without looking whether it was refused for
\* want of attempts: that it never is rests on this.
InitialInv ==
  session = "initial" /\ pc # "discover" =>
    /\ AuditsAlternate(delivery)
    /\ pc \notin {"recover", "hygiene"}
    /\ pc \in {"assess", "promote", "promoting"} => delivery.status = "ci-pending"

\* A session that keeps its delivery and does not move to a place of its own keeps
\* the audits alternating.
LEMMA InitialUnchanged ==
  ASSUME InitialInv, UNCHANGED <<session, delivery>>,
         UNCHANGED pc \/ pc' \in {"loop", "worker", "audit", "released"} \cup ReleasePcs,
         pc = "discover" => pc' = "discover"
  PROVE  InitialInv'
BY DEF InitialInv, AuditsAlternate, Unaudited, HygienePassed, HygieneForMaterial, ReleasePcs

\* A session that ends, or that resumed another, is not concerned.
LEMMA InitialVoid ==
  ASSUME session' # "initial"
  PROVE  InitialInv'
BY DEF InitialInv

\* A session that goes on with an alternating delivery.
LEMMA InitialMoved ==
  ASSUME NEW d, delivery' = d, AuditsAlternate(d),
         \/ pc' \in {"loop", "worker", "audit", "released"}
         \/ pc' \in {"assess", "promote", "promoting"} /\ d.status = "ci-pending"
  PROVE  InitialInv'
BY DEF InitialInv

\* Material of an initial session.
LEMMA MaterialAlternates ==
  ASSUME TypeOK, TypeOK', SafetyInv, InitialInv, session = "initial", MaterialStep
  PROVE  InitialInv'
<1>0. delivery \in Delivery
  BY Held
<1>1. CASE DiscoverMaterial
  <2> DEFINE created == CreateOperationalDelivery(headRisk[remoteHead], remoteHead)
             d == [created EXCEPT !.implementationAttempts = bootstrapAttempts]
  <2>1. /\ created \in Delivery /\ created.status = "ci-pending"
        /\ created.auditAttempts = 0 /\ created.auditRemediationAttempts = 0
    BY Held, CreateOperationalDeliveryType, CreatedAlternates
  <2>2. delivery' = d /\ pc' = "assess"
    BY <1>1 DEF DiscoverMaterial
  <2> HIDE DEF created
  <2>3. d.status = "ci-pending" /\ d.auditAttempts = 0 /\ d.auditRemediationAttempts = 0
    BY <2>1 DEF Delivery
  <2> HIDE DEF d
  <2> QED
    BY <2>2, <2>3, InitialMoved DEF AuditsAlternate
<1>2. ASSUME NEW d \in Delivery, SameAttempts(delivery, d), d.status = "ci-pending",
             pc \in {"assess", "promote", "promoting"}
      PROVE  AuditsAlternate(d)
  <2>1. delivery.auditAttempts <= delivery.auditRemediationAttempts
    BY <1>2 DEF InitialInv, AuditsAlternate, Unaudited
  <2> QED
    BY <1>0, <1>2, <2>1, PendingAlternates
<1>3. ASSUME NEW h \in Hygiene, pc \in {"assess", "promoting"}, NEW b,
             AcceptMaterial(ApplyHygiene(delivery, h), b)
      PROVE  InitialInv'
  <2> DEFINE d == ApplyHygiene(delivery, h)
  <2>1. delivery.status = "ci-pending"
    BY <1>3 DEF InitialInv
  <2>2. /\ d \in Delivery /\ SameAttempts(delivery, d) /\ d.status = "ci-pending"
    BY <1>0, <2>1, ApplyHygieneType, ApplyHygieneFrame, HygieneBeforeCi DEF SameBudget
  <2>3. delivery' = d /\ pc' \in {"promote", "loop"}
    BY <1>3 DEF AcceptMaterial
  <2> HIDE DEF d
  <2> QED
    BY <1>2, <1>3, <2>2, <2>3, InitialMoved
<1>4. CASE AssessMaterial
  BY <1>3, <1>4, Held, HygieneForType DEF AssessMaterial, AssessedMaterial
<1>5. CASE MaterialPromoted
  <2>1. hygiene.result \in HygieneResults
    BY <1>5, Held DEF MaterialPromoted, PromotionHolds, HygieneRun
  <2> QED
    BY <1>3, <1>5, <2>1, Held, HygieneForType DEF MaterialPromoted, PromotionResult
<1>6. CASE ReservePromotion
  <2>1. pc = "promote" /\ delivery' = Promoted /\ pc' = "promoting"
    BY <1>6 DEF ReservePromotion, AwaitsPromotion, Pending
  <2>2. delivery.status = "ci-pending" /\ PromotedRisk \in Profiles
    BY <2>1, Held DEF InitialInv, PromotedRisk, Profiles
  <2>3. Promoted \in Delivery /\ SameAttempts(delivery, Promoted) /\ Promoted.status = "ci-pending"
    BY <2>2, Held, PromoteRiskType, PromoteRiskFrame DEF Promoted
  <2> QED
    BY <1>2, <2>1, <2>3, InitialMoved
<1>7. CASE PendingPromoted
  BY <1>7 DEF PendingPromoted, InitialInv
<1>8. CASE MaterialUnstorable \/ PromotionFailed
  BY <1>8, InitialVoid DEF MaterialUnstorable, PromotionFailed, EndSession
<1> QED
  BY <1>1, <1>4, <1>5, <1>6, <1>7, <1>8 DEF MaterialStep

\* Required CI of an initial session.
LEMMA CiAlternates ==
  ASSUME TypeOK, SafetyInv, InitialInv, session = "initial", CiStep
  PROVE  InitialInv'
<1>1. CASE CiSucceeds
  <2>1. /\ AuditsAlternate(delivery) /\ delivery.status = "ci-pending"
        /\ delivery' = ApplyCiSuccess(delivery) /\ pc' = "loop"
    BY <1>1 DEF CiSucceeds, AwaitsCi, CanRecordCi, InitialInv
  <2> QED
    BY <2>1, Held, CiSuccessAlternates, InitialMoved
<1>2. CASE CiFailsActionably
  <2>1. /\ AuditsAlternate(delivery) /\ delivery.status = "ci-pending"
        /\ delivery' = RecordCiFailure(delivery, "actionable") /\ pc' = "loop"
    BY <1>2 DEF CiFailsActionably, AwaitsCi, CanRecordCi, InitialInv
  <2> QED
    BY <2>1, Held, CiFailureAlternates, InitialMoved
<1>3. CASE InitialObservesDrift \/ InitialBlockedByHygiene \/ CiFailsExternally
  BY <1>3, InitialVoid
  DEF InitialObservesDrift, InitialBlockedByHygiene, CiFailsExternally, EndSession
<1> QED
  BY <1>1, <1>2, <1>3 DEF CiStep, ResumeObservesDrift

\* Remediations of an initial session.
LEMMA WorkerAlternates ==
  ASSUME TypeOK, SafetyInv, InitialInv, session = "initial", WorkerStep
  PROVE  InitialInv'
<1>1. CASE ReserveRemediation
  <2>1. /\ AuditsAlternate(delivery) /\ pc = "loop" /\ pc' \in {"loop", "worker"}
        /\ delivery' = StartImplementation(delivery)
    BY <1>1 DEF ReserveRemediation, InitialInv
  <2>2. Unaudited(delivery) \/ delivery.status = "audit-failed-remediable"
    BY <1>1
    DEF ReserveRemediation, CanStartImplementation, InitialWaitsForCi, HygieneBlocked, AtLoop,
        Unaudited
  <2> QED
    BY <2>1, <2>2, Held, RemediationSpends, InitialMoved
<1>2. CASE LaunchWorker \/ CorrelateWorker \/ RearmWorker
  BY <1>2, InitialUnchanged DEF LaunchWorker, CorrelateWorker, RearmWorker, memory, identity
<1>3. CASE MaterialPublished
  <2> DEFINE published == PublishMaterial(delivery, remoteHead)
             h == HygieneFor(published, worker.head, worker.hygiene)
             d == ApplyHygiene(published, h)
  <2>1. /\ AcceptMaterial(d, base) /\ delivery.status = "implementing"
        /\ AuditsAlternate(delivery)
    BY <1>3
    DEF MaterialPublished, MaterialAppears, WorkerFinished, CanPublishMaterial, InitialInv
  <2>2. /\ published \in Delivery /\ SameAttempts(delivery, published)
        /\ published.status = "ci-pending"
    <3>1. published.status = "ci-pending"
      BY Held DEF PublishMaterial, Delivery
    <3> QED
      BY <3>1, Held, PublishMaterialType, PublishMaterialFrame DEF SameBudget
  <2>3. h \in Hygiene
    BY <2>2, Held, HygieneForType
  <2> HIDE DEF published, h
  <2>4. d \in Delivery /\ SameAttempts(published, d) /\ d.status = "ci-pending"
    BY <2>2, <2>3, ApplyHygieneType, ApplyHygieneFrame, HygieneBeforeCi DEF SameBudget
  <2>5. delivery' = d /\ pc' \in {"promote", "loop"}
    BY <2>1 DEF AcceptMaterial
  <2> HIDE DEF d
  <2>6. AuditsAlternate(d)
    <3>1. delivery.auditAttempts <= delivery.auditRemediationAttempts
      BY <2>1 DEF AuditsAlternate, Unaudited
    <3> QED
      BY <2>2, <2>4, <3>1, Held, PendingAlternates DEF SameAttempts
  <2> QED
    BY <2>4, <2>5, <2>6, InitialMoved
<1>4. CASE RecoveryRefused \/ WorkerFailed \/ RemediationWithoutMaterial
           \/ MaterialNeverAppears \/ MaterialEscalates
  BY <1>4, InitialVoid
  DEF RecoveryRefused, WorkerFailed, RemediationWithoutMaterial, MaterialNeverAppears,
      MaterialEscalates, EndSession
<1> QED
  BY <1>1, <1>2, <1>3, <1>4 DEF WorkerStep

\* Audits of an initial session.
LEMMA AuditAlternates ==
  ASSUME TypeOK, SafetyInv, InitialInv, session = "initial", AuditStep
  PROVE  InitialInv'
<1>1. CASE ReserveAudit
  <2>1. /\ AuditsAlternate(delivery) /\ CanStartAudit(delivery)
        /\ delivery' = StartAudit(delivery) /\ pc' \in {"loop", "audit"}
    BY <1>1 DEF ReserveAudit, StartsAudit, AtLoop, InitialInv
  <2> QED
    BY <2>1, Held, AuditSpends, InitialMoved
<1>2. CASE LaunchAudit \/ CorrelateAudit
  BY <1>2, InitialUnchanged DEF LaunchAudit, CorrelateAudit, memory, identity
<1>3. CASE AuditRecoveryRefused \/ AuditWorkflowFailed
  BY <1>3, InitialVoid DEF AuditRecoveryRefused, AuditWorkflowFailed, EndSession
<1>4. CASE ConsumeVerdict
  <2>1. /\ AuditsAlternate(delivery) /\ delivery.status = "audit-pending"
        /\ delivery' = ApplyAuditResult(delivery, audit.verdict) /\ pc' = "loop"
    BY <1>4 DEF ConsumeVerdict, CanRecordAudit, InitialInv
  <2>2. audit.verdict \in AuditVerdicts
    BY <1>4, Held DEF ConsumeVerdict, VerdictReadable, AuditRun
  <2> QED
    BY <2>1, <2>2, Held, VerdictAlternates, InitialMoved
<1> QED
  BY <1>1, <1>2, <1>3, <1>4 DEF AuditStep, RearmAudit, AdoptAudit

\* Hygiene evidence of an initial session.
LEMMA HygieneAlternates ==
  ASSUME TypeOK, SafetyInv, InitialInv, session = "initial", HygieneStep
  PROVE  InitialInv'
<1>1. ~NeedsHygiene /\ pc # "hygiene"
  BY DEF NeedsHygiene, Pending, InitialInv
<1>2. CASE LaunchHygiene \/ CorrelateHygiene
  BY <1>1, <1>2, InitialUnchanged
  DEF LaunchHygiene, CorrelateHygiene, HygieneUndispatched, memory, identity
<1>3. CASE HygieneRecoveryRefused
  BY <1>3, InitialVoid DEF HygieneRecoveryRefused, EndSession
<1>4. CASE ResolvePending
  <2>1. /\ AuditsAlternate(delivery) /\ delivery.status = "technical-hygiene-pending"
        /\ delivery' = ResolveHygiene(delivery) /\ pc' = "loop"
    BY <1>4 DEF ResolvePending, AtLoop, InitialInv
  <2> QED
    BY <2>1, Held, ResolveAlternates, InitialMoved
<1> QED
  BY <1>1, <1>2, <1>3, <1>4
  DEF HygieneStep, ReserveHygiene, RearmHygiene, AdoptHygiene, HygieneWorkerFailed, ConsumeHygiene

\* The audits of a session that nobody resumed alternate with its remediations.
LEMMA InitialHolds ==
  /\ Init => InitialInv
  /\ TypeOK /\ TypeOK' /\ SafetyInv /\ ProgressInv /\ InitialInv /\ [Next]_vars => InitialInv'
<1>1. Init => InitialInv
  BY DEF Init, InitialInv
<1>2. ASSUME TypeOK, TypeOK', SafetyInv, ProgressInv, InitialInv, [Next]_vars PROVE InitialInv'
  <2>1. CASE Environment \/ WorkerRuns \/ UNCHANGED vars
    BY <1>2, <2>1, InitialUnchanged
    DEF Environment, WorkerRuns, ExternalPush, BaseAdvance, ControlPlaneRelease, WorkerPushes,
        WorkerEndsWithoutPush, vars, memory, identity
  <2>2. CASE Crash
    BY <2>2, InitialVoid DEF Crash, EndSession
  <2>3. CASE SessionStep /\ session = "initial"
    <3>1. CASE ReleaseStep
      <4>1. CASE Reading
        <5>1. PICK next \in ReleasePcs : ReadsIdentity(next)
          BY <4>1, ReleaseReads
        <5> QED
          BY <1>2, <4>1, <5>1, ReleaseReads, InitialUnchanged DEF ReadsIdentity, ReleasePcs
      <4>2. CASE ~Reading
        BY <1>2, <3>1, <4>2, InitialUnchanged, InitialVoid
        DEF ReleaseStep, Release, ReleaseIdentityDrifts, ReleaseRefused, RecordRelease,
            ReportEscalation, AtLoop, EndSession, identity, Reading
      <4> QED
        BY <4>1, <4>2
    <3> QED
      BY <1>2, <2>3, <3>1, MaterialAlternates, CiAlternates, WorkerAlternates, AuditAlternates,
         HygieneAlternates
      DEF SessionStep
  <2>4. CASE SessionStep /\ session # "initial"
    BY <1>2, <2>4, SessionGoes, InitialVoid DEF Ends, GoesOn, EndSession
  <2>5. CASE Resume \/ ResumeRearmingHygiene
    <3>1. session = "none" /\ (session' = "resume" \/ UNCHANGED session)
      BY <2>5 DEF Resume, ResumeRearmingHygiene, CanResume, ResumeFrom, EnterResume, memory,
         identity
    <3> QED
      BY <3>1, InitialVoid
  <2> QED
    BY <1>2, <2>1, <2>2, <2>3, <2>4, <2>5 DEF Next
<1> QED
  BY <1>1, <1>2

-----------------------------------------------------------------------------
(* Every run is paid for.                                                     *)

\* Until the first session has stored the material, nothing was launched; the first
\* thing stored charges the attempts of the bootstrap.
BootstrapInv ==
  IF persistent.materialHeadSha = NoHead
  THEN /\ workerLaunches = 0 /\ auditLaunches = 0
       /\ controller = NoController /\ audit = NoAuditRun
       /\ pc \in {"idle", "discover", "assess", "promote"}
       /\ pc \in {"assess", "promote"} => delivery.implementationAttempts >= bootstrapAttempts
  ELSE persistent.implementationAttempts >= bootstrapAttempts

\* What a session does after it has stored its material.
LEMMA StoredPcs ==
  ASSUME CiStep \/ WorkerStep \/ AuditStep \/ HygieneStep \/ ReleaseStep
  PROVE  /\ pc \in HoldingPcs
         /\ CiStep \/ WorkerStep \/ AuditStep \/ HygieneStep => pc \in StoringPcs
<1>1. ASSUME CiStep PROVE pc \in StoringPcs
  BY <1>1
  DEF CiStep, InitialObservesDrift, InitialBlockedByHygiene, ResumeObservesDrift, CiSucceeds,
      CiFailsActionably, CiFailsExternally, InitialWaitsForCi, HygieneBlocked, AtLoop, AwaitsCi,
      StoringPcs
<1>2. ASSUME WorkerStep PROVE pc \in StoringPcs
  BY <1>2
  DEF WorkerStep, ReserveRemediation, LaunchWorker, CorrelateWorker, RecoveryRefused, RearmWorker,
      WorkerFailed, RemediationWithoutMaterial, MaterialNeverAppears, MaterialEscalates,
      MaterialPublished, MaterialAppears, WorkerFinished, StoringPcs
<1>3. ASSUME AuditStep PROVE pc \in StoringPcs
  BY <1>3
  DEF AuditStep, ReserveAudit, RearmAudit, AdoptAudit, LaunchAudit, CorrelateAudit,
      AuditRecoveryRefused, AuditWorkflowFailed, ConsumeVerdict, AtLoop, StoringPcs
<1>4. ASSUME HygieneStep PROVE pc \in StoringPcs
  BY <1>4
  DEF HygieneStep, ReserveHygiene, RearmHygiene, AdoptHygiene, LaunchHygiene, CorrelateHygiene,
      HygieneRecoveryRefused, HygieneWorkerFailed, ConsumeHygiene, ResolvePending, NeedsHygiene,
      HygieneUndispatched, Pending, AtLoop, StoringPcs
<1>5. ASSUME ReleaseStep PROVE pc \in HoldingPcs
  BY <1>5, ReleaseReads
  DEF ReleaseStep, ReleaseIdentityDrifts, ReleaseRefused, Release, RecordRelease, Reading,
      ReportEscalation, Pending, AtLoop, HoldingPcs, StoringPcs, ReleasePcs
<1> QED
  BY <1>1, <1>2, <1>3, <1>4, <1>5 DEF HoldingPcs

\* Only launches launch, and the attempts of the bootstrap are history.
LEMMA HistoryKept ==
  ASSUME [Next]_vars
  PROVE  UNCHANGED bootstrapAttempts
<1>1. CASE SessionStep
  <2>1. CASE MaterialStep
    BY <2>1
    DEF MaterialStep, DiscoverMaterial, AssessMaterial, MaterialUnstorable, ReservePromotion,
        PromotionFailed, MaterialPromoted, PendingPromoted, history
  <2>2. CASE CiStep
    BY <2>2
    DEF CiStep, InitialObservesDrift, InitialBlockedByHygiene, ResumeObservesDrift, CiSucceeds,
        CiFailsActionably, CiFailsExternally, history
  <2>3. CASE WorkerStep
    BY <2>3
    DEF WorkerStep, ReserveRemediation, LaunchWorker, CorrelateWorker, RecoveryRefused,
        RearmWorker, WorkerFailed, RemediationWithoutMaterial, MaterialNeverAppears,
        MaterialEscalates, MaterialPublished, history
  <2>4. CASE AuditStep
    BY <2>4
    DEF AuditStep, ReserveAudit, RearmAudit, AdoptAudit, LaunchAudit, CorrelateAudit,
        AuditRecoveryRefused, AuditWorkflowFailed, ConsumeVerdict, history
  <2>5. CASE HygieneStep
    BY <2>5
    DEF HygieneStep, ReserveHygiene, RearmHygiene, AdoptHygiene, LaunchHygiene, CorrelateHygiene,
        HygieneRecoveryRefused, HygieneWorkerFailed, ConsumeHygiene, ResolvePending,
        StartsHygiene, history
  <2>6. CASE ReleaseStep
    BY <2>6, ReleaseReads
    DEF ReleaseStep, ReleaseIdentityDrifts, ReleaseRefused, Release, RecordRelease,
        ReportEscalation, Reading, ReadsIdentity, history
  <2> QED
    BY <1>1, <2>1, <2>2, <2>3, <2>4, <2>5, <2>6 DEF SessionStep
<1>2. CASE Environment \/ WorkerRuns \/ Crash \/ Resume \/ ResumeRearmingHygiene \/ UNCHANGED vars
  BY <1>2
  DEF Environment, WorkerRuns, ExternalPush, BaseAdvance, ControlPlaneRelease, WorkerPushes,
      WorkerEndsWithoutPush, Crash, Resume, ResumeRearmingHygiene, vars, history
<1> QED
  BY <1>1, <1>2 DEF Next

\* Material is stored, first, with the attempts of the bootstrap.
LEMMA MaterialBootstraps ==
  ASSUME TypeOK, TypeOK', SafetyInv, BootstrapInv, MaterialStep, UNCHANGED bootstrapAttempts,
         persistent.materialHeadSha = NoHead
  PROVE  BootstrapInv'
<1>1. CASE DiscoverMaterial
  <2> DEFINE created == CreateOperationalDelivery(headRisk[remoteHead], remoteHead)
  <2>1. created \in Delivery
    BY Held, CreateOperationalDeliveryType
  <2> HIDE DEF created
  <2>2. delivery'.implementationAttempts = bootstrapAttempts /\ bootstrapAttempts \in Nat
    BY <1>1, <2>1 DEF DiscoverMaterial, created, Delivery, TypeOK
  <2> QED
    BY <1>1, <2>2 DEF DiscoverMaterial, BootstrapInv, comment, runs, history, launches
<1>2. CASE AssessMaterial
  <2> DEFINE d == AssessedMaterial
  <2>1. /\ d \in Delivery /\ d.implementationAttempts = delivery.implementationAttempts
        /\ d.materialHeadSha = delivery.materialHeadSha /\ delivery.materialHeadSha \in Heads
    BY <1>2, Held, HygieneForType, ApplyHygieneType, ApplyHygieneFrame
    DEF AssessedMaterial, SameEvidence, SameBudget, SameAttempts, AssessMaterial, SafetyInv,
        MemoryInv
  <2>2. /\ Persisted(d).implementationAttempts = d.implementationAttempts
        /\ Persisted(d).materialHeadSha = d.materialHeadSha
    BY <2>1, PersistedFrame DEF SameEvidence, SameBudget, SameAttempts
  <2>3. d.materialHeadSha # NoHead
    BY <2>1, MaxHeadAssumption DEF Heads, NoHead
  <2> HIDE DEF d
  <2>4. delivery' = d /\ ((pc' = "promote" /\ UNCHANGED comment) \/ persistent' = Persisted(d))
    BY <1>2 DEF AssessMaterial, AcceptMaterial, Persist, d
  <2> QED
    BY <1>2, <2>1, <2>2, <2>3, <2>4
    DEF AssessMaterial, BootstrapInv, comment, runs, history, launches
<1>3. CASE MaterialUnstorable
  BY <1>3 DEF MaterialUnstorable, EndSession, BootstrapInv, comment, runs, history, launches
<1>4. CASE ReservePromotion
  <2>1. /\ delivery.materialHeadSha \in Heads /\ pc = "promote"
    BY <1>4 DEF ReservePromotion, AwaitsPromotion, Pending, AtLoop, SafetyInv, MemoryInv,
       BootstrapInv
  <2>2. /\ Promoted \in Delivery
        /\ Promoted.implementationAttempts = delivery.implementationAttempts
        /\ Promoted.materialHeadSha = delivery.materialHeadSha
    BY Held, PromoteRiskFrame, PromoteRiskType
    DEF Promoted, PromotedRisk, Profiles, SameEvidence, SameAttempts
  <2>3. /\ Persisted(Promoted).implementationAttempts = delivery.implementationAttempts
        /\ Persisted(Promoted).materialHeadSha # NoHead
    BY <2>1, <2>2, PersistedFrame, MaxHeadAssumption
    DEF SameEvidence, SameBudget, SameAttempts, Heads, NoHead
  <2> QED
    BY <1>4, <2>1, <2>3 DEF ReservePromotion, Persist, BootstrapInv
<1>5. CASE PromotionFailed \/ MaterialPromoted \/ PendingPromoted
  BY <1>5 DEF PromotionFailed, MaterialPromoted, PendingPromoted, BootstrapInv
<1> QED
  BY <1>1, <1>2, <1>3, <1>4, <1>5 DEF MaterialStep

\* The bootstrap is an invariant.
LEMMA BootstrapHolds ==
  /\ TypeOK /\ Init => BootstrapInv
  /\ TypeOK /\ TypeOK' /\ SafetyInv /\ BootstrapInv /\ [Next]_vars => BootstrapInv'
<1>1. Init => BootstrapInv
  BY DEF Init, BootstrapInv, NoDelivery, CreateDeliveryState
<1>2. ASSUME TypeOK, TypeOK', SafetyInv, BootstrapInv, [Next]_vars PROVE BootstrapInv'
  <2>1. Kept /\ UNCHANGED bootstrapAttempts
    BY <1>2, NextSafe, HistoryKept
  <2>2. CASE persistent.materialHeadSha # NoHead
    <3>1. persistent'.materialHeadSha # NoHead
      BY <2>1, <2>2 DEF Kept
    <3>2. /\ bootstrapAttempts \in Nat /\ persistent.implementationAttempts \in Nat
          /\ persistent'.implementationAttempts \in Nat
      BY <1>2, DeliveryFields DEF TypeOK
    <3> QED
      BY <1>2, <2>1, <2>2, <3>1, <3>2 DEF BootstrapInv, Kept, SpentAtLeast
  <2>3. CASE persistent.materialHeadSha = NoHead
    <3>1. CASE MaterialStep
      BY <1>2, <2>1, <2>3, <3>1, MaterialBootstraps
    <3>2. CASE CiStep \/ WorkerStep \/ AuditStep \/ HygieneStep \/ ReleaseStep
      BY <1>2, <2>3, <3>2, StoredPcs DEF BootstrapInv, HoldingPcs, StoringPcs, ReleasePcs
    <3>3. CASE Crash
      BY <1>2, <2>3, <3>3 DEF Crash, EndSession, BootstrapInv, comment, runs, history, launches
    <3>4. CASE Resume \/ ResumeRearmingHygiene
      BY <2>3, <3>4 DEF Resume, ResumeRearmingHygiene, CanResume
    <3>5. CASE Environment \/ WorkerRuns \/ UNCHANGED vars
      BY <1>2, <2>1, <2>3, <3>5
      DEF Environment, WorkerRuns, ExternalPush, BaseAdvance, ControlPlaneRelease, WorkerPushes,
          WorkerEndsWithoutPush, vars, runs, memory, comment, history, launches, BootstrapInv
    <3> QED
      BY <1>2, <3>1, <3>2, <3>3, <3>4, <3>5 DEF Next, SessionStep
  <2> QED
    BY <2>2, <2>3
<1> QED
  BY <1>1, <1>2

-----------------------------------------------------------------------------
(* What the comment has granted, and what is still owed.                      *)

\* A run whose nonce is stored and that nobody has launched yet.
Owed(b) == IF b THEN 1 ELSE 0
WorkerOwed == Owed(controller.workerRun = "reserved" /\ worker.phase = "none")
AuditOwed == Owed(controller.auditRun = "reserved" /\ audit.candidate = NoHead)

\* A worker is launched on an attempt, or once under a later control plane.
WorkerCharged ==
  persistent.materialHeadSha # NoHead =>
    bootstrapAttempts + workerLaunches + WorkerOwed <=
      persistent.implementationAttempts + persistent.auditRemediationAttempts
        + controller.recoveredAt

\* An audit is launched on an attempt, or under a later control plane than the one
\* before it.
AuditCharged ==
  persistent.materialHeadSha # NoHead =>
    auditLaunches + AuditOwed <=
      persistent.auditAttempts
        + (IF audit.candidate = NoHead THEN controlPlane ELSE audit.controlPlane)

\* No run, recovery or checkout is from a control plane that is not released yet; a
\* session that may replace an audit knows the control plane the audit ran under.
CheckoutInv ==
  /\ controller.recoveredAt <= controlPlane /\ checkout <= controlPlane
  /\ audit.controlPlane <= controlPlane
  /\ session # "none" => controller.recoveredAt <= checkout
  /\ controller.auditRun = "observed" => audit.candidate # NoHead
  /\ pc \notin {"idle", "audit"} /\ audit.candidate # NoHead /\ ~audit.green
       /\ audit.verdict = "absent" => audit.controlPlane <= checkout

ChargedInv == WorkerCharged /\ AuditCharged /\ CheckoutInv

\* What does not launch or reserve a worker, or an audit.
WorkerKept ==
  /\ UNCHANGED workerLaunches /\ controller'.recoveredAt = controller.recoveredAt
  /\ worker'.phase = "none" => worker.phase = "none"
  /\ controller'.workerRun = "reserved" => controller.workerRun = "reserved"
AuditKept ==
  /\ UNCHANGED <<auditLaunches, audit>>
  /\ controller'.auditRun = "reserved" => controller.auditRun = "reserved"
  /\ controller'.auditRun = "observed" =>
       controller.auditRun = "observed" \/ audit.candidate # NoHead

\* Control planes are released, and a session has the one it started under; it
\* leaves an audit only with a verdict.
CheckoutKept ==
  /\ controlPlane' >= controlPlane
  /\ \/ EndSession
     \/ UNCHANGED controlPlane /\ checkout' = controlPlane
     \/ /\ UNCHANGED <<session, checkout>>
        /\ \/ pc' \in {"idle", "audit"} \/ pc \notin {"idle", "audit"}
           \/ audit.green \/ audit.verdict # "absent"

\* The numbers that are compared.
Numbers ==
  /\ persistent.implementationAttempts \in Nat
  /\ persistent.auditRemediationAttempts \in Nat /\ persistent.auditAttempts \in Nat
  /\ controller.recoveredAt \in Nat /\ controlPlane \in Nat /\ checkout \in Nat
  /\ audit.controlPlane \in Nat
  /\ bootstrapAttempts \in Nat /\ workerLaunches \in Nat /\ auditLaunches \in Nat
  /\ WorkerOwed \in {0, 1} /\ AuditOwed \in {0, 1}

\* The bounds and the counters of a typed state are numbers.
LEMMA Counts == (TypeOK => Numbers) /\ (TypeOK' => Numbers')
BY DeliveryFields, BoundsAssumption
DEF TypeOK, Controller, ControlPlanes, AuditRun, WorkerOwed, AuditOwed, Owed, Numbers

\* Nothing is launched, so nothing more is to be paid for.
LEMMA WorkerStaysCharged ==
  ASSUME TypeOK, TypeOK', BootstrapInv, BootstrapInv', WorkerCharged, Kept,
         UNCHANGED bootstrapAttempts, WorkerKept
  PROVE  WorkerCharged'
<1>1. WorkerOwed' <= WorkerOwed
  BY DEF WorkerKept, WorkerOwed, Owed
<1>2. CASE persistent.materialHeadSha # NoHead
  BY <1>1, <1>2, Counts DEF Numbers, WorkerCharged, WorkerKept, Kept, SpentAtLeast
<1>3. CASE persistent.materialHeadSha = NoHead
  <2>1. workerLaunches = 0 /\ WorkerOwed = 0
    BY <1>3 DEF BootstrapInv, WorkerOwed, Owed, NoController
  <2> QED
    BY <1>1, <2>1, Counts DEF Numbers, WorkerCharged, WorkerKept, BootstrapInv
<1> QED
  BY <1>2, <1>3

\* No audit is launched, so the audits of the stored head stay paid for.
LEMMA AuditStaysCharged ==
  ASSUME TypeOK, TypeOK', BootstrapInv, BootstrapInv', AuditCharged, Kept,
         controlPlane' >= controlPlane, AuditKept
  PROVE  AuditCharged'
<1>1. AuditOwed' <= AuditOwed
  BY DEF AuditKept, AuditOwed, Owed
<1>2. CASE persistent.materialHeadSha # NoHead
  BY <1>1, <1>2, Counts DEF Numbers, AuditCharged, AuditKept, Kept, SpentAtLeast
<1>3. CASE persistent.materialHeadSha = NoHead
  <2>1. auditLaunches = 0 /\ AuditOwed = 0 /\ audit.candidate = NoHead
    BY <1>3 DEF BootstrapInv, AuditOwed, Owed, NoController, NoAuditRun
  <2> QED
    BY <1>1, <2>1, Counts DEF Numbers, AuditCharged, AuditKept, BootstrapInv
<1> QED
  BY <1>2, <1>3

\* A step that leaves the checkout alone keeps what was audited on it.
LEMMA CheckoutStays ==
  ASSUME TypeOK, TypeOK', CheckoutInv, CheckoutKept, AuditKept,
         controller'.recoveredAt = controller.recoveredAt
  PROVE  CheckoutInv'
<1>1. CASE EndSession
  BY <1>1, Counts DEF Numbers, EndSession, CheckoutInv, CheckoutKept, AuditKept
<1>2. CASE UNCHANGED controlPlane /\ checkout' = controlPlane
  BY <1>2, Counts DEF Numbers, CheckoutInv, CheckoutKept, AuditKept
<1>3. CASE UNCHANGED <<session, checkout>>
           /\ \/ pc' \in {"idle", "audit"} \/ pc \notin {"idle", "audit"}
              \/ audit.green \/ audit.verdict # "absent"
  BY <1>3, Counts DEF Numbers, CheckoutInv, CheckoutKept, AuditKept
<1> QED
  BY <1>1, <1>2, <1>3 DEF CheckoutKept

\* A step that launches and reserves nothing keeps every run paid for.
Unlaunched == WorkerKept /\ AuditKept /\ CheckoutKept

\* A step that launches nothing keeps every launch paid for.
LEMMA UnlaunchedCharged ==
  ASSUME TypeOK, TypeOK', BootstrapInv, BootstrapInv', ChargedInv, Kept,
         UNCHANGED bootstrapAttempts, Unlaunched
  PROVE  ChargedInv'
BY WorkerStaysCharged, AuditStaysCharged, CheckoutStays
DEF ChargedInv, Unlaunched, CheckoutKept, WorkerKept

\* Metadata in which no run is reserved that was not.
NoReservation(c) ==
  /\ c.recoveredAt = controller.recoveredAt
  /\ c.workerRun \in {controller.workerRun, "none"}
  /\ c.auditRun \in {controller.auditRun, "none"}

\* Accepting a material reserves nothing.
LEMMA AcceptMaterialReserves ==
  ASSUME TypeOK, NEW d, NEW b, AcceptMaterial(d, b)
  PROVE  NoReservation(controller') /\ pc' # "idle"
<1>1. NoReservation(NewMaterialMetadata(d))
  BY Held DEF NoReservation, NewMaterialMetadata, Controller
<1> QED
  BY <1>1 DEF AcceptMaterial, Persist, NoReservation, comment

\* Material and CI launch nothing.
LEMMA MaterialLaunchesNothing ==
  ASSUME TypeOK, MaterialStep \/ CiStep
  PROVE  Unlaunched
<1>0. controller \in Controller /\ controlPlane \in Nat
  BY Held, Counts DEF Numbers
<1>1. CASE DiscoverMaterial
  BY <1>0, <1>1
  DEF DiscoverMaterial, Unlaunched, WorkerKept, AuditKept, CheckoutKept, history,
      launches, github, runs, comment
<1>2. CASE AssessMaterial
  <2>1. NoReservation(controller')
    BY <1>2, AcceptMaterialReserves DEF AssessMaterial
  <2> QED
    BY <1>0, <1>2, <2>1
    DEF AssessMaterial, Unlaunched, WorkerKept, AuditKept, CheckoutKept, NoReservation, history,
        launches, runs, github, identity
<1>3. CASE MaterialUnstorable
  BY <1>0, <1>3
  DEF MaterialUnstorable, Unlaunched, WorkerKept, AuditKept, CheckoutKept, history,
      launches, github, runs, comment
<1>4. CASE ReservePromotion
  BY <1>0, <1>4
  DEF ReservePromotion, Unlaunched, WorkerKept, AuditKept, CheckoutKept, history,
      launches, AwaitsPromotion, Pending, AtLoop, Persist, Controller, github
<1>5. CASE PromotionFailed
  BY <1>0, <1>5
  DEF PromotionFailed, Unlaunched, WorkerKept, AuditKept, CheckoutKept, history, launches,
      github, runs, comment
<1>6. CASE MaterialPromoted
  <2>1. NoReservation(controller')
    BY <1>6, AcceptMaterialReserves DEF MaterialPromoted
  <2> QED
    BY <1>0, <1>6, <2>1
    DEF MaterialPromoted, Unlaunched, WorkerKept, AuditKept, CheckoutKept, NoReservation, history,
        launches, runs, github, identity
<1>7. CASE PendingPromoted
  BY <1>0, <1>7
  DEF PendingPromoted, Unlaunched, WorkerKept, AuditKept, CheckoutKept, history, launches,
      Persist, Controller, identity, runs, github
<1>8. CASE InitialObservesDrift

  <2> DEFINE c ==
        [controller EXCEPT !.nextAction = "external-head-drift-requires-controller-resume",
                           !.technicalHygiene = NoHygiene]
  <2>1. NoReservation(c) /\ NoReservation(controller)
    BY <1>0 DEF NoReservation, Controller
  <2>2. UNCHANGED controller \/ controller' = c
    BY <1>8, Zenon DEF InitialObservesDrift, Persist, comment
  <2>3. NoReservation(controller')
    BY <2>1, <2>2 DEF NoReservation
  <2> QED
    BY <1>0, <1>8, <2>3
    DEF InitialObservesDrift, Unlaunched, WorkerKept, AuditKept, CheckoutKept, NoReservation,
        history,
        launches, runs, github
<1>9. CASE InitialBlockedByHygiene
  BY <1>0, <1>9
  DEF InitialBlockedByHygiene, Unlaunched, WorkerKept, AuditKept, CheckoutKept, history,
      launches, github, runs, comment
<1>10. CASE ResumeObservesDrift
  <2> DEFINE c == [controller EXCEPT !.nextAction = "observe-ci",
                                     !.technicalHygiene = NoHygiene]
  <2>1. NoReservation(c) /\ NoReservation(controller)
    BY <1>0 DEF NoReservation, Controller
  <2>2. UNCHANGED controller \/ controller' = c
    BY <1>10, Zenon DEF ResumeObservesDrift, Persist, comment
  <2>3. NoReservation(controller')
    BY <2>1, <2>2 DEF NoReservation
  <2> QED
    BY <1>0, <1>10, <2>3
    DEF ResumeObservesDrift, AtLoop, Unlaunched, WorkerKept, AuditKept, CheckoutKept,
        NoReservation, history,
        launches, runs, github
<1>11. CASE CiSucceeds
  BY <1>0, <1>11
  DEF CiSucceeds, Unlaunched, WorkerKept, AuditKept, CheckoutKept, history, launches,
      AwaitsCi, Persist, Controller, identity, runs, github
<1>12. CASE CiFailsActionably
  BY <1>0, <1>12
  DEF CiFailsActionably, Unlaunched, WorkerKept, AuditKept, CheckoutKept, history,
      launches, AwaitsCi, Persist, Controller, identity, runs, github
<1>13. CASE CiFailsExternally
  BY <1>0, <1>13
  DEF CiFailsExternally, Unlaunched, WorkerKept, AuditKept, CheckoutKept, history,
      launches, Persist, Controller, runs, github
<1> QED
  BY <1>1, <1>2, <1>3, <1>4, <1>5, <1>6, <1>7, <1>8, <1>9, <1>10, <1>11, <1>12, <1>13 DEF
     MaterialStep, CiStep

\* Hygiene and the release launch neither a worker nor an audit.
LEMMA HygieneLaunchesNothing ==
  ASSUME TypeOK, HygieneStep \/ ReleaseStep
  PROVE  Unlaunched
<1>0. controller \in Controller /\ controlPlane \in Nat
  BY Held, Counts DEF Numbers
<1>1. CASE ReserveHygiene
  BY <1>0, <1>1
  DEF ReserveHygiene, Unlaunched, WorkerKept, AuditKept, CheckoutKept, history, launches,
      StartsHygiene, NeedsHygiene, Pending, AtLoop, Persist, Controller, github, identity
<1>2. CASE RearmHygiene
  BY <1>0, <1>2
  DEF RearmHygiene, Unlaunched, WorkerKept, AuditKept, CheckoutKept, history, launches,
      StartsHygiene, NeedsHygiene, Pending, AtLoop, Persist, Controller, github, identity
<1>3. CASE AdoptHygiene
  BY <1>0, <1>3
  DEF AdoptHygiene, Unlaunched, WorkerKept, AuditKept, CheckoutKept, history, launches,
      NeedsHygiene, Pending, AtLoop, github, runs, comment, identity
<1>4. CASE LaunchHygiene
  BY <1>0, <1>4
  DEF LaunchHygiene, Unlaunched, WorkerKept, AuditKept, CheckoutKept, history, launches,
      github, comment, memory, identity, HygieneUndispatched
<1>5. CASE CorrelateHygiene
  BY <1>0, <1>5
  DEF CorrelateHygiene, Unlaunched, WorkerKept, AuditKept, CheckoutKept, history,
      launches, Persist, Controller, github, runs, memory, identity
<1>6. CASE HygieneRecoveryRefused
  BY <1>0, <1>6
  DEF HygieneRecoveryRefused, Unlaunched, WorkerKept, AuditKept, CheckoutKept, history,
      launches, github, runs, comment
<1>7. CASE HygieneWorkerFailed
  BY <1>0, <1>7
  DEF HygieneWorkerFailed, Unlaunched, WorkerKept, AuditKept, CheckoutKept, history,
      launches, Persist, Controller, github, runs
<1>8. CASE ConsumeHygiene
  BY <1>0, <1>8
  DEF ConsumeHygiene, Unlaunched, WorkerKept, AuditKept, CheckoutKept, history, launches,
      Persist, Controller, github, runs, identity
<1>9. CASE ResolvePending
  BY <1>0, <1>9
  DEF ResolvePending, Unlaunched, WorkerKept, AuditKept, CheckoutKept, history, launches,
      AtLoop, Persist, Controller, github, runs, identity
<1>10. CASE ReleaseIdentityDrifts
  BY <1>0, <1>10
  DEF ReleaseIdentityDrifts, Unlaunched, WorkerKept, AuditKept, CheckoutKept, history,
      launches, github, runs, comment
<1>11. CASE ReleaseRefused
  BY <1>0, <1>11
  DEF ReleaseRefused, Unlaunched, WorkerKept, AuditKept, CheckoutKept, history, launches,
      github, runs, comment
<1>12. CASE Release
  BY <1>0, <1>12
  DEF Release, Unlaunched, WorkerKept, AuditKept, CheckoutKept, history, launches,
      github, runs, comment, identity
<1>13. CASE RecordRelease
  BY <1>0, <1>13
  DEF RecordRelease, Unlaunched, WorkerKept, AuditKept, CheckoutKept, history, launches,
      Persist, Controller, github, runs
<1>14. CASE ReportEscalation
  BY <1>0, <1>14
  DEF ReportEscalation, Unlaunched, WorkerKept, AuditKept, CheckoutKept, history,
      launches, github, runs, comment
<1>15. CASE Reading
  <2>1. PICK next \in ReleasePcs : ReadsIdentity(next)
    BY <1>15, ReleaseReads
  <2> QED
    BY <1>0, <1>15, <2>1, ReleaseReads
    DEF ReadsIdentity, Unlaunched, WorkerKept, AuditKept, CheckoutKept, history, launches,
        github, runs, comment, ReleasePcs
<1> QED
  BY <1>1, <1>2, <1>3, <1>4, <1>5, <1>6, <1>7, <1>8, <1>9, <1>10, <1>11, <1>12, <1>13,
     <1>14, <1>15 DEF HygieneStep, ReleaseStep, Reading

\* A step outside the sessions, or between two, launches nothing.
LEMMA OutsideLaunchesNothing ==
  ASSUME TypeOK,
         Environment \/ WorkerRuns \/ Crash \/ Resume \/ ResumeRearmingHygiene \/ UNCHANGED vars
  PROVE  Unlaunched
<1>0. controller \in Controller /\ controlPlane \in Nat /\ worker \in Worker
  BY Held, Counts DEF Numbers
<1>1. CASE Environment \/ Crash \/ UNCHANGED vars
  BY SMTT(40), <1>0, <1>1
  DEF Environment, ExternalPush, BaseAdvance, ControlPlaneRelease, Crash, vars, Unlaunched,
      WorkerKept, AuditKept, CheckoutKept, github, runs, comment, memory, identity, history,
      launches
<1>2. CASE WorkerRuns
  <2>1. /\ UNCHANGED <<controlPlane, audit, comment, memory, history>>
        /\ worker'.phase # "none"
    <3>1. CASE WorkerPushes
      BY <1>0, <3>1 DEF WorkerPushes, Worker
    <3>2. CASE WorkerEndsWithoutPush
      BY <1>0, <3>2 DEF WorkerEndsWithoutPush, Worker, github
    <3> QED
      BY <1>2, <3>1, <3>2 DEF WorkerRuns
  <2>2. WorkerKept
    BY <2>1 DEF WorkerKept, comment, history, launches
  <2>3. AuditKept
    BY <2>1 DEF AuditKept, comment, history, launches
  <2>4. CheckoutKept
    BY <1>0, <2>1 DEF CheckoutKept, memory, identity
  <2> QED
    BY <2>2, <2>3, <2>4 DEF Unlaunched
<1>3. CASE Resume \/ ResumeRearmingHygiene
  <2>1. /\ UNCHANGED <<github, worker, audit, history>>
        /\ \/ \E d : ResumeFrom(d, controller)
           \/ \E d : ResumeFrom(d, [controller EXCEPT !.nextAction = "dispatch-technical-hygiene",
                                                      !.hygieneRun = "reserved",
                                                      !.technicalHygiene = NoHygiene])
    BY <1>3 DEF Resume, ResumeRearmingHygiene, runs
  <2>2. PICK d, c : /\ ResumeFrom(d, c)
                    /\ c.recoveredAt = controller.recoveredAt /\ c.workerRun = controller.workerRun
                    /\ c.auditRun = controller.auditRun /\ c \in Controller
    <3> DEFINE r == [controller EXCEPT !.nextAction = "dispatch-technical-hygiene",
                                       !.hygieneRun = "reserved",
                                       !.technicalHygiene = NoHygiene]
    <3>1. /\ r.recoveredAt = controller.recoveredAt /\ r.workerRun = controller.workerRun
          /\ r.auditRun = controller.auditRun /\ r \in Controller
      BY <1>0, EmptyTypes DEF Controller, NextActions, RunRefs
    <3> HIDE DEF r
    <3> QED
      BY <1>0, <2>1, <3>1 DEF r
  <2>3. PICK e, k : /\ EnterResume(e, k)
                    /\ k.recoveredAt = c.recoveredAt /\ k.workerRun = c.workerRun
                    /\ k.auditRun \in {c.auditRun, "none"} /\ DOMAIN k = DOMAIN c
                    /\ k = [x \in DOMAIN k |-> k[x]]
    <3> DEFINE b == RebuiltMetadata(c)
    <3>1. /\ b.recoveredAt = c.recoveredAt /\ b.workerRun = c.workerRun
          /\ b.auditRun \in {c.auditRun, "none"} /\ DOMAIN b = DOMAIN c
          /\ b = [x \in DOMAIN b |-> b[x]] /\ c = [x \in DOMAIN c |-> c[x]]
      BY <2>2 DEF RebuiltMetadata, Controller
    <3>2. (\E e : EnterResume(e, b)) \/ (\E e : EnterResume(e, c))
      BY <2>2, Zenon DEF ResumeFrom
    <3> HIDE DEF b
    <3> QED
      BY <3>1, <3>2
  <2>4. \/ UNCHANGED <<memory, comment>>
        \/ /\ checkout' = controlPlane
           /\ controller'.recoveredAt = k.recoveredAt /\ controller'.workerRun = k.workerRun
           /\ controller'.auditRun = k.auditRun
    BY <2>2, <2>3 DEF EnterResume, Persist, Controller
  <2> QED
    BY <1>0, <2>1, <2>2, <2>3, <2>4
    DEF Unlaunched, WorkerKept, AuditKept, CheckoutKept, github, comment, memory, identity,
        history, launches
<1> QED
  BY <1>1, <1>2, <1>3

\* A worker that is launched was owed; one that is reserved is paid for by an attempt
\* or by a control plane that has not granted a recovery yet.
LEMMA WorkerStepCharged ==
  ASSUME TypeOK, TypeOK', SafetyInv, ProgressInv, BootstrapInv, BootstrapInv', ChargedInv,
         Kept, UNCHANGED bootstrapAttempts, WorkerStep
  PROVE  ChargedInv'
<1>0. controller \in Controller /\ controlPlane \in Nat /\ pc \in StoringPcs
  BY Held, Counts, StoredPcs DEF Numbers
<1>1. ASSUME Unlaunched PROVE ChargedInv'
  BY <1>1, UnlaunchedCharged
<1>2. ASSUME AuditKept, CheckoutKept, controller'.recoveredAt = controller.recoveredAt,
             WorkerCharged'
      PROVE  ChargedInv'
  BY <1>2, AuditStaysCharged, CheckoutStays DEF ChargedInv, CheckoutKept
<1>3. CASE ReserveRemediation
  <2> DEFINE d == StartImplementation(delivery)
  <2>1. CASE d.status = "escalated"
    <3>1. WorkerKept /\ AuditKept /\ CheckoutKept
      BY <1>0, <1>3, <2>1
      DEF ReserveRemediation, Persist, Controller, WorkerKept, AuditKept, CheckoutKept, github,
          identity, history, launches
    <3> QED
      BY <1>1, <3>1 DEF Unlaunched
  <2>2. CASE d.status # "escalated"
    <3>0. /\ controller' = [controller EXCEPT
                              !.nextAction = "dispatch-remediation", !.workerRun = "reserved",
                              !.remediationContext = @ \/ session = "resume"]
          /\ UNCHANGED <<controlPlane, audit, session, checkout, auditLaunches>> /\ pc = "loop"
      BY <1>3, <2>2 DEF ReserveRemediation, Persist, github, identity, history, launches
    <3>1. AuditKept /\ CheckoutKept /\ controller'.recoveredAt = controller.recoveredAt
      BY <1>0, <3>0 DEF Controller, AuditKept, CheckoutKept
    <3>2. /\ d \in Delivery
          /\ d.implementationAttempts + d.auditRemediationAttempts
               = delivery.implementationAttempts + delivery.auditRemediationAttempts + 1
      BY <1>3, <2>2, Held, StartImplementationType, RemediationSpends DEF ReserveRemediation
    <3>3. /\ persistent'.implementationAttempts = d.implementationAttempts
          /\ persistent'.auditRemediationAttempts = d.auditRemediationAttempts
      BY <1>3, <2>2, <3>2, PersistedFrame
      DEF ReserveRemediation, Persist, SameBudget, SameAttempts
    <3>4. /\ delivery.implementationAttempts >= persistent.implementationAttempts
          /\ delivery.auditRemediationAttempts >= persistent.auditRemediationAttempts
          /\ delivery.implementationAttempts \in Nat /\ delivery.auditRemediationAttempts \in Nat
          /\ d.implementationAttempts \in Nat /\ d.auditRemediationAttempts \in Nat
      BY <1>0, <3>2, Held, DeliveryFields DEF SafetyInv, MemoryInv, SpentAtLeast, StoringPcs
    <3>5. persistent.materialHeadSha # NoHead /\ UNCHANGED workerLaunches
      BY <1>0, <1>3 DEF BootstrapInv, StoringPcs, ReserveRemediation, history, launches
    <3>6. WorkerCharged'
      BY <3>1, <3>2, <3>3, <3>4, <3>5, Counts DEF ChargedInv, WorkerCharged, Numbers
    <3> QED
      BY <1>2, <3>1, <3>6
  <2> QED
    BY <2>1, <2>2
<1>4. CASE LaunchWorker
  <2>1. AuditKept /\ CheckoutKept /\ controller'.recoveredAt = controller.recoveredAt
    BY <1>0, <1>4
    DEF LaunchWorker, AuditKept, CheckoutKept, github, memory, identity, comment
  <2>2. WorkerOwed = 1 /\ WorkerOwed' = 0
    BY <1>4 DEF LaunchWorker, WorkerOwed, Owed, NoWorker, comment
  <2>3. UNCHANGED <<persistent, controller>> /\ workerLaunches' = workerLaunches + 1
    BY <1>4 DEF LaunchWorker, comment
  <2>4. WorkerCharged'
    BY <2>2, <2>3, Counts DEF ChargedInv, WorkerCharged, Numbers
  <2> QED
    BY <1>2, <2>1, <2>4
<1>5. CASE RearmWorker
  <2>1. /\ controller'.recoveredAt = checkout /\ controller.recoveredAt # checkout
        /\ controller'.auditRun = controller.auditRun
        /\ UNCHANGED <<workerLaunches, auditLaunches, audit, controlPlane, identity>>
        /\ session # "none" /\ pc = "recover" /\ pc' = "worker"
    BY <1>0, <1>5
    DEF RearmWorker, CanRearmWorker, Persist, Controller, ProgressInv, github, history, launches
  <2>2. controller.recoveredAt < checkout
    BY <2>1, Counts DEF ChargedInv, CheckoutInv, Numbers
  <2>3. WorkerCharged'
    BY <1>0, <2>1, <2>2, Counts
    DEF ChargedInv, WorkerCharged, Numbers, BootstrapInv, StoringPcs, Kept, SpentAtLeast
  <2>4. AuditKept
    BY <2>1 DEF AuditKept
  <2>5. AuditCharged'
    BY <2>1, <2>4, <1>0, AuditStaysCharged DEF ChargedInv
  <2>6. CheckoutInv'
    BY <2>1, <2>2, Counts DEF ChargedInv, CheckoutInv, Numbers, identity
  <2> QED
    BY <2>3, <2>5, <2>6 DEF ChargedInv
<1>6. CASE CorrelateWorker
  BY <1>0, <1>1, <1>6
  DEF CorrelateWorker, Persist, Controller, Unlaunched, WorkerKept, AuditKept, CheckoutKept,
      github, runs, memory, identity, history, launches
<1>7. CASE RecoveryRefused \/ MaterialNeverAppears
  BY <1>0, <1>1, <1>7
  DEF RecoveryRefused, MaterialNeverAppears, Unlaunched, WorkerKept, AuditKept, CheckoutKept,
      github, runs, comment, history, launches
<1>8. CASE WorkerFailed \/ RemediationWithoutMaterial \/ MaterialEscalates
  <2>1. NoReservation(controller')
    <3>1. \/ UNCHANGED controller
          \/ \E a : controller' = [controller EXCEPT !.nextAction = a]
      BY <1>8, Zenon
      DEF WorkerFailed, RemediationWithoutMaterial, MaterialEscalates, Persist, comment
    <3> QED
      BY <1>0, <3>1 DEF NoReservation, Controller
  <2>2. EndSession /\ UNCHANGED <<github, runs, history>>
    BY <1>8 DEF WorkerFailed, RemediationWithoutMaterial, MaterialEscalates
  <2> QED
    BY <1>0, <1>1, <2>1, <2>2
    DEF Unlaunched, WorkerKept, AuditKept, CheckoutKept, NoReservation, github, runs, history,
        launches
<1>9. CASE MaterialPublished
  <2>1. NoReservation(controller')
    BY <1>9, AcceptMaterialReserves DEF MaterialPublished
  <2>2. /\ UNCHANGED <<github, runs, history, session, checkout>> /\ pc \in {"worker", "recover"}
    BY <1>9 DEF MaterialPublished, MaterialAppears, WorkerFinished
  <2> QED
    BY <1>0, <1>1, <2>1, <2>2
    DEF Unlaunched, WorkerKept, AuditKept, CheckoutKept, NoReservation, github, runs, history,
        launches
<1> QED
  BY <1>3, <1>4, <1>5, <1>6, <1>7, <1>8, <1>9 DEF WorkerStep

\* An audit that starts is paid for by an attempt that was just charged, or by a
\* control plane that is later than the one of the audit it replaces.
LEMMA StartsAuditCharged ==
  ASSUME TypeOK, TypeOK', SafetyInv, BootstrapInv, BootstrapInv', ChargedInv, Kept,
         UNCHANGED bootstrapAttempts, NEW d \in Delivery, StartsAudit(d, controller),
         UNCHANGED <<github, worker, identity, history>>, pc \in StoringPcs,
         \/ d.auditAttempts >= persistent.auditAttempts + 1
         \/ /\ d.auditAttempts >= persistent.auditAttempts
            /\ audit.candidate # NoHead /\ audit.controlPlane < controlPlane
  PROVE  ChargedInv'
<1>1. /\ controller' = [controller EXCEPT !.nextAction = "dispatch-audit", !.auditRun = "reserved"]
      /\ persistent' = Persisted(d) /\ audit' = NoAuditRun /\ pc' = "audit"
  BY DEF StartsAudit, Persist
<1>2. /\ controller'.recoveredAt = controller.recoveredAt
      /\ controller'.workerRun = controller.workerRun /\ controller'.auditRun = "reserved"
  BY <1>1, Held DEF Controller
<1>3. UNCHANGED <<controlPlane, session, checkout, workerLaunches, auditLaunches>>
  BY DEF github, identity, history, launches
<1>4. WorkerCharged'
  BY <1>2, <1>3, WorkerStaysCharged DEF WorkerKept, ChargedInv
<1>5. persistent'.auditAttempts = d.auditAttempts /\ d.auditAttempts \in Nat
  BY <1>1, PersistedFrame, DeliveryFields DEF SameBudget, SameAttempts
<1>6. /\ persistent.materialHeadSha # NoHead /\ AuditOwed' = 1 /\ audit'.candidate = NoHead
      /\ audit'.controlPlane = 0
  BY <1>1, <1>2 DEF BootstrapInv, StoringPcs, AuditOwed, Owed, NoAuditRun
<1>7. AuditCharged'
  BY <1>3, <1>5, <1>6, Counts DEF ChargedInv, AuditCharged, CheckoutInv, Numbers
<1>8. CheckoutInv'
  BY <1>1, <1>2, <1>3, <1>6, Counts DEF ChargedInv, CheckoutInv, Numbers
<1> QED
  BY <1>4, <1>7, <1>8 DEF ChargedInv

\* What a session does with the audit keeps every run paid for.
LEMMA AuditStepCharged ==
  ASSUME TypeOK, TypeOK', SafetyInv, ProgressInv, InitialInv, BootstrapInv, BootstrapInv',
         ChargedInv, Kept, UNCHANGED bootstrapAttempts, AuditStep
  PROVE  ChargedInv'
<1>0. controller \in Controller /\ controlPlane \in Nat /\ pc \in StoringPcs
  BY Held, Counts, StoredPcs DEF Numbers
<1>1. ASSUME Unlaunched PROVE ChargedInv'
  BY <1>1, UnlaunchedCharged
<1>2. SpentAtLeast(persistent, delivery) /\ delivery.auditAttempts \in Nat
  BY <1>0, Held, DeliveryFields DEF SafetyInv, MemoryInv, StoringPcs
<1>3. CASE ReserveAudit
  <2> DEFINE d == StartAudit(delivery)
  <2>1. CASE session = "resume" /\ d.status = "escalated"
    <3>1. /\ controller' = [controller EXCEPT !.nextAction = "human-escalation"]
          /\ UNCHANGED <<controlPlane, audit, worker, session, checkout, pc, launches>>
      BY <1>3, <2>1 DEF ReserveAudit, Persist, github, identity, history
    <3>2. WorkerKept /\ AuditKept /\ CheckoutKept
      BY <1>0, <3>1 DEF Controller, WorkerKept, AuditKept, CheckoutKept, launches
    <3> QED
      BY <1>1, <3>2 DEF Unlaunched
  <2>2. CASE ~(session = "resume" /\ d.status = "escalated")
    <3>1. session = "initial" \/ session = "resume"
      BY <1>0, <1>3 DEF ProgressInv, TypeOK, Sessions, StoringPcs
    <3>2. /\ d \in Delivery
          /\ d.status # "escalated" => d.auditAttempts = delivery.auditAttempts + 1
          /\ AuditsAlternate(delivery) /\ WithinCeilings(delivery) => d.status # "escalated"
      BY <1>3, Held, StartAuditType, AuditSpends DEF ReserveAudit
    <3>3. d.status # "escalated"
      BY <1>0, <1>3, <2>2, <3>1, <3>2
      DEF ReserveAudit, AtLoop, InitialInv, SafetyInv, MemoryInv, StoringPcs
    <3>4. d.auditAttempts >= persistent.auditAttempts + 1
      BY <1>2, <3>2, <3>3, Counts DEF SpentAtLeast, Numbers
    <3>5. StartsAudit(d, controller) /\ UNCHANGED <<github, worker, identity, history>>
      BY <1>3, <2>2 DEF ReserveAudit
    <3> HIDE DEF d
    <3> QED
      BY <1>0, <3>2, <3>4, <3>5, StartsAuditCharged
  <2> QED
    BY <2>1, <2>2
<1>4. CASE RearmAudit
  <2> DEFINE d == [delivery EXCEPT !.auditInFlight = TRUE]
  <2>1. d \in Delivery /\ d.auditAttempts = delivery.auditAttempts
    BY Held DEF Delivery
  <2>2. /\ StartsAudit(d, controller) /\ UNCHANGED <<github, worker, identity, history>>
        /\ CanRearmAudit /\ pc = "loop"
    BY <1>4 DEF RearmAudit, AtLoop
  <2>3. audit.candidate # NoHead /\ audit.controlPlane < controlPlane
    BY <2>2, Counts DEF CanRearmAudit, ChargedInv, CheckoutInv, Numbers
  <2>4. d.auditAttempts >= persistent.auditAttempts
    BY <1>2, <2>1 DEF SpentAtLeast
  <2> HIDE DEF d
  <2> QED
    BY <1>0, <2>1, <2>2, <2>3, <2>4, StartsAuditCharged
<1>5. CASE LaunchAudit
  <2>1. /\ AuditOwed = 1 /\ AuditOwed' = 0 /\ audit.candidate = NoHead
        /\ audit'.candidate # NoHead /\ audit'.controlPlane = controlPlane
    <3>1. delivery.materialHeadSha # NoHead
      BY <1>0, MaxHeadAssumption DEF SafetyInv, MemoryInv, StoringPcs, Heads, NoHead
    <3> QED
      BY <1>5, <3>1 DEF LaunchAudit, AuditOwed, Owed
  <2>2. /\ UNCHANGED <<comment, memory, worker, controlPlane, workerLaunches>>
        /\ auditLaunches' = auditLaunches + 1 /\ pc = "audit"
    BY <1>5 DEF LaunchAudit, github
  <2>3. WorkerCharged'
    BY <2>2, WorkerStaysCharged DEF WorkerKept, ChargedInv, comment
  <2>4. AuditCharged'
    BY <2>1, <2>2, Counts DEF ChargedInv, AuditCharged, Numbers, comment
  <2>5. CheckoutInv'
    BY <2>1, <2>2, Counts DEF ChargedInv, CheckoutInv, Numbers, comment, memory, identity
  <2> QED
    BY <2>3, <2>4, <2>5 DEF ChargedInv
<1>6. CASE AdoptAudit
  BY <1>0, <1>1, <1>6
  DEF AdoptAudit, AtLoop, Unlaunched, WorkerKept, AuditKept, CheckoutKept, github, runs, comment,
      identity, history, launches
<1>7. CASE CorrelateAudit
  BY <1>0, <1>1, <1>7
  DEF CorrelateAudit, Persist, Controller, Unlaunched, WorkerKept, AuditKept, CheckoutKept, github,
      runs, memory, identity, history, launches
<1>8. CASE AuditRecoveryRefused
  BY <1>0, <1>1, <1>8
  DEF AuditRecoveryRefused, Unlaunched, WorkerKept, AuditKept, CheckoutKept, github, runs, comment,
      history, launches
<1>9. CASE AuditWorkflowFailed
  BY <1>0, <1>1, <1>9
  DEF AuditWorkflowFailed, Persist, Controller, Unlaunched, WorkerKept, AuditKept, CheckoutKept,
      github, runs, history, launches
<1>10. CASE ConsumeVerdict
  <2>1. audit.green \/ audit.verdict # "absent"
    BY <1>10 DEF ConsumeVerdict, VerdictReadable
  <2> QED
    BY <1>0, <1>1, <1>10, <2>1
    DEF ConsumeVerdict, Persist, Controller, Unlaunched, WorkerKept, AuditKept, CheckoutKept,
        github, runs, identity, history, launches
<1> QED
  BY <1>3, <1>4, <1>5, <1>6, <1>7, <1>8, <1>9, <1>10 DEF AuditStep

\* That every run is paid for is an invariant.
LEMMA ChargedHolds ==
  /\ TypeOK /\ Init => ChargedInv
  /\ TypeOK /\ TypeOK' /\ SafetyInv /\ ProgressInv /\ InitialInv /\ BootstrapInv /\ BootstrapInv'
       /\ ChargedInv /\ [Next]_vars => ChargedInv'
<1>1. ASSUME TypeOK, Init PROVE ChargedInv
  BY <1>1
  DEF Init, ChargedInv, WorkerCharged, AuditCharged, CheckoutInv, NoDelivery, CreateDeliveryState,
      NoController, NoAuditRun
<1>2. ASSUME TypeOK, TypeOK', SafetyInv, ProgressInv, InitialInv, BootstrapInv, BootstrapInv',
             ChargedInv, [Next]_vars
      PROVE  ChargedInv'
  <2>1. Kept /\ UNCHANGED bootstrapAttempts
    BY <1>2, NextSafe, HistoryKept
  <2>2. CASE WorkerStep
    BY <1>2, <2>1, <2>2, WorkerStepCharged
  <2>3. CASE AuditStep
    BY <1>2, <2>1, <2>3, AuditStepCharged
  <2>4. CASE ~WorkerStep /\ ~AuditStep
    <3>1. Unlaunched
      BY <1>2, <2>4, MaterialLaunchesNothing, HygieneLaunchesNothing, OutsideLaunchesNothing
      DEF Next, SessionStep
    <3> QED
      BY <1>2, <2>1, <3>1, UnlaunchedCharged
  <2> QED
    BY <2>2, <2>3, <2>4
<1> QED
  BY <1>1, <1>2

\* Every AI run is paid for before it is launched: by an attempt in the comment, or by
\* a release of the control plane.
THEOREM RunsArePaidFor == Spec => []LaunchesAreCharged
<1>1. TypeOK /\ ChargedInv => LaunchesAreCharged
  BY Counts
  DEF ChargedInv, WorkerCharged, AuditCharged, CheckoutInv, LaunchesAreCharged, Numbers
<1> QED
  BY <1>1, ProgressHolds, InitialHolds, BootstrapHolds, ChargedHolds, Safe, TypeCorrect, PTL
  DEF Spec

-----------------------------------------------------------------------------
(* What is stored is what the session knows.                                  *)

\* A session that has stored something keeps the comment equal to its memory; one
\* that goes on is not escalated, except in the loop, where it ends.
StoredInv ==
  /\ pc \in HoldingPcs => persistent = Persisted(delivery)
  /\ pc \notin {"idle", "loop"} => delivery.status # "escalated"
  /\ pc \in {"assess", "promote"} => delivery.status = "ci-pending"
  /\ pc \in {"discover", "assess", "promote"} => persistent.status # "escalated"

\* A step of a session ends it, stores what it goes on with, or goes on with what is
\* stored.
Stores ==
  \/ pc' = "idle"
  \/ /\ pc' \in HoldingPcs
     /\ \/ persistent' = Persisted(delivery')
        \/ /\ pc \in HoldingPcs /\ UNCHANGED persistent
           /\ Persisted(delivery') = Persisted(delivery)
     /\ pc' = "loop" \/ delivery'.status # "escalated"
  \/ /\ pc' \in {"assess", "promote"} /\ pc \notin {"idle", "loop"} /\ UNCHANGED persistent
     /\ delivery'.status = "ci-pending"

\* A step that stores nothing, the state of memory, or a fresh escalation
\* keeps what the comment promises.
LEMMA StoresKept ==
  ASSUME TypeOK, SafetyInv, StoredInv, Stores
  PROVE  StoredInv'
<1>1. pc \in {"discover", "assess", "promote"} \cup HoldingPcs \cup {"idle"}
  BY DEF TypeOK, Pcs, HoldingPcs, StoringPcs, ReleasePcs
<1>2. pc \notin {"idle", "loop"} => persistent.status # "escalated"
  <2>1. Persisted(delivery).status = delivery.status
    BY Held, PersistedFrame
  <2> QED
    BY <1>1, <2>1 DEF StoredInv
<1> QED
  BY <1>1, <1>2 DEF StoredInv, Stores, HoldingPcs, StoringPcs, ReleasePcs

\* Accepting a material that waits for CI stores it, or asks for a promotion.
LEMMA AcceptMaterialStores ==
  ASSUME NEW d, NEW b, AcceptMaterial(d, b), d.status = "ci-pending", pc \notin {"idle", "loop"}
  PROVE  Stores
BY DEF AcceptMaterial, Persist, Stores, HoldingPcs, StoringPcs, ReleasePcs, comment

\* Loading, discovering and assessing material stores one of those three.
LEMMA MaterialStores ==
  ASSUME TypeOK, SafetyInv, StoredInv, MaterialStep
  PROVE  Stores
<1>1. CASE DiscoverMaterial
  <2> DEFINE created == CreateOperationalDelivery(headRisk[remoteHead], remoteHead)
             d == [created EXCEPT !.implementationAttempts = bootstrapAttempts]
  <2>1. created \in Delivery /\ created.status = "ci-pending"
    BY Held, CreateOperationalDeliveryType, CreatedAlternates
  <2> HIDE DEF created
  <2>2. d.status = "ci-pending"
    BY <2>1 DEF Delivery
  <2>3. delivery' = d /\ pc' = "assess" /\ pc = "discover" /\ UNCHANGED persistent
    BY <1>1 DEF DiscoverMaterial, comment, created
  <2> QED
    BY <2>2, <2>3 DEF Stores
<1>2. CASE AssessMaterial
  <2>1. AssessedMaterial.status = "ci-pending"
    BY <1>2, Held, HygieneForType, HygieneBeforeCi DEF AssessedMaterial, AssessMaterial, StoredInv
  <2> QED
    BY <1>2, <2>1, AcceptMaterialStores DEF AssessMaterial
<1>3. CASE MaterialUnstorable \/ PromotionFailed
  BY <1>3 DEF MaterialUnstorable, PromotionFailed, EndSession, Stores
<1>4. CASE ReservePromotion
  <2>1. delivery.status # "escalated"
    BY <1>4 DEF ReservePromotion, AwaitsPromotion, Pending, AtLoop, StoredInv
  <2>2. Promoted.status = delivery.status
    BY Held, PromoteRiskFrame DEF Promoted, PromotedRisk, Profiles
  <2> QED
    BY <1>4, <2>1, <2>2 DEF ReservePromotion, Persist, Stores, HoldingPcs, StoringPcs, ReleasePcs
<1>5. CASE MaterialPromoted
  <2>1. PromotionResult.status = "ci-pending"
    BY <1>5, Held, HygieneForType, HygieneBeforeCi
    DEF PromotionResult, MaterialPromoted, PromotionHolds, HygieneRun
  <2> QED
    BY <1>5, <2>1, AcceptMaterialStores DEF MaterialPromoted
<1>6. CASE PendingPromoted
  BY <1>6 DEF PendingPromoted, Persist, Stores, HoldingPcs, StoringPcs, ReleasePcs
<1> QED
  BY <1>1, <1>2, <1>3, <1>4, <1>5, <1>6 DEF MaterialStep

\* So does the step that reads CI or sees the head move.
LEMMA CiStores ==
  ASSUME TypeOK, CiStep
  PROVE  Stores
<1>1. CASE InitialObservesDrift \/ InitialBlockedByHygiene \/ CiFailsExternally
  BY <1>1
  DEF InitialObservesDrift, InitialBlockedByHygiene, CiFailsExternally, EndSession, Stores
<1>2. CASE ResumeObservesDrift
  BY <1>2
  DEF ResumeObservesDrift, AtLoop, EndSession, Persist, Stores, HoldingPcs, StoringPcs, ReleasePcs
<1>3. CASE CiSucceeds \/ CiFailsActionably
  BY <1>3
  DEF CiSucceeds, CiFailsActionably, AwaitsCi, Persist, Stores, HoldingPcs, StoringPcs, ReleasePcs
<1> QED
  BY <1>1, <1>2, <1>3 DEF CiStep

\* So does every step of a remediation.
LEMMA WorkerStores ==
  ASSUME TypeOK, SafetyInv, StoredInv, WorkerStep
  PROVE  Stores
<1>1. CASE ReserveRemediation
  BY <1>1 DEF ReserveRemediation, Persist, Stores, HoldingPcs, StoringPcs, ReleasePcs
<1>2. CASE LaunchWorker \/ CorrelateWorker
  BY <1>2
  DEF LaunchWorker, CorrelateWorker, memory, comment, Persist, Stores, HoldingPcs, StoringPcs,
      ReleasePcs, StoredInv
<1>3. CASE RecoveryRefused \/ WorkerFailed \/ RemediationWithoutMaterial \/ MaterialNeverAppears
           \/ MaterialEscalates
  BY <1>3
  DEF RecoveryRefused, WorkerFailed, RemediationWithoutMaterial, MaterialNeverAppears,
      MaterialEscalates, EndSession, Stores
<1>4. CASE RearmWorker
  BY <1>4 DEF RearmWorker, Persist, Stores, HoldingPcs, StoringPcs, ReleasePcs, StoredInv
<1>5. CASE MaterialPublished
  <2> DEFINE p == PublishMaterial(delivery, remoteHead)
             h == HygieneFor(p, worker.head, worker.hygiene)
  <2>1. p \in Delivery /\ p.status = "ci-pending"
    BY Held, PublishMaterialType DEF PublishMaterial, Delivery
  <2>2. h \in Hygiene
    BY <2>1, Held, HygieneForType
  <2>3. ApplyHygiene(p, h).status = "ci-pending"
    BY <2>1, <2>2, HygieneBeforeCi
  <2>4. AcceptMaterial(ApplyHygiene(p, h), base) /\ pc \in {"worker", "recover"}
    BY <1>5 DEF MaterialPublished, MaterialAppears, WorkerFinished
  <2> HIDE DEF p, h
  <2> QED
    BY <2>3, <2>4, AcceptMaterialStores
<1> QED
  BY <1>1, <1>2, <1>3, <1>4, <1>5 DEF WorkerStep

\* So does every step of an audit.
LEMMA AuditStores ==
  ASSUME TypeOK, SafetyInv, StoredInv, ProgressInv, InitialInv, AuditStep
  PROVE  Stores
<1> DEFINE flying == [delivery EXCEPT !.auditInFlight = TRUE]
<1>0. flying.status = delivery.status /\ Persisted(flying) = Persisted(delivery)
  BY Held DEF Delivery, Persisted
<1>1. CASE ReserveAudit
  <2> DEFINE d == StartAudit(delivery)
  <2>1. CASE session = "resume" /\ d.status = "escalated"
    BY <1>1, <2>1 DEF ReserveAudit, AtLoop, Persist, Stores, HoldingPcs, StoringPcs, ReleasePcs
  <2>2. CASE ~(session = "resume" /\ d.status = "escalated")
    <3>1. d.status # "escalated"
      <4>1. session = "initial" \/ session = "resume"
        BY <1>1 DEF ReserveAudit, AtLoop, ProgressInv, TypeOK, Sessions
      <4>2. AuditsAlternate(delivery) /\ WithinCeilings(delivery) => d.status # "escalated"
        BY <1>1, Held, AuditSpends DEF ReserveAudit
      <4> QED
        BY <1>1, <2>2, <4>1, <4>2
       
        DEF ReserveAudit, AtLoop, InitialInv, SafetyInv, MemoryInv, HoldingPcs, StoringPcs,
            ReleasePcs
    <3>2. StartsAudit(d, controller)
      BY <1>1, <2>2 DEF ReserveAudit
    <3> HIDE DEF d
    <3> QED
      BY <3>1, <3>2 DEF StartsAudit, Persist, Stores, HoldingPcs, StoringPcs, ReleasePcs
  <2> QED
    BY <2>1, <2>2
<1>2. CASE RearmAudit
  <2>1. StartsAudit(flying, controller) /\ delivery.status = "audit-pending"
    BY <1>2 DEF RearmAudit, AtLoop
  <2> HIDE DEF flying
  <2> QED
    BY <1>0, <2>1 DEF StartsAudit, Persist, Stores, HoldingPcs, StoringPcs, ReleasePcs
<1>3. CASE AdoptAudit
  <2>1. /\ delivery' = flying /\ delivery.status = "audit-pending" /\ pc = "loop" /\ pc' = "audit"
        /\ UNCHANGED persistent
    BY <1>3 DEF AdoptAudit, AtLoop, comment
  <2> HIDE DEF flying
  <2> QED
    BY <1>0, <2>1 DEF Stores, HoldingPcs, StoringPcs, ReleasePcs
<1>4. CASE LaunchAudit \/ CorrelateAudit
  BY <1>4
  DEF LaunchAudit, CorrelateAudit, memory, comment, Persist, Stores, HoldingPcs, StoringPcs,
      ReleasePcs, StoredInv
<1>5. CASE AuditRecoveryRefused \/ AuditWorkflowFailed
  BY <1>5 DEF AuditRecoveryRefused, AuditWorkflowFailed, EndSession, Stores
<1>6. CASE ConsumeVerdict
  BY <1>6 DEF ConsumeVerdict, Persist, Stores, HoldingPcs, StoringPcs, ReleasePcs
<1> QED
  BY <1>1, <1>2, <1>3, <1>4, <1>5, <1>6 DEF AuditStep

\* So does every step of the hygiene run and of the release.
LEMMA HygieneStores ==
  ASSUME TypeOK, StoredInv, HygieneStep \/ ReleaseStep
  PROVE  Stores
<1>1. CASE ReserveHygiene \/ RearmHygiene
  BY <1>1
  DEF ReserveHygiene, RearmHygiene, StartsHygiene, NeedsHygiene, Pending, AtLoop, Persist, Stores,
      HoldingPcs, StoringPcs, ReleasePcs
<1>2. CASE AdoptHygiene
  BY <1>2
  DEF AdoptHygiene, NeedsHygiene, Pending, AtLoop, comment, Stores, HoldingPcs, StoringPcs,
      ReleasePcs
<1>3. CASE LaunchHygiene \/ CorrelateHygiene
  BY <1>3
  DEF LaunchHygiene, CorrelateHygiene, HygieneUndispatched, memory, comment, Persist, Stores,
      HoldingPcs, StoringPcs, ReleasePcs, StoredInv
<1>4. CASE HygieneRecoveryRefused \/ HygieneWorkerFailed
  BY <1>4 DEF HygieneRecoveryRefused, HygieneWorkerFailed, EndSession, Stores
<1>5. CASE ConsumeHygiene \/ ResolvePending
  BY <1>5
  DEF ConsumeHygiene, ResolvePending, AtLoop, Persist, Stores, HoldingPcs, StoringPcs, ReleasePcs
<1>6. CASE ReleaseIdentityDrifts \/ ReleaseRefused \/ RecordRelease \/ ReportEscalation
  BY <1>6
  DEF ReleaseIdentityDrifts, ReleaseRefused, RecordRelease, ReportEscalation, EndSession, Stores
<1>7. CASE Release
  BY <1>7 DEF Release, comment, Stores, StoredInv, HoldingPcs, StoringPcs, ReleasePcs
<1>8. CASE Reading
  <2>1. PICK next \in ReleasePcs : ReadsIdentity(next)
    BY <1>8, ReleaseReads
  <2> QED
    BY <1>8, <2>1, ReleaseReads
    DEF ReadsIdentity, comment, Stores, StoredInv, ReadyToRelease, HoldingPcs, StoringPcs,
        ReleasePcs
<1> QED
  BY <1>1, <1>2, <1>3, <1>4, <1>5, <1>6, <1>7, <1>8 DEF HygieneStep, ReleaseStep, Reading

\* A new session stores what it goes on with, or leaves everything as it is.
LEMMA ResumeStores ==
  ASSUME TypeOK, Resume \/ ResumeRearmingHygiene
  PROVE  UNCHANGED <<memory, persistent>> \/ Stores
<1>1. \E d, c : ResumeFrom(d, c)
  BY DEF Resume, ResumeRearmingHygiene
<1>2. \E d, c : EnterResume(d, c)
  BY <1>1, Zenon DEF ResumeFrom
<1>3. PICK d, c : EnterResume(d, c)
  BY <1>2
<1> QED
  BY <1>3 DEF EnterResume, Persist, Stores, HoldingPcs, StoringPcs, ReleasePcs, comment

\* That the comment equals the memory is an invariant.
LEMMA StoredHolds ==
  /\ Init => StoredInv
  /\ TypeOK /\ SafetyInv /\ ProgressInv /\ InitialInv /\ StoredInv /\ [Next]_vars => StoredInv'
<1>1. Init => StoredInv
  BY DEF Init, StoredInv, HoldingPcs, StoringPcs, ReleasePcs, NoDelivery, CreateDeliveryState
<1>2. ASSUME TypeOK, SafetyInv, ProgressInv, InitialInv, StoredInv, [Next]_vars PROVE StoredInv'
  <2>1. CASE SessionStep
    BY <1>2, <2>1, MaterialStores, CiStores, WorkerStores, AuditStores, HygieneStores, StoresKept
    DEF SessionStep
  <2>2. CASE Crash
    BY <2>2 DEF Crash, EndSession, StoredInv, HoldingPcs, StoringPcs, ReleasePcs
  <2>3. CASE Environment \/ WorkerRuns \/ UNCHANGED vars
    BY <1>2, <2>3
    DEF Environment, WorkerRuns, ExternalPush, BaseAdvance, ControlPlaneRelease, WorkerPushes,
        WorkerEndsWithoutPush, vars, memory, comment, StoredInv
  <2>4. CASE Resume \/ ResumeRearmingHygiene
    BY <1>2, <2>4, ResumeStores, StoresKept DEF memory, StoredInv
  <2> QED
    BY <1>2, <2>1, <2>2, <2>3, <2>4 DEF Next
<1> QED
  BY <1>1, <1>2

-----------------------------------------------------------------------------
(* Escalations.                                                               *)

\* A session that is escalated stores nothing any more.
LEMMA EscalatedStoresNothing ==
  ASSUME TypeOK, pc = "loop", delivery.status = "escalated", SessionStep
  PROVE  UNCHANGED persistent
<1>1. ~MaterialStep
  BY DEF MaterialStep, DiscoverMaterial, AssessMaterial, MaterialUnstorable, ReservePromotion,
         PromotionFailed, MaterialPromoted, PendingPromoted, AwaitsPromotion, Pending, AtLoop
<1>2. ~CiStep
  BY DEF CiStep, InitialObservesDrift, InitialBlockedByHygiene, ResumeObservesDrift, CiSucceeds,
         CiFailsActionably, CiFailsExternally, InitialWaitsForCi, HygieneBlocked, AtLoop, AwaitsCi,
         CanRecordCi
<1>3. ~WorkerStep
  BY DEF WorkerStep, ReserveRemediation, LaunchWorker, CorrelateWorker, RecoveryRefused,
         RearmWorker, WorkerFailed, RemediationWithoutMaterial, MaterialNeverAppears,
         MaterialEscalates, MaterialPublished, MaterialAppears, WorkerFinished,
         CanStartImplementation
<1>4. ~AuditStep
  BY DEF AuditStep, ReserveAudit, RearmAudit, AdoptAudit, LaunchAudit, CorrelateAudit,
         AuditRecoveryRefused, AuditWorkflowFailed, ConsumeVerdict, AtLoop
<1>5. ~HygieneStep
  BY DEF HygieneStep, ReserveHygiene, RearmHygiene, AdoptHygiene, LaunchHygiene, CorrelateHygiene,
         HygieneRecoveryRefused, HygieneWorkerFailed, ConsumeHygiene, ResolvePending, NeedsHygiene,
         HygieneUndispatched, Pending, AtLoop
<1>6. ASSUME ReleaseStep PROVE UNCHANGED persistent
  BY <1>6, ReleaseReads
  DEF ReleaseStep, ReleaseIdentityDrifts, ReleaseRefused, Release, RecordRelease,
      ReportEscalation, Reading, ReadsIdentity, comment
<1> QED
  BY <1>1, <1>2, <1>3, <1>4, <1>5, <1>6 DEF SessionStep

\* What is read back from an escalated comment of the current head is escalated, and a
\* stored hygiene result does not change that.
LEMMA EscalationReadBack ==
  ASSUME TypeOK, persistent.status = "escalated", ~StoredStale, Resume
  PROVE  persistent'.status = "escalated"
<1>1. Loaded = persistent
  BY DEF Loaded, OperationalFromPersistent
<1>2. \E d \in Delivery : d.status = "escalated" /\ ResumeFrom(d, controller)
  <2> DEFINE h == controller.technicalHygiene
             f == [persistent EXCEPT !.technicalHygiene = h]
  <2>1. h \in Hygiene /\ persistent \in Delivery
    BY Held, ControllerFields
  <2>2. f \in Delivery /\ f.status = "escalated"
    BY <2>1 DEF Delivery
  <2>3. ApplyHygiene(persistent, h) = ReconcileHygieneReadiness(f)
    BY DEF ApplyHygiene
  <2> HIDE DEF f, h
  <2>4. ReconcileHygieneReadiness(f) = f
    BY <2>2 DEF ReconcileHygieneReadiness, AwaitsHygiene
  <2>5. ResumeFrom(persistent, controller) \/ ResumeFrom(ApplyHygiene(persistent, h), controller)
    BY <1>1 DEF Resume, h
  <2> QED
    BY <2>1, <2>2, <2>3, <2>4, <2>5
<1>3. PICK d \in Delivery : d.status = "escalated" /\ ResumeFrom(d, controller)
  BY <1>2
<1>4. ~MustRebuildOnResume(StoredStale, d)
  BY <1>3 DEF MustRebuildOnResume
<1>5. EnterResume(d, controller)
  BY <1>3, <1>4, Zenon DEF ResumeFrom
<1>6. Persisted(d).status = "escalated"
  BY <1>3, PersistedFrame
<1> QED
  BY <1>5, <1>6 DEF EnterResume, Persist, comment

\* A step takes an escalation back only for a reason.
LEMMA EscalationStep ==
  ASSUME TypeOK, SafetyInv, StoredInv, ProgressInv, [Next]_vars,
         persistent.status = "escalated", persistent'.status # "escalated"
  PROVE  StoredStale \/ hygiene.controlPlane # controlPlane
<1>1. CASE SessionStep
  <2>1. pc # "idle"
    BY <1>1, SessionGoes DEF Ends, GoesOn
  <2>2. pc \in HoldingPcs
    BY <2>1 DEF StoredInv, TypeOK, Pcs, HoldingPcs, StoringPcs, ReleasePcs
  <2>3. delivery.status = "escalated"
    BY <2>2, Held, PersistedFrame DEF StoredInv
  <2>4. pc = "loop"
    BY <2>1, <2>3 DEF StoredInv
  <2> QED
    BY <1>1, <2>3, <2>4, EscalatedStoresNothing
<1>2. CASE Environment \/ WorkerRuns \/ Crash \/ UNCHANGED vars
  BY <1>2
  DEF Environment, WorkerRuns, ExternalPush, BaseAdvance, ControlPlaneRelease, WorkerPushes,
      WorkerEndsWithoutPush, Crash, vars, comment
<1>3. CASE Resume
  BY <1>3, EscalationReadBack
<1>4. CASE ResumeRearmingHygiene
  BY <1>4 DEF ResumeRearmingHygiene, CanRearmUnknown
<1> QED
  BY <1>1, <1>2, <1>3, <1>4 DEF Next

\* A stored escalation is taken back only when the pull request has moved, or under a
\* new control plane.
THEOREM EscalationsAreKept == Spec => EscalationIsKept
<1>1. TypeOK /\ SafetyInv /\ ProgressInv /\ StoredInv /\ [Next]_vars
        => [persistent.status = "escalated" /\ persistent'.status # "escalated"
              => StoredStale \/ hygiene.controlPlane # controlPlane]_vars
  BY EscalationStep
<1> QED
  BY <1>1, StoredHolds, ProgressHolds, InitialHolds, Safe, TypeCorrect, PTL
  DEF Spec, EscalationIsKept

-----------------------------------------------------------------------------
(* The protocol keeps the promise of the release status.                      *)

Owing == {h \in Heads : AuditRequiredFor(headRisk[h])}
Launched == bootstrapAttempts + workerLaunches
Candidate == IF pc = "publish" THEN confirmed.head ELSE NoHead

\* No status, or one that is not a success, is published.
Lowers ==
  \/ UNCHANGED commitStatus
  \/ \E h : SetStatus(h, "pending")
  \/ \E h : SetStatus(h, "failure")

\* What is granted is a number that does not go down.
LEMMA GrantedGrows ==
  ASSUME TypeOK, TypeOK', BootstrapInv, BootstrapInv', Kept, UNCHANGED bootstrapAttempts,
         controlPlane' >= controlPlane
  PROVE  Granted \in Nat /\ Granted' \in Nat /\ Granted' >= Granted
<1>1. Numbers /\ Numbers'
  BY Counts
<1>2. \E m, n \in Nat : n >= m /\ Granted = controlPlane + m /\ Granted' = controlPlane' + n
  <2> DEFINE spent == persistent.implementationAttempts + persistent.auditRemediationAttempts
  <2>1. CASE persistent.materialHeadSha # NoHead
    <3>1. persistent'.materialHeadSha # NoHead /\ spent \in Nat /\ spent' \in Nat /\ spent' >= spent
      BY <1>1, <2>1 DEF Kept, SpentAtLeast, Numbers
    <3> QED
      BY <2>1, <3>1 DEF Granted
  <2>2. CASE persistent.materialHeadSha = NoHead /\ persistent'.materialHeadSha = NoHead
    BY <1>1, <2>2 DEF Granted, Numbers
  <2>3. CASE persistent.materialHeadSha = NoHead /\ persistent'.materialHeadSha # NoHead
    <3>1. spent' \in Nat /\ spent' >= bootstrapAttempts /\ bootstrapAttempts \in Nat
      BY <1>1, <2>3 DEF BootstrapInv, Numbers
    <3> QED
      BY <2>3, <3>1 DEF Granted
  <2> QED
    BY <2>1, <2>2, <2>3
<1>3. PICK m, n \in Nat : n >= m /\ Granted = controlPlane + m /\ Granted' = controlPlane' + n
  BY <1>2
<1>4. PICK c, e \in Nat : e >= c /\ Granted = c + m /\ Granted' = e + n
  BY <1>1, <1>3 DEF Numbers
<1>5. c + m \in Nat /\ e + n \in Nat /\ e + n >= c + m
  BY <1>3, <1>4
<1> QED
  BY <1>4, <1>5, Zenon

\* A step that shows the people nothing but a lower status, or a grant.
LEMMA QuietPromise ==
  ASSUME TypeOK, TypeOK', UNCHANGED <<remoteHead, Owing, greenHeads, approvedHeads, Launched>>,
         UNCHANGED Candidate, Lowers, Granted \in Nat, Granted' \in Nat, Granted' >= Granted
  PROVE  [Promise!Next]_(Promise!vars)
<1>1. CASE UNCHANGED commitStatus
  <2>1. CASE Granted' = Granted
    BY <1>1, <2>1 DEF Promise!vars, Owing, Launched, Candidate
  <2>2. CASE Granted' > Granted
    BY <1>1, <2>2 DEF Promise!Next, Promise!Grant, Owing, Launched, Candidate
  <2> QED
    BY <2>1, <2>2
<1>2. ASSUME ~UNCHANGED commitStatus, NEW h, NEW s \in {"pending", "failure"}, SetStatus(h, s)
      PROVE  Promise!Next
  <2>1. h \in Heads
    BY <1>2 DEF SetStatus, TypeOK
  <2> QED
    BY <1>2, <2>1 DEF SetStatus, Promise!Next, Promise!Withdraw, Owing, Launched, Candidate
<1> QED
  BY <1>1, <1>2 DEF Lowers

\* Accepting a material publishes no success.
LEMMA AcceptMaterialLowers ==
  ASSUME NEW d, NEW b, AcceptMaterial(d, b)
  PROVE  Lowers
BY DEF AcceptMaterial, Lowers

\* Most steps of a session see nothing, launch nothing and publish no success.
LEMMA SessionQuiet ==
  ASSUME SessionStep, ~CiSucceeds, ~LaunchWorker, ~LaunchAudit, ~Release
  PROVE  UNCHANGED history /\ Lowers
<1>1. CASE MaterialStep
  <2>1. CASE DiscoverMaterial \/ ReservePromotion \/ PromotionFailed \/ PendingPromoted
    BY <2>1 DEF DiscoverMaterial, ReservePromotion, PromotionFailed, PendingPromoted, Lowers
  <2>2. CASE MaterialUnstorable
    BY <2>2 DEF MaterialUnstorable, Lowers
  <2>3. CASE AssessMaterial
    BY <2>3, AcceptMaterialLowers DEF AssessMaterial
  <2>4. CASE MaterialPromoted
    BY <2>4, AcceptMaterialLowers DEF MaterialPromoted
  <2> QED
    BY <1>1, <2>1, <2>2, <2>3, <2>4 DEF MaterialStep
<1>2. CASE CiStep
  <2>1. CASE InitialObservesDrift \/ InitialBlockedByHygiene \/ ResumeObservesDrift
             \/ CiFailsActionably
    BY <2>1 DEF InitialObservesDrift, InitialBlockedByHygiene, ResumeObservesDrift,
       CiFailsActionably, Lowers
  <2>2. CASE CiFailsExternally
    BY <2>2 DEF CiFailsExternally, Lowers
  <2> QED
    BY <1>2, <2>1, <2>2 DEF CiStep
<1>3. CASE WorkerStep
  <2>1. CASE ReserveRemediation \/ CorrelateWorker \/ RecoveryRefused \/ RearmWorker
             \/ MaterialNeverAppears
    BY <2>1 DEF ReserveRemediation, CorrelateWorker, RecoveryRefused, RearmWorker,
       MaterialNeverAppears, Lowers
  <2>2. CASE WorkerFailed
    BY <2>2 DEF WorkerFailed, Lowers
  <2>3. CASE RemediationWithoutMaterial
    BY <2>3 DEF RemediationWithoutMaterial, Lowers
  <2>4. CASE MaterialEscalates
    BY <2>4 DEF MaterialEscalates, Lowers
  <2>5. CASE MaterialPublished
    BY <2>5, AcceptMaterialLowers DEF MaterialPublished
  <2> QED
    BY <1>3, <2>1, <2>2, <2>3, <2>4, <2>5 DEF WorkerStep
<1>4. CASE AuditStep
  BY <1>4
  DEF AuditStep, ReserveAudit, RearmAudit, AdoptAudit, CorrelateAudit, AuditRecoveryRefused,
      AuditWorkflowFailed, ConsumeVerdict, Lowers
<1>5. CASE HygieneStep
  BY <1>5
  DEF HygieneStep, ReserveHygiene, RearmHygiene, AdoptHygiene, LaunchHygiene, CorrelateHygiene,
      HygieneRecoveryRefused, HygieneWorkerFailed, ConsumeHygiene, ResolvePending, StartsHygiene,
      Lowers
<1>6. CASE ReleaseStep
  <2>1. CASE ReportEscalation
    BY <2>1 DEF ReportEscalation, Lowers
  <2>2. CASE ReleaseIdentityDrifts \/ ReleaseRefused \/ RecordRelease
    BY <2>2 DEF ReleaseIdentityDrifts, ReleaseRefused, RecordRelease, Lowers
  <2>3. CASE Reading
    BY <2>3, ReleaseReads DEF ReadsIdentity, Lowers
  <2> QED
    BY <1>6, <2>1, <2>2, <2>3 DEF ReleaseStep, Reading
<1> QED
  BY <1>1, <1>2, <1>3, <1>4, <1>5, <1>6 DEF SessionStep

\* Seeing required CI green grants nothing.
LEMMA CiPromise ==
  ASSUME TypeOK, TypeOK', SafetyInv, StoredInv, BootstrapInv, CiSucceeds
  PROVE  Promise!SeeGreen
<1> DEFINE d == ApplyCiSuccess(delivery)
<1>1. /\ pc = "loop" /\ persistent' = Persisted(d) /\ delivery.status = "ci-pending"
      /\ greenOn' = [greenOn EXCEPT ![remoteHead] = @ \cup {base}]
      /\ UNCHANGED <<github, commitStatus, bootstrapAttempts, approvedOn, launches>>
  BY DEF CiSucceeds, AwaitsCi, CanRecordCi, Persist
<1>2. /\ d \in Delivery /\ SameAttempts(delivery, d) /\ d.materialHeadSha = delivery.materialHeadSha
  BY Held, <1>1, ApplyResultTypes, ApplyCiSuccessFrame DEF SameBudget
<1> HIDE DEF d
<1>3. SameAttempts(d, Persisted(d)) /\ Persisted(d).materialHeadSha = d.materialHeadSha
  BY <1>2, PersistedFrame DEF SameBudget, SameEvidence
<1>4. SameAttempts(delivery, persistent) /\ delivery.materialHeadSha \in Heads
  BY <1>1, Held, PersistedFrame DEF StoredInv, HoldingPcs, StoringPcs, SameBudget, SafetyInv,
       MemoryInv
<1>5. persistent.materialHeadSha # NoHead /\ persistent'.materialHeadSha # NoHead
  BY <1>1, <1>2, <1>3, <1>4, MaxHeadAssumption DEF BootstrapInv, Heads, NoHead
<1>6. Granted' = Granted
  BY <1>1, <1>2, <1>3, <1>4, <1>5 DEF Granted, SameAttempts, github
<1>7. greenHeads' = greenHeads \cup {remoteHead}
  BY <1>1, Held DEF greenHeads, TypeOK
<1>8. UNCHANGED Candidate
  BY DEF CiSucceeds, AwaitsCi, Candidate
<1> QED
  BY <1>1, <1>6, <1>7, <1>8 DEF Promise!SeeGreen, github, launches, approvedHeads, Candidate

\* An audit that is launched may approve the head; an audit of another one cannot.
LEMMA AuditPromise ==
  ASSUME TypeOK, TypeOK', SafetyInv, LaunchAudit
  PROVE  [Promise!Next]_(Promise!vars)
<1>1. /\ UNCHANGED <<github, commitStatus, comment, bootstrapAttempts, greenOn, workerLaunches>>
      /\ delivery.materialHeadSha \in Heads
  BY DEF LaunchAudit, SafetyInv, MemoryInv
<1>2. UNCHANGED <<remoteHead, Owing, greenHeads, commitStatus, Granted, Launched, Candidate>>
  BY <1>1 DEF LaunchAudit, github, comment, memory, identity, Owing, greenHeads, Granted, Launched,
              Candidate
<1>3. \/ UNCHANGED approvedOn
      \/ approvedOn' = [approvedOn EXCEPT ![remoteHead] = @ \cup {base}]
  <2>1. PICK run \in AuditRun :
          /\ run.candidate = delivery.materialHeadSha
          /\ HeadDrifted => run.verdict = "absent"
          /\ approvedOn' = IF run.verdict = "approved"
                           THEN [approvedOn EXCEPT ![run.candidate] = @ \cup {base}]
                           ELSE approvedOn
    BY DEF LaunchAudit
  <2> QED
    BY <2>1 DEF HeadDrifted
<1>4. CASE UNCHANGED approvedOn
  BY <1>2, <1>4 DEF approvedHeads, Promise!vars, Owing, Launched, Candidate
<1>5. CASE approvedOn' = [approvedOn EXCEPT ![remoteHead] = @ \cup {base}]
  <2>1. approvedHeads' = approvedHeads \cup {remoteHead}
    BY <1>5, Held DEF approvedHeads, TypeOK
  <2> QED
    BY <1>2, <2>1 DEF Promise!Next, Promise!Approve, Owing, Launched, Candidate
<1> QED
  BY <1>3, <1>4, <1>5

\* A worker that is launched was granted.
LEMMA WorkerPromise ==
  ASSUME TypeOK, TypeOK', BootstrapInv, ChargedInv, LaunchWorker
  PROVE  Promise!Launch
<1>1. /\ UNCHANGED <<github, commitStatus, comment, bootstrapAttempts, greenOn, approvedOn>>
      /\ workerLaunches' = workerLaunches + 1 /\ pc = "worker" /\ WorkerOwed = 1
  BY DEF LaunchWorker, WorkerOwed, Owed
<1>2. Launched < Granted
  <2>1. persistent.materialHeadSha # NoHead
    BY <1>1 DEF BootstrapInv
  <2> QED
    BY <1>1, <2>1, Counts
    DEF ChargedInv, WorkerCharged, CheckoutInv, Numbers, Launched, Granted
<1>3. Launched' = Launched + 1
  BY <1>1, Counts DEF Launched, Numbers
<1>4. UNCHANGED Candidate
  BY DEF LaunchWorker, memory, identity, Candidate
<1> QED
  BY <1>1, <1>2, <1>3, <1>4
  DEF Promise!Launch, github, comment, greenHeads, approvedHeads, Granted, Launched, Candidate

\* What a session does but to publish looks at the pull request for the last time, or
\* is not about to publish.
LEMMA SessionCandidate ==
  ASSUME TypeOK, SafetyInv, SessionStep, ~Release
  PROVE  \/ Reading /\ ReadsIdentity("publish")
         \/ Candidate = NoHead /\ UNCHANGED Candidate
BY SessionGoes DEF Ends, EndSession, GoesOn, Candidate

\* The last look finds the evidence for the head that is current.
LEMMA ConfirmPromised ==
  ASSUME TypeOK, SafetyInv, Reading, ReadsIdentity("publish")
  PROVE  Promise!Confirm
<1>1. /\ delivery.materialHeadSha = remoteHead /\ remoteHead \in Heads
      /\ confirmed'.head = remoteHead /\ pc' = "publish"
      /\ UNCHANGED <<github, commitStatus, comment, history>>
  BY Held DEF ReadsIdentity, IdentityDrifted, HeadDrifted
<1>2. /\ remoteHead \in greenHeads
      /\ AuditRequiredFor(headRisk[remoteHead]) => remoteHead \in approvedHeads
  BY <1>1, ReadyWhenRead, ReadyIsEarned
<1>3. UNCHANGED <<remoteHead, headRisk, greenHeads, approvedHeads, Granted, Launched>>
  BY <1>1 DEF github, comment, history, launches, greenHeads, approvedHeads, Granted, Launched
<1> QED
  BY <1>1, <1>2, <1>3 DEF Promise!Confirm, Launched

\* A session reaches the publication by a read, and nobody else forgets what it read.
LEMMA ReachesPublish ==
  ASSUME TypeOK, SafetyInv, [Next]_vars, pc' = "publish"
  PROVE  \/ Reading /\ ReadsIdentity("publish")
         \/ /\ pc = "publish" /\ UNCHANGED <<confirmed, delivery, greenOn, approvedOn>>
            /\ \A h \in Heads : h <= lastHead => headRisk'[h] = headRisk[h]
<1>1. CASE SessionStep
  BY <1>1, SessionGoes DEF Ends, EndSession, GoesOn
<1>2. CASE Environment \/ WorkerRuns \/ UNCHANGED vars
  <2>1. UNCHANGED <<memory, history>>
    BY <1>2
    DEF Environment, WorkerRuns, ExternalPush, BaseAdvance, ControlPlaneRelease, WorkerPushes,
        WorkerEndsWithoutPush, vars
  <2>2. UNCHANGED headRisk \/ Push
    BY <1>2
    DEF Environment, WorkerRuns, ExternalPush, BaseAdvance, ControlPlaneRelease, WorkerPushes,
        WorkerEndsWithoutPush, vars, github
  <2>3. \A h \in Heads : h <= lastHead => headRisk'[h] = headRisk[h]
    BY <2>2, DomainTypes DEF Push, NewHead, TypeOK
  <2> QED
    BY <2>1, <2>3 DEF memory, identity, history
<1>3. CASE Crash
  BY <1>3 DEF Crash, EndSession
<1>4. CASE Resume \/ ResumeRearmingHygiene
  <2>1. \E d, c : ResumeFrom(d, c)
    BY <1>4 DEF Resume, ResumeRearmingHygiene
  <2>2. \E d, c : EnterResume(d, c)
    BY <2>1, Zenon DEF ResumeFrom
  <2>3. UNCHANGED memory
    BY <2>2 DEF EnterResume
  <2> QED
    BY <1>4, <2>3 DEF Resume, ResumeRearmingHygiene, github, memory, identity, history
<1> QED
  BY <1>1, <1>2, <1>3, <1>4 DEF Next

\* A session about to publish has last read the head that it is about.
ConfirmedHead == pc = "publish" => confirmed.head = delivery.materialHeadSha

LEMMA ConfirmedHeadHolds ==
  /\ Init => ConfirmedHead
  /\ TypeOK /\ SafetyInv /\ ConfirmedHead /\ [Next]_vars => ConfirmedHead'
<1>1. Init => ConfirmedHead
  BY DEF Init, ConfirmedHead
<1>2. ASSUME TypeOK, SafetyInv, ConfirmedHead, [Next]_vars, pc' = "publish"
      PROVE  confirmed'.head = delivery'.materialHeadSha
  <2>1. CASE ReadsIdentity("publish")
    BY <2>1 DEF ReadsIdentity, IdentityDrifted, HeadDrifted
  <2> QED
    BY <1>2, <2>1, ReachesPublish DEF ConfirmedHead
<1> QED
  BY <1>1, <1>2 DEF ConfirmedHead

\* A release publishes a success for the head that was looked at.
LEMMA ReleasePromised ==
  ASSUME TypeOK, SafetyInv, ConfirmedHead, Release
  PROVE  Promise!Publish
<1>1. /\ pc = "publish" /\ confirmed.head = delivery.materialHeadSha /\ pc' = "released"
      /\ SetStatus(confirmed.head, "success")
      /\ UNCHANGED <<github, comment, history>>
  BY DEF Release, ConfirmedHead
<1>2. confirmed.head # NoHead
  BY <1>1, MaxHeadAssumption DEF SafetyInv, MemoryInv, Heads, NoHead
<1>3. UNCHANGED <<remoteHead, headRisk, greenHeads, approvedHeads, Granted, Launched>>
  BY <1>1 DEF github, comment, history, launches, greenHeads, approvedHeads, Granted, Launched
<1> QED
  BY <1>1, <1>2, <1>3 DEF Promise!Publish, SetStatus, Launched

\* A session that dies abandons what it was about to publish.
LEMMA CrashPromised ==
  ASSUME Crash
  PROVE  Promise!Abandon
<1>1. pc' = "idle" /\ UNCHANGED <<github, commitStatus, comment, history>>
  BY DEF Crash, EndSession
<1>2. UNCHANGED <<remoteHead, headRisk, greenHeads, approvedHeads, Granted, Launched>>
  BY <1>1 DEF github, comment, history, launches, greenHeads, approvedHeads, Granted, Launched
<1> QED
  BY <1>1, <1>2 DEF Promise!Abandon, Launched

\* A push brings a head that is later than every other.
LEMMA PushPromise ==
  ASSUME TypeOK, TypeOK', ProgressInv, Push,
         UNCHANGED <<controlPlane, comment, commitStatus, memory, history>>
  PROVE  Promise!Push
<1>1. remoteHead' > remoteHead /\ remoteHead' \in Heads
  BY Held, DomainTypes DEF Push, NewHead, ProgressInv, TypeOK
<1>2. \A h \in Heads : h <= remoteHead => headRisk'[h] = headRisk[h]
  BY DomainTypes DEF Push, NewHead, ProgressInv, TypeOK
<1> QED
  BY <1>1, <1>2
  DEF Promise!Push, comment, memory, identity, history, launches, greenHeads, approvedHeads, Granted

\* The first state and every step of the protocol are those of the promise.
LEMMA InitPromise == TypeOK /\ Init => Promise!Init
<1> SUFFICES ASSUME TypeOK, Init PROVE Promise!Init
  OBVIOUS
<1>1. greenHeads = {} /\ approvedHeads = {}
  BY DEF Init, greenHeads, approvedHeads
<1>2. Granted = bootstrapAttempts /\ bootstrapAttempts + workerLaunches = bootstrapAttempts
  BY DEF Init, Granted, NoDelivery, CreateDeliveryState, TypeOK
<1> QED
  BY <1>1, <1>2 DEF Promise!Init, Init, TypeOK

\* Every step of the controller is a step of ReleasePromise or leaves it alone.
LEMMA NextPromise ==
  ASSUME TypeOK, TypeOK', SafetyInv, ProgressInv, StoredInv, BootstrapInv, BootstrapInv',
         ChargedInv, ConfirmedHead, [Next]_vars
  PROVE  [Promise!Next]_(Promise!vars)
<1>1. SafetyInv' /\ Kept /\ UNCHANGED bootstrapAttempts
  BY NextSafe, HistoryKept
<1>2. ASSUME controlPlane' >= controlPlane, UNCHANGED <<remoteHead, headRisk, history>>, Lowers,
             UNCHANGED Candidate
      PROVE  [Promise!Next]_(Promise!vars)
  <2>1. UNCHANGED <<Owing, greenHeads, approvedHeads, Launched>>
    BY <1>2 DEF Owing, greenHeads, approvedHeads, Launched, history, launches
  <2> QED
    BY <1>1, <1>2, <2>1, GrantedGrows, QuietPromise
<1>3. CASE SessionStep
  <2>1. UNCHANGED github
    BY <1>3, SessionGoes DEF Ends, GoesOn
  <2>2. CASE CiSucceeds \/ LaunchWorker \/ LaunchAudit \/ Release
    BY <1>1, <2>2, CiPromise, WorkerPromise, AuditPromise, ReleasePromised DEF Promise!Next
  <2>3. CASE Reading /\ ReadsIdentity("publish")
    BY <2>3, ConfirmPromised DEF Promise!Next
  <2>4. CASE /\ ~(CiSucceeds \/ LaunchWorker \/ LaunchAudit \/ Release)
             /\ ~(Reading /\ ReadsIdentity("publish"))
    BY <1>2, <1>3, <2>1, <2>4, SessionQuiet, SessionCandidate, Counts DEF github, Numbers
  <2> QED
    BY <2>2, <2>3, <2>4
<1>4. CASE ExternalPush \/ WorkerPushes
  BY <1>4, PushPromise DEF ExternalPush, WorkerPushes, Promise!Next
<1>5. CASE Resume \/ ResumeRearmingHygiene
  <2>1. SetStatus(remoteHead, "pending") /\ UNCHANGED <<github, history>>
    <3>1. \E d, c : ResumeFrom(d, c)
      BY <1>5 DEF Resume, ResumeRearmingHygiene
    <3>2. \E d, c : EnterResume(d, c)
      BY <3>1, Zenon DEF ResumeFrom
    <3> QED
      BY <1>5, <3>2 DEF EnterResume, Resume, ResumeRearmingHygiene
  <2>2. Lowers
    BY <2>1 DEF Lowers
  <2>3. UNCHANGED Candidate
    <3>1. pc = "idle"
      BY <1>5 DEF Resume, ResumeRearmingHygiene, CanResume, ProgressInv
    <3>2. pc' # "publish"
      BY <3>1, ReachesPublish, ReleaseReads
    <3> QED
      BY <3>1, <3>2 DEF Candidate
  <2> QED
    BY <1>2, <2>1, <2>2, <2>3, Counts DEF github, Numbers
<1>6. CASE BaseAdvance \/ ControlPlaneRelease \/ WorkerEndsWithoutPush \/ UNCHANGED vars
  <2>1. /\ UNCHANGED <<remoteHead, headRisk, history, commitStatus, Candidate>>
        /\ controlPlane' \in {controlPlane, controlPlane + 1}
    BY <1>6
    DEF BaseAdvance, ControlPlaneRelease, WorkerEndsWithoutPush, vars, github, memory, identity,
        Candidate
  <2> QED
    BY <1>2, <2>1, Counts DEF Lowers, Numbers
<1>7. CASE Crash
  BY <1>7, CrashPromised DEF Promise!Next
<1> QED
  BY <1>3, <1>4, <1>5, <1>6, <1>7 DEF Next, Environment, WorkerRuns

\* The delivery controller implements the promise of the release status.
THEOREM PromiseIsKept == Spec => PromiseKept
<1>1. TypeOK /\ SafetyInv /\ ProgressInv /\ StoredInv /\ BootstrapInv /\ BootstrapInv' /\ ChargedInv
        /\ ConfirmedHead /\ TypeOK' /\ [Next]_vars => [Promise!Next]_(Promise!vars)
  BY NextPromise
<1> QED
  BY <1>1, InitPromise, StoredHolds, ProgressHolds, InitialHolds, BootstrapHolds, ChargedHolds,
     ConfirmedHeadHolds, Safe, TypeCorrect, PTL
  DEF Spec, PromiseKept, Promise!Spec

-----------------------------------------------------------------------------
(* The base branch.                                                          *)

\* Somebody has seen it for the head since the base was b.
SeenSince(on, h, b) == \E k \in on[h] : k >= b

\* The evidence of a delivery, and the approval that a known audit of the head holds,
\* were established since the base was b.
Since(d, b) ==
  /\ d.ciEvidence # NoHead => SeenSince(greenOn, d.materialHeadSha, b)
  /\ d.auditEvidence.decision = "approved" => SeenSince(approvedOn, d.materialHeadSha, b)
AuditSince(h, b) ==
  controller.auditRun # "none" /\ audit.candidate = h /\ audit.verdict = "approved" =>
    SeenSince(approvedOn, h, b)

\* What a session knows was seen since the base of the pull request it fetched last,
\* and what the comment stores for the remote head since the stored base; the audit
\* that is known is not of a later head.
BaseInv ==
  /\ persistentBase <= base /\ audit.candidate <= persistent.materialHeadSha
  /\ \A h \in Heads : \A k \in greenOn[h] \cup approvedOn[h] : k <= base
  /\ persistent.materialHeadSha = remoteHead =>
       Since(persistent, persistentBase) /\ AuditSince(remoteHead, persistentBase)
  /\ pc \notin {"idle", "discover"} =>
       /\ expectedBase <= prBase /\ prBase <= base
       /\ persistent.materialHeadSha <= delivery.materialHeadSha
       /\ Since(delivery, prBase) /\ AuditSince(delivery.materialHeadSha, prBase)

\* e is about the head of d and has no evidence that d has not.
Carries(d, e) ==
  /\ e.materialHeadSha = d.materialHeadSha
  /\ e.ciEvidence # NoHead => d.ciEvidence # NoHead
  /\ e.auditEvidence.decision = "approved" => d.auditEvidence.decision = "approved"

\* What a step stores: nothing, what the session holds, the remote head without
\* evidence, or the head the session held with the base that is now current.
StoresNothing == UNCHANGED <<persistent, persistentBase>>
StoresHeld == Carries(delivery, persistent') /\ persistentBase' = prBase
StoresRemote == HeadDrifted /\ NoEvidence(persistent', remoteHead) /\ persistentBase' = base
StoresOld ==
  HeadDrifted /\ persistent'.materialHeadSha = delivery.materialHeadSha /\ persistentBase' = base

\* A session goes on about its head, goes on about the remote one, or ends.
HoldsOn ==
  /\ Carries(delivery, delivery') /\ UNCHANGED <<expectedBase, prBase>>
  /\ StoresNothing \/ StoresHeld
MovesOn ==
  /\ HeadDrifted /\ NoEvidence(delivery', remoteHead)
  /\ UNCHANGED expectedBase /\ prBase' = base
  /\ StoresNothing \/ StoresRemote
Stops == pc' = "idle" /\ (StoresNothing \/ StoresHeld \/ StoresRemote \/ StoresOld)

\* A step that establishes no evidence.
EvidenceKept ==
  /\ UNCHANGED <<github, greenOn, approvedOn>>
  /\ UNCHANGED audit \/ audit' = NoAuditRun
  /\ controller'.auditRun # "none" => controller.auditRun # "none" \/ audit' = NoAuditRun
BaseKept ==
  /\ EvidenceKept
  /\ \/ pc' = "idle" /\ StoresNothing
     \/ pc \notin {"idle", "discover"} /\ (HoldsOn \/ MovesOn \/ Stops)

\* The heads and the bases are ordered.
LEMMA Ordered ==
  ASSUME TypeOK, SafetyInv, ProgressInv
  PROVE  /\ remoteHead \in Heads /\ remoteHead \in Nat /\ NoHead = 0
         /\ persistent.materialHeadSha \in Nat /\ delivery.materialHeadSha \in Nat
         /\ persistent.materialHeadSha <= remoteHead
         /\ delivery.materialHeadSha <= remoteHead
         /\ remoteHead > 0
         /\ base \in Nat /\ prBase \in Nat /\ expectedBase \in Nat /\ persistentBase \in Nat
         /\ audit.candidate \in Nat
         /\ pc \notin {"idle", "discover"} =>
              delivery.materialHeadSha \in Heads /\ delivery.materialHeadSha # NoHead
<1>1. HeadOrNone \subseteq Nat /\ Heads \subseteq Nat \ {0} /\ Bases \subseteq Nat /\ NoHead = 0
  BY MaxHeadAssumption, BoundsAssumption DEF HeadOrNone, Heads, Bases, NoHead
<1>2. persistent.materialHeadSha \in HeadOrNone /\ delivery.materialHeadSha \in HeadOrNone
  BY Held, DeliveryFields
<1>3. persistent.materialHeadSha <= lastHead /\ delivery.materialHeadSha <= lastHead
  BY SafetyHeld DEF SoundFor
<1>4. remoteHead = lastHead /\ remoteHead \in Heads /\ audit.candidate \in HeadOrNone
  BY Held DEF ProgressInv, AuditRun
<1>5. remoteHead \in Nat \ {0}
  BY <1>1, <1>4
<1>6. remoteHead > 0
  BY <1>5
<1>7. pc \notin {"idle", "discover"} =>
        delivery.materialHeadSha \in Heads /\ delivery.materialHeadSha # NoHead
  BY <1>1 DEF SafetyInv, MemoryInv
<1> QED
  BY <1>1, <1>2, <1>3, <1>4, <1>5, <1>6, <1>7, Held

\* A delivery without evidence, or with less, was seen since the same base.
LEMMA SinceCarried ==
  ASSUME NEW d, NEW b, UNCHANGED <<greenOn, approvedOn>>
  PROVE  /\ Since(d, b) /\ Carries(d, delivery') /\ UNCHANGED prBase /\ b = prBase =>
              Since(delivery, prBase)'
         /\ Since(d, b) /\ Carries(d, persistent') /\ persistentBase' = b =>
              Since(persistent, persistentBase)'
         /\ Since(persistent, persistentBase) /\ StoresNothing =>
              Since(persistent, persistentBase)'
         /\ NoEvidence(delivery', d) => Since(delivery, prBase)'
         /\ NoEvidence(persistent', d) => Since(persistent, persistentBase)'
BY DEF Since, SeenSince, Carries, NoEvidence, NoAuditEvidence, StoresNothing

\* The approval of the known audit was seen since the same base.
LEMMA AuditSinceKept ==
  ASSUME EvidenceKept, NEW h, NEW b, AuditSince(h, b), h # NoHead
  PROVE  /\ h = remoteHead /\ persistentBase' = b => AuditSince(remoteHead, persistentBase)'
         /\ delivery'.materialHeadSha = h /\ prBase' = b =>
              AuditSince(delivery.materialHeadSha, prBase)'
BY DEF EvidenceKept, AuditSince, SeenSince, NoAuditRun, github

\* An audit of an earlier head approves nothing about this one.
LEMMA AuditSinceVoid ==
  ASSUME EvidenceKept, audit.candidate # remoteHead, remoteHead # NoHead
  PROVE  /\ AuditSince(remoteHead, persistentBase)'
         /\ delivery'.materialHeadSha = remoteHead => AuditSince(delivery.materialHeadSha, prBase)'
BY DEF EvidenceKept, AuditSince, NoAuditRun, github

\* A step that establishes no evidence keeps the invariant.
LEMMA KeptBase ==
  ASSUME TypeOK, SafetyInv, ProgressInv, BaseInv, BaseKept
  PROVE  BaseInv'
<1>0. /\ UNCHANGED <<base, remoteHead, greenOn, approvedOn>>
      /\ audit'.candidate = audit.candidate \/ audit'.candidate = 0
  BY DEF BaseKept, EvidenceKept, github, NoAuditRun, NoHead
<1>1. \A h \in Heads : \A k \in (greenOn[h] \cup approvedOn[h])' : k <= base'
  BY <1>0 DEF BaseInv
<1> DEFINE Stored == persistent.materialHeadSha = remoteHead =>
                       Since(persistent, persistentBase) /\ AuditSince(remoteHead, persistentBase)
           Behind == persistentBase <= base /\ audit.candidate <= persistent.materialHeadSha
<1>2. ASSUME StoresNothing PROVE Stored' /\ Behind'
  BY <1>0, <1>2, Ordered, SinceCarried, AuditSinceKept DEF BaseInv, BaseKept, StoresNothing
<1>3. ASSUME StoresHeld, pc \notin {"idle", "discover"} PROVE Stored' /\ Behind'
  <2>1. /\ persistent'.materialHeadSha = delivery.materialHeadSha /\ persistentBase' = prBase
        /\ Carries(delivery, persistent')
    BY <1>3 DEF StoresHeld, Carries
  <2>2. Behind'
    BY <1>0, <1>3, <2>1, Ordered DEF BaseInv
  <2>3. Stored'
    BY <1>0, <1>3, <2>1, Ordered, SinceCarried, AuditSinceKept DEF BaseInv, BaseKept
  <2> QED
    BY <2>2, <2>3
<1>4. ASSUME HeadDrifted, pc \notin {"idle", "discover"}
      PROVE  audit.candidate < remoteHead /\ delivery.materialHeadSha < remoteHead
  BY <1>4, Ordered DEF BaseInv, HeadDrifted
<1>5. ASSUME StoresRemote, pc \notin {"idle", "discover"} PROVE Stored' /\ Behind'
  <2>1. persistent'.materialHeadSha = remoteHead /\ persistentBase' = base
    BY <1>5 DEF StoresRemote, NoEvidence
  <2>2. Behind'
    BY <1>0, <1>4, <1>5, <2>1, Ordered DEF StoresRemote
  <2>3. Since(persistent, persistentBase)' /\ AuditSince(remoteHead, persistentBase)'
    BY <1>0, <1>4, <1>5, Ordered, SinceCarried, AuditSinceVoid DEF StoresRemote, BaseKept
  <2> QED
    BY <2>2, <2>3
<1>6. ASSUME StoresOld, pc \notin {"idle", "discover"} PROVE Stored' /\ Behind'
  BY <1>0, <1>4, <1>6, Ordered DEF StoresOld, BaseInv
<1> DEFINE Known == pc \notin {"idle", "discover"} =>
                      /\ expectedBase <= prBase /\ prBase <= base
                      /\ persistent.materialHeadSha <= delivery.materialHeadSha
                      /\ Since(delivery, prBase) /\ AuditSince(delivery.materialHeadSha, prBase)
<1>7. CASE pc' = "idle"
  <2>1. Known'
    BY <1>7
  <2>2. Stored' /\ Behind'
    BY <1>2, <1>3, <1>5, <1>6 DEF BaseKept, HoldsOn, MovesOn, Stops
  <2> QED
    BY <1>1, <2>1, <2>2 DEF BaseInv
<1>8. CASE HoldsOn /\ pc \notin {"idle", "discover"}
  <2>1. /\ delivery'.materialHeadSha = delivery.materialHeadSha
        /\ UNCHANGED <<expectedBase, prBase>> /\ Carries(delivery, delivery')
    BY <1>8 DEF HoldsOn, Carries
  <2>2. persistent'.materialHeadSha <= delivery'.materialHeadSha
    BY <1>8, <2>1, Ordered DEF HoldsOn, StoresNothing, StoresHeld, Carries, BaseInv
  <2>3. Since(delivery, prBase)' /\ AuditSince(delivery.materialHeadSha, prBase)'
    BY <1>0, <1>8, <2>1, Ordered, SinceCarried, AuditSinceKept DEF BaseInv, BaseKept
  <2>4. Known'
    BY <1>0, <1>8, <2>1, <2>2, <2>3 DEF BaseInv
  <2>5. Stored' /\ Behind'
    BY <1>2, <1>3, <1>8 DEF HoldsOn
  <2> QED
    BY <1>1, <2>4, <2>5 DEF BaseInv
<1>9. CASE MovesOn /\ pc \notin {"idle", "discover"}
  <2>1. /\ delivery'.materialHeadSha = remoteHead /\ UNCHANGED expectedBase /\ prBase' = base
        /\ HeadDrifted /\ NoEvidence(delivery', remoteHead)
    BY <1>9 DEF MovesOn, NoEvidence
  <2>2. persistent'.materialHeadSha <= delivery'.materialHeadSha
    BY <1>9, <2>1, Ordered DEF MovesOn, StoresNothing, StoresRemote, NoEvidence
  <2>3. Since(delivery, prBase)' /\ AuditSince(delivery.materialHeadSha, prBase)'
    BY <1>0, <1>4, <1>9, <2>1, Ordered, SinceCarried, AuditSinceVoid DEF BaseKept
  <2>4. Known'
    BY <1>0, <1>9, <2>1, <2>2, <2>3, Ordered DEF BaseInv
  <2>5. Stored' /\ Behind'
    BY <1>2, <1>5, <1>9 DEF MovesOn
  <2> QED
    BY <1>1, <2>4, <2>5 DEF BaseInv
<1> QED
  BY <1>7, <1>8, <1>9 DEF BaseKept, Stops

\* The same evidence is no more evidence.
LEMMA SameCarries ==
  ASSUME NEW d, NEW e, SameEvidence(d, e)
  PROVE  Carries(d, e)
BY DEF SameEvidence, Carries

\* Storing a delivery that carries what the session holds, or none of it.
LEMMA PersistBase ==
  ASSUME TypeOK, NEW d \in Delivery, NEW b, NEW c, Persist(d, b, c)
  PROVE  /\ Carries(delivery, d) /\ b = prBase => StoresHeld
         /\ HeadDrifted /\ NoEvidence(d, remoteHead) /\ b = base => StoresRemote
         /\ HeadDrifted /\ d.materialHeadSha = delivery.materialHeadSha /\ b = base => StoresOld
         /\ controller' = c
<1>1. SameEvidence(d, persistent') /\ persistentBase' = b
  BY PersistedFrame DEF Persist
<1> QED
  BY <1>1 DEF SameEvidence, Carries, NoEvidence, StoresHeld, StoresRemote, StoresOld, Persist

\* Accepting a material stores it or nothing.
LEMMA AcceptMaterialBase ==
  ASSUME TypeOK, NEW d \in Delivery, NEW b, AcceptMaterial(d, b)
  PROVE  /\ delivery' = d
         /\ StoresNothing \/ \E c : Persist(d, b, c)
         /\ controller'.auditRun # "none" => controller.auditRun # "none"
<1>1. NewMaterialMetadata(d).auditRun = "none"
  BY Held DEF NewMaterialMetadata, Controller
<1> QED
  BY <1>1 DEF AcceptMaterial, StoresNothing, comment, Persist

\* Nothing about material but its discovery touches the evidence or the base.
LEMMA MaterialKeepsBase ==
  ASSUME TypeOK, SafetyInv, MaterialStep, ~DiscoverMaterial
  PROVE  BaseKept
<1>1. CASE AssessMaterial
  <2>1. /\ AssessedMaterial \in Delivery /\ Carries(delivery, AssessedMaterial)
    BY Held, HygieneForType, ApplyHygieneType, ApplyHygieneFrame, SameCarries
    DEF AssessedMaterial
  <2>2. /\ pc = "assess" /\ AcceptMaterial(AssessedMaterial, prBase)
        /\ UNCHANGED <<github, audit, greenOn, approvedOn, expectedBase, prBase>>
    BY <1>1 DEF AssessMaterial, runs, identity, history
  <2> QED
    BY <2>1, <2>2, AcceptMaterialBase, PersistBase DEF BaseKept, EvidenceKept, HoldsOn
<1>2. CASE MaterialUnstorable \/ PromotionFailed
  BY <1>2
  DEF MaterialUnstorable, PromotionFailed, EndSession, comment, runs, history, BaseKept,
      EvidenceKept, StoresNothing
<1>3. CASE ReservePromotion
  <2>1. Promoted \in Delivery /\ Carries(delivery, Promoted)
    <3>1. PromotedRisk \in Profiles
      BY Held DEF PromotedRisk, Profiles
    <3> QED
      BY <3>1, Held, PromoteRiskType, PromoteRiskFrame, SameCarries DEF Promoted
  <2>2. PICK kept :
          Persist(Promoted, prBase,
                  [controller EXCEPT !.nextAction = "dispatch-technical-hygiene",
                                     !.hygieneRun = "reserved", !.technicalHygiene = kept])
    BY <1>3 DEF ReservePromotion
  <2>3. /\ controller'.auditRun = controller.auditRun
    BY <2>2, Held DEF Persist, Controller
  <2>4. /\ pc \notin {"idle", "discover"} /\ delivery' = Promoted
        /\ UNCHANGED <<github, audit, greenOn, approvedOn, expectedBase, prBase>>
    BY <1>3 DEF ReservePromotion, AwaitsPromotion, Pending, AtLoop, history
  <2> QED
    BY <2>1, <2>2, <2>3, <2>4, PersistBase DEF BaseKept, EvidenceKept, HoldsOn
<1>4. CASE MaterialPromoted \/ PendingPromoted
  <2>1. PromotionResult \in Delivery /\ Carries(delivery, PromotionResult)
    BY <1>4, Held, HygieneForType, ApplyHygieneType, ApplyHygieneFrame, SameCarries
    DEF MaterialPromoted, PendingPromoted, PromotionHolds, PromotionResult, HygieneRun
  <2>2. /\ pc = "promoting"
        /\ UNCHANGED <<github, audit, greenOn, approvedOn, expectedBase, prBase>>
    BY <1>4 DEF MaterialPromoted, PendingPromoted, runs, identity, history
  <2>3. CASE MaterialPromoted
    BY <2>1, <2>2, <2>3, AcceptMaterialBase, PersistBase
    DEF MaterialPromoted, BaseKept, EvidenceKept, HoldsOn
  <2>4. CASE PendingPromoted
    <3> DEFINE c == [controller EXCEPT !.technicalHygiene = PromotionResult.technicalHygiene]
    <3>1. c.auditRun = controller.auditRun
      BY Held DEF Controller
    <3>2. delivery' = PromotionResult /\ Persist(PromotionResult, prBase, c)
      BY <2>4 DEF PendingPromoted
    <3> HIDE DEF c
    <3> QED
      BY <2>1, <2>2, <3>1, <3>2, PersistBase DEF BaseKept, EvidenceKept, HoldsOn
  <2> QED
    BY <1>4, <2>3, <2>4
<1> QED
  BY <1>1, <1>2, <1>3, <1>4 DEF MaterialStep

\* Neither does CI, unless it succeeds.
LEMMA CiKeepsBase ==
  ASSUME TypeOK, SafetyInv, CiStep, ~CiSucceeds
  PROVE  BaseKept
<1>1. CASE InitialObservesDrift
  <2> DEFINE d == Classify(RecordHeadDrift(delivery, remoteHead), headRisk[remoteHead])
             c == [controller EXCEPT
                     !.nextAction = "external-head-drift-requires-controller-resume",
                     !.technicalHygiene = NoHygiene]
  <2>1. HeadDrifted /\ d \in Delivery /\ NoEvidence(d, remoteHead)
    <3>1. HeadDrifted
      BY <1>1 DEF InitialObservesDrift
    <3>2. RecordHeadDrift(delivery, remoteHead) \in Delivery
      BY Held, RecordHeadDriftType
    <3> QED
      BY <3>1, <3>2, Held, ClassifyType, HeadDriftFrame DEF HeadDrifted
  <2>2. c.auditRun = controller.auditRun
    BY Held DEF Controller
  <2>3. /\ pc = "loop" /\ pc' = "idle"
        /\ Persist(d, base, c) \/ UNCHANGED comment
        /\ UNCHANGED <<github, audit, greenOn, approvedOn>>
    BY <1>1
    DEF InitialObservesDrift, InitialWaitsForCi, HygieneBlocked, AtLoop, EndSession, runs, history
  <2> HIDE DEF d, c
  <2> QED
    BY <2>1, <2>2, <2>3, PersistBase DEF BaseKept, EvidenceKept, Stops, StoresNothing, comment
<1>2. CASE InitialBlockedByHygiene
  BY <1>2
  DEF InitialBlockedByHygiene, EndSession, comment, runs, history, BaseKept, EvidenceKept,
      StoresNothing
<1>3. CASE ResumeObservesDrift
  <2> DEFINE d == RebuildCiPendingState(headRisk[remoteHead], remoteHead, delivery)
             c == [controller EXCEPT !.nextAction = "observe-ci", !.technicalHygiene = NoHygiene]
  <2>1. d \in Delivery /\ NoEvidence(d, remoteHead) /\ c.auditRun = controller.auditRun
    BY Held, PersistenceTypes, RebuildCiPendingStateFrame DEF Controller
  <2>2. /\ pc = "loop" /\ HeadDrifted
        /\ \/ /\ delivery' = d /\ prBase' = base /\ Persist(d, base, c) /\ UNCHANGED expectedBase
           \/ pc' = "idle" /\ UNCHANGED comment
        /\ UNCHANGED <<github, audit, greenOn, approvedOn>>
    BY <1>3 DEF ResumeObservesDrift, AtLoop, EndSession, runs, history
  <2> HIDE DEF d, c
  <2> QED
    BY <2>1, <2>2, PersistBase DEF BaseKept, EvidenceKept, MovesOn, Stops, StoresNothing, comment
<1>4. CASE CiFailsActionably \/ CiFailsExternally
  <2>1. /\ pc = "loop" /\ delivery.status = "ci-pending"
        /\ UNCHANGED <<github, audit, greenOn, approvedOn>>
    BY <1>4 DEF CiFailsActionably, CiFailsExternally, AwaitsCi, CanRecordCi, runs, history
  <2>2. ASSUME NEW class \in {"actionable", "external"}
        PROVE  /\ RecordCiFailure(delivery, class) \in Delivery
               /\ Carries(delivery, RecordCiFailure(delivery, class))
    BY <2>1, Held, RecordCiFailureType, RecordCiFailureFrame DEF Carries
  <2>3. CASE CiFailsActionably
    <3> DEFINE d == RecordCiFailure(delivery, "actionable")
               c == [controller EXCEPT !.nextAction = d.status]
    <3>1. d \in Delivery /\ Carries(delivery, d) /\ c.auditRun = controller.auditRun
      BY <2>2, Held DEF Controller
    <3>2. delivery' = d /\ Persist(d, prBase, c) /\ UNCHANGED <<expectedBase, prBase>>
      BY <2>3 DEF CiFailsActionably, identity
    <3> HIDE DEF d, c
    <3> QED
      BY <2>1, <3>1, <3>2, PersistBase DEF BaseKept, EvidenceKept, HoldsOn
  <2>4. CASE CiFailsExternally
    <3> DEFINE d == RecordCiFailure(delivery, "external")
               c == [controller EXCEPT !.nextAction = "external-ci-blocker"]
    <3>1. d \in Delivery /\ Carries(delivery, d) /\ c.auditRun = controller.auditRun
      BY <2>2, Held DEF Controller
    <3>2. pc' = "idle" /\ Persist(d, prBase, c)
      BY <2>4 DEF CiFailsExternally, EndSession
    <3> HIDE DEF d, c
    <3> QED
      BY <2>1, <3>1, <3>2, PersistBase DEF BaseKept, EvidenceKept, Stops
  <2> QED
    BY <1>4, <2>3, <2>4
<1> QED
  BY <1>1, <1>2, <1>3, <1>4 DEF CiStep

\* Nor does anything a session does about its worker.
LEMMA WorkerKeepsBase ==
  ASSUME TypeOK, SafetyInv, WorkerStep
  PROVE  BaseKept
<1>1. CASE ReserveRemediation
  <2> DEFINE d == StartImplementation(delivery)
             c == [controller EXCEPT !.nextAction = "dispatch-remediation",
                                     !.workerRun = "reserved",
                                     !.remediationContext = @ \/ session = "resume"]
             f == [controller EXCEPT !.nextAction = "human-escalation"]
  <2>1. d \in Delivery /\ Carries(delivery, d)
    BY Held, StartImplementationType, StartImplementationFrame, SameCarries
  <2>2. c.auditRun = controller.auditRun /\ f.auditRun = controller.auditRun
    BY Held DEF Controller
  <2>3. /\ pc = "loop" /\ delivery' = d
        /\ Persist(d, prBase, f) \/ Persist(d, prBase, c)
        /\ UNCHANGED <<github, audit, greenOn, approvedOn, expectedBase, prBase>>
    BY <1>1 DEF ReserveRemediation, identity, history
  <2> HIDE DEF d, c, f
  <2> QED
    BY <2>1, <2>2, <2>3, PersistBase DEF BaseKept, EvidenceKept, HoldsOn
<1> DEFINE Rewrites == \E c : Persist(delivery, prBase, c) /\ c.auditRun = controller.auditRun
<1>2. ASSUME Rewrites \/ UNCHANGED comment
      PROVE  /\ StoresNothing \/ StoresHeld
             /\ controller'.auditRun = controller.auditRun
  BY <1>2, Held, PersistBase DEF Carries, StoresNothing, comment
<1>3. ASSUME NEW phases, WorkerFinished(phases) PROVE pc \notin {"idle", "discover"}
  BY <1>3 DEF WorkerFinished
<1>4. CASE LaunchWorker \/ CorrelateWorker \/ RearmWorker
  <2>1. /\ pc \notin {"idle", "discover"}
        /\ UNCHANGED <<github, audit, greenOn, approvedOn, expectedBase, prBase, delivery>>
    BY <1>4
    DEF LaunchWorker, CorrelateWorker, RearmWorker, runs, memory, identity, history
  <2>2. CASE LaunchWorker
    BY <1>2, <2>1, <2>2 DEF LaunchWorker, BaseKept, EvidenceKept, HoldsOn, Carries
  <2>3. CASE CorrelateWorker
    <3> DEFINE c == [controller EXCEPT !.nextAction = "observe-remediation",
                                       !.workerRun = "observed"]
    <3>1. Persist(delivery, prBase, c) /\ c.auditRun = controller.auditRun
      BY <2>3, Held DEF CorrelateWorker, Controller
    <3> HIDE DEF c
    <3> QED
      BY <1>2, <2>1, <3>1 DEF BaseKept, EvidenceKept, HoldsOn, Carries
  <2>4. CASE RearmWorker
    <3> DEFINE c == [controller EXCEPT !.nextAction = "dispatch-remediation-recovery",
                                       !.workerRun = "reserved", !.remediationContext = TRUE,
                                       !.recoveredAt = checkout]
    <3>1. Persist(delivery, prBase, c) /\ c.auditRun = controller.auditRun
      BY <2>4, Held DEF RearmWorker, Controller
    <3> HIDE DEF c
    <3> QED
      BY <1>2, <2>1, <3>1 DEF BaseKept, EvidenceKept, HoldsOn, Carries
  <2> QED
    BY <1>4, <2>2, <2>3, <2>4
<1>5. CASE RecoveryRefused \/ MaterialNeverAppears
  BY <1>5
  DEF RecoveryRefused, MaterialNeverAppears, EndSession, comment, runs, history, BaseKept,
      EvidenceKept, StoresNothing
<1>6. CASE WorkerFailed
  <2> DEFINE c == [controller EXCEPT !.nextAction = "remediation-worker-failed"]
  <2>1. c.auditRun = controller.auditRun
    BY Held DEF Controller
  <2>2. /\ pc \notin {"idle", "discover"} /\ pc' = "idle"
        /\ Persist(delivery, prBase, c) \/ UNCHANGED comment
        /\ UNCHANGED <<github, audit, greenOn, approvedOn>>
    BY <1>3, <1>6 DEF WorkerFailed, EndSession, runs, history
  <2> HIDE DEF c
  <2> QED
    BY <1>2, <2>1, <2>2 DEF BaseKept, EvidenceKept, Stops
<1>7. ASSUME NEW reason \in Reasons
      PROVE  /\ Escalate(delivery, reason) \in Delivery
             /\ Carries(delivery, Escalate(delivery, reason))
  BY <1>7, Held, EscalateType, EscalateFrame, SameCarries
<1>8. CASE RemediationWithoutMaterial \/ MaterialEscalates
  <2> DEFINE d == Escalate(delivery, "remediation-produced-no-material")
             e == Escalate(delivery, "remediation-opened-higher-risk-surface")
             c == [controller EXCEPT !.nextAction = "human-escalation"]
  <2>1. c.auditRun = controller.auditRun
    BY Held DEF Controller
  <2>2. d \in Delivery /\ e \in Delivery /\ Carries(delivery, d) /\ Carries(delivery, e)
    BY <1>7 DEF Reasons
  <2>3. /\ pc \notin {"idle", "discover"} /\ pc' = "idle"
        /\ \/ Persist(d, prBase, c)
           \/ HeadDrifted /\ Persist(e, base, c)
           \/ UNCHANGED comment
        /\ UNCHANGED <<github, audit, greenOn, approvedOn>>
    BY <1>3, <1>8
    DEF RemediationWithoutMaterial, MaterialEscalates, MaterialAppears, EndSession, runs, history
  <2> HIDE DEF d, e, c
  <2>4. UNCHANGED comment => StoresNothing /\ UNCHANGED controller
    BY DEF comment, StoresNothing
  <2>5. StoresNothing \/ StoresHeld \/ StoresOld
    BY <2>2, <2>3, <2>4, PersistBase DEF Carries
  <2>6. controller'.auditRun = controller.auditRun
    BY <2>1, <2>3, <2>4 DEF Persist
  <2> QED
    BY <2>3, <2>5, <2>6 DEF BaseKept, EvidenceKept, Stops
<1>9. CASE MaterialPublished
  <2> DEFINE published == PublishMaterial(delivery, remoteHead)
             h == HygieneFor(published, worker.head, worker.hygiene)
             d == ApplyHygiene(published, h)
  <2>1. published \in Delivery /\ NoEvidence(published, remoteHead)
    BY Held, PublishMaterialType, PublishMaterialFrame
  <2>2. h \in Hygiene
    BY <2>1, Held, HygieneForType
  <2>3. /\ AcceptMaterial(d, base) /\ pc \notin {"idle", "discover"} /\ HeadDrifted
        /\ prBase' = base
        /\ UNCHANGED <<github, audit, greenOn, approvedOn, expectedBase>>
    BY <1>3, <1>9 DEF MaterialPublished, MaterialAppears, runs, history
  <2> HIDE DEF published, h
  <2>4. d \in Delivery /\ NoEvidence(d, remoteHead)
    BY <2>1, <2>2, ApplyHygieneType, ApplyHygieneFrame DEF SameEvidence, NoEvidence
  <2> HIDE DEF d
  <2> QED
    BY <2>3, <2>4, AcceptMaterialBase, PersistBase DEF BaseKept, EvidenceKept, MovesOn
<1> QED
  BY <1>1, <1>4, <1>5, <1>6, <1>8, <1>9 DEF WorkerStep

\* Nor a step of an audit, unless it launches one or reads its verdict.
LEMMA AuditKeepsBase ==
  ASSUME TypeOK, SafetyInv, AuditStep, ~LaunchAudit, ~ConsumeVerdict
  PROVE  BaseKept
<1> DEFINE flying == [delivery EXCEPT !.auditInFlight = TRUE]
<1>0. flying \in Delivery /\ Carries(delivery, flying)
  BY Held DEF Delivery, Carries
<1> HIDE DEF flying
<1>1. ASSUME NEW d \in Delivery, Carries(delivery, d), pc = "loop", StartsAudit(d, controller),
             UNCHANGED <<github, greenOn, approvedOn, expectedBase, prBase>>
      PROVE  BaseKept
  <2>1. delivery' = d /\ audit' = NoAuditRun /\ \E c : Persist(d, prBase, c)
    BY <1>1 DEF StartsAudit
  <2> QED
    BY <1>1, <2>1, PersistBase DEF BaseKept, EvidenceKept, HoldsOn
<1>2. CASE ReserveAudit
  <2> DEFINE d == StartAudit(delivery)
             c == [controller EXCEPT !.nextAction = "human-escalation"]
  <2>1. /\ pc = "loop" /\ delivery.status = "audit-pending"
        /\ \/ delivery' = d /\ Persist(d, prBase, c) /\ UNCHANGED audit
           \/ StartsAudit(d, controller)
        /\ UNCHANGED <<github, greenOn, approvedOn, expectedBase, prBase>>
    BY <1>2 DEF ReserveAudit, AtLoop, identity, history
  <2>2. d \in Delivery /\ Carries(delivery, d) /\ c.auditRun = controller.auditRun
    BY <2>1, Held, StartAuditType, StartAuditFrame, SameCarries DEF Controller
  <2> HIDE DEF d, c
  <2>3. CASE delivery' = d /\ Persist(d, prBase, c) /\ UNCHANGED audit
    BY <2>1, <2>2, <2>3, PersistBase DEF BaseKept, EvidenceKept, HoldsOn
  <2> QED
    BY <1>1, <2>1, <2>2, <2>3
<1>3. CASE RearmAudit
  BY <1>0, <1>1, <1>3 DEF RearmAudit, AtLoop, identity, history, flying
<1>4. CASE AdoptAudit
  BY <1>0, <1>4
  DEF AdoptAudit, AtLoop, runs, comment, identity, history, BaseKept, EvidenceKept, HoldsOn,
      StoresNothing, flying
<1>5. CASE CorrelateAudit \/ AuditWorkflowFailed
  <2> DEFINE c == [controller EXCEPT !.nextAction = "observe-audit", !.auditRun = "observed"]
             f == [controller EXCEPT !.nextAction = "audit-workflow-failed"]
  <2>1. /\ pc = "audit" /\ controller.auditRun # "none"
        /\ \/ Persist(delivery, prBase, c) /\ UNCHANGED <<delivery, expectedBase, prBase>>
           \/ Persist(delivery, prBase, f) /\ pc' = "idle"
        /\ UNCHANGED <<github, audit, greenOn, approvedOn>>
    BY <1>5
    DEF CorrelateAudit, AuditWorkflowFailed, EndSession, runs, memory, identity, history
  <2> HIDE DEF c, f
  <2>2. StoresHeld
    BY <2>1, Held, PersistBase DEF Carries
  <2> QED
    BY <2>1, <2>2 DEF BaseKept, EvidenceKept, HoldsOn, Stops, Carries
<1>6. CASE AuditRecoveryRefused
  BY <1>6
  DEF AuditRecoveryRefused, EndSession, comment, runs, history, BaseKept, EvidenceKept,
      StoresNothing
<1> QED
  BY <1>2, <1>3, <1>4, <1>5, <1>6 DEF AuditStep

\* Nor anything about hygiene and the release.
LEMMA HygieneKeepsBase ==
  ASSUME TypeOK, SafetyInv, HygieneStep \/ ReleaseStep
  PROVE  BaseKept
<1> DEFINE Rewrites == \E c : Persist(delivery, prBase, c) /\ c.auditRun = controller.auditRun
<1>1. ASSUME Rewrites \/ UNCHANGED comment
      PROVE  /\ StoresNothing \/ StoresHeld
             /\ controller'.auditRun = controller.auditRun
  BY <1>1, Held, PersistBase DEF Carries, StoresNothing, comment
<1>2. CASE ReserveHygiene \/ RearmHygiene
  <2>1. PICK h : StartsHygiene(h)
    BY <1>2 DEF ReserveHygiene, RearmHygiene
  <2> DEFINE c == [controller EXCEPT !.nextAction = "dispatch-technical-hygiene",
                                     !.hygieneRun = "reserved", !.technicalHygiene = h]
  <2>2. pc = "loop"
    BY <1>2 DEF ReserveHygiene, RearmHygiene, NeedsHygiene, Pending, AtLoop
  <2>3. /\ Persist(delivery, prBase, c)
        /\ UNCHANGED <<github, audit, greenOn, approvedOn, expectedBase, prBase, delivery>>
    BY <2>1 DEF StartsHygiene, identity, history
  <2>4. c.auditRun = controller.auditRun
    BY Held DEF Controller
  <2> HIDE DEF c
  <2> QED
    BY <1>1, <2>2, <2>3, <2>4 DEF BaseKept, EvidenceKept, HoldsOn, Carries
<1>3. CASE AdoptHygiene \/ LaunchHygiene \/ Release
  <2>1. /\ pc \notin {"idle", "discover"} /\ UNCHANGED comment
        /\ UNCHANGED <<github, audit, greenOn, approvedOn, expectedBase, prBase, delivery>>
    BY <1>3
    DEF AdoptHygiene, NeedsHygiene, Pending, AtLoop, LaunchHygiene, HygieneUndispatched, Release,
        runs, memory, identity, history
  <2> QED
    BY <1>1, <2>1 DEF BaseKept, EvidenceKept, HoldsOn, Carries
<1>4. CASE CorrelateHygiene
  <2> DEFINE c == [controller EXCEPT !.nextAction = "observe-technical-hygiene",
                                     !.hygieneRun = "observed"]
  <2>1. /\ pc \notin {"idle", "discover"} /\ Persist(delivery, prBase, c)
        /\ UNCHANGED <<github, audit, greenOn, approvedOn, expectedBase, prBase, delivery>>
    BY <1>4 DEF CorrelateHygiene, runs, memory, identity, history
  <2>2. c.auditRun = controller.auditRun
    BY Held DEF Controller
  <2> HIDE DEF c
  <2> QED
    BY <1>1, <2>1, <2>2 DEF BaseKept, EvidenceKept, HoldsOn, Carries
<1>5. CASE HygieneRecoveryRefused \/ ReleaseIdentityDrifts \/ ReleaseRefused \/ ReportEscalation
  BY <1>5
  DEF HygieneRecoveryRefused, ReleaseIdentityDrifts, ReleaseRefused, ReportEscalation, EndSession,
      comment, runs, history, BaseKept, EvidenceKept, StoresNothing
<1>6. CASE HygieneWorkerFailed \/ RecordRelease
  <2> DEFINE c == [controller EXCEPT !.nextAction = "technical-hygiene-worker-failed"]
             f == [controller EXCEPT !.nextAction = "human-merge-policy"]
  <2>1. /\ pc \notin {"idle", "discover"} /\ pc' = "idle"
        /\ Persist(delivery, prBase, c) \/ Persist(delivery, prBase, f)
        /\ UNCHANGED <<github, audit, greenOn, approvedOn>>
    BY <1>6 DEF HygieneWorkerFailed, RecordRelease, EndSession, runs, history
  <2>2. c.auditRun = controller.auditRun /\ f.auditRun = controller.auditRun
    BY Held DEF Controller
  <2> HIDE DEF c, f
  <2> QED
    BY <1>1, <2>1, <2>2 DEF BaseKept, EvidenceKept, Stops
<1>7. CASE ConsumeHygiene
  <2> DEFINE h == HygieneFor(delivery, hygiene.examined, hygiene.result)
             d == ApplyHygiene(delivery, h)
             c == [controller EXCEPT !.nextAction = d.status,
                                     !.technicalHygiene = d.technicalHygiene]
  <2>1. h \in Hygiene
    BY <1>7, Held, HygieneForType DEF ConsumeHygiene, HygieneRun
  <2>2. d \in Delivery /\ Carries(delivery, d)
    BY <2>1, Held, ApplyHygieneType, ApplyHygieneFrame, SameCarries
  <2>3. c.auditRun = controller.auditRun
    BY Held DEF Controller
  <2>4. /\ pc = "hygiene" /\ delivery' = d /\ Persist(d, prBase, c)
        /\ UNCHANGED <<github, audit, greenOn, approvedOn, expectedBase, prBase>>
    BY <1>7 DEF ConsumeHygiene, runs, identity, history
  <2> HIDE DEF h, d, c
  <2> QED
    BY <2>2, <2>3, <2>4, PersistBase DEF BaseKept, EvidenceKept, HoldsOn
<1>8. CASE ResolvePending
  <2> DEFINE d == ResolveHygiene(delivery)
             c == [controller EXCEPT !.nextAction = IF d.status = "escalated"
                                                    THEN "human-escalation" ELSE d.status,
                                     !.technicalHygiene = IF session = "resume"
                                                          THEN d.technicalHygiene ELSE @]
  <2>1. d \in Delivery /\ Carries(delivery, d)
    BY Held, ResolveHygieneType, ResolveHygieneFrame, SameCarries
  <2>2. c.auditRun = controller.auditRun
    BY Held DEF Controller
  <2>3. /\ pc = "loop" /\ delivery' = d /\ Persist(d, prBase, c)
        /\ UNCHANGED <<github, audit, greenOn, approvedOn, expectedBase, prBase>>
    BY <1>8 DEF ResolvePending, AtLoop, runs, identity, history
  <2> HIDE DEF d, c
  <2> QED
    BY <2>1, <2>2, <2>3, PersistBase DEF BaseKept, EvidenceKept, HoldsOn
<1>9. CASE Reading
  <2>1. PICK next \in ReleasePcs : ReadsIdentity(next)
    BY <1>9, ReleaseReads
  <2>2. pc \notin {"idle", "discover"}
    BY <1>9, ReleaseReads
  <2>3. UNCHANGED <<comment, github, audit, greenOn, approvedOn, expectedBase, prBase, delivery>>
    BY <2>1 DEF ReadsIdentity, runs, history
  <2> QED
    BY <1>1, <2>2, <2>3 DEF BaseKept, EvidenceKept, HoldsOn, Carries
<1> QED
  BY <1>2, <1>3, <1>4, <1>5, <1>6, <1>7, <1>8, <1>9 DEF HygieneStep, ReleaseStep, Reading

\* What was seen since the base is seen when more is seen, and by whoever sees it.
LEMMA SeenMore ==
  ASSUME NEW on, NEW more, NEW h, NEW b, on[h] \subseteq more[h]
  PROVE  /\ SeenSince(on, h, b) => SeenSince(more, h, b)
         /\ \A k \in more[h] : k >= b => SeenSince(more, h, b)
BY DEF SeenSince

\* Green CI is seen under the current base, which is not older than the fetched one.
LEMMA GreenBase ==
  ASSUME TypeOK, SafetyInv, ProgressInv, BaseInv, CiSucceeds
  PROVE  BaseInv'
<1> DEFINE d == ApplyCiSuccess(delivery)
           c == [controller EXCEPT !.nextAction = d.status]
<1>1. /\ pc = "loop" /\ pc' = "loop" /\ delivery.materialHeadSha = remoteHead
      /\ delivery.status = "ci-pending" /\ delivery' = d /\ Persist(d, prBase, c)
      /\ greenOn' = [greenOn EXCEPT ![remoteHead] = @ \cup {base}]
      /\ UNCHANGED <<base, remoteHead, audit, approvedOn, expectedBase, prBase>>
  BY DEF CiSucceeds, AwaitsCi, CanRecordCi, github, runs, identity
<1>2. /\ d \in Delivery /\ d.materialHeadSha = remoteHead
      /\ d.auditEvidence = delivery.auditEvidence /\ c.auditRun = controller.auditRun
  BY <1>1, Held, ApplyResultTypes, ApplyCiSuccessFrame DEF Controller
<1> HIDE DEF d, c
<1>3. /\ SameEvidence(d, persistent') /\ persistentBase' = prBase
      /\ controller'.auditRun = controller.auditRun
  BY <1>1, <1>2, PersistedFrame DEF Persist
<1>4. \A h \in Heads : greenOn'[h] = IF h = remoteHead THEN greenOn[h] \cup {base} ELSE greenOn[h]
  BY <1>1 DEF TypeOK
<1>5. SeenSince(greenOn', remoteHead, prBase)
  BY <1>1, <1>4, Ordered DEF SeenSince, BaseInv
<1>6. /\ d.auditEvidence.decision = "approved" => SeenSince(approvedOn, remoteHead, prBase)
      /\ AuditSince(remoteHead, prBase)
  BY <1>1, <1>2 DEF BaseInv, Since
<1>7. Since(delivery, prBase)' /\ Since(persistent, persistentBase)'
  BY <1>1, <1>2, <1>3, <1>5, <1>6 DEF Since, SameEvidence
<1>8. AuditSince(remoteHead, persistentBase)' /\ AuditSince(delivery.materialHeadSha, prBase)'
  BY <1>1, <1>2, <1>3, <1>6 DEF AuditSince
<1>9. \A h \in Heads : \A k \in (greenOn[h] \cup approvedOn[h])' : k <= base'
  BY <1>1, <1>4, Ordered DEF BaseInv
<1>10. /\ persistent'.materialHeadSha = remoteHead /\ delivery'.materialHeadSha = remoteHead
       /\ audit'.candidate <= remoteHead /\ persistentBase' <= base'
       /\ expectedBase' <= prBase' /\ prBase' <= base'
  BY <1>1, <1>2, <1>3, Ordered DEF SameEvidence, BaseInv
<1> QED
  BY <1>1, <1>7, <1>8, <1>9, <1>10, Ordered DEF BaseInv

\* So is the approval of an audit that is launched.
LEMMA ApprovedBase ==
  ASSUME TypeOK, SafetyInv, ProgressInv, StoredInv, BaseInv, LaunchAudit
  PROVE  BaseInv'
<1>1. PICK run \in AuditRun :
        /\ run.candidate = delivery.materialHeadSha /\ audit' = run
        /\ approvedOn' = IF run.verdict = "approved"
                         THEN [approvedOn EXCEPT ![run.candidate] = @ \cup {base}]
                         ELSE approvedOn
  BY DEF LaunchAudit
<1>2. /\ pc = "audit" /\ UNCHANGED <<base, remoteHead, greenOn, persistent, persistentBase>>
      /\ UNCHANGED <<controller, pc, delivery, expectedBase, prBase>>
  BY DEF LaunchAudit, github, comment, memory, identity
<1> DEFINE head == delivery.materialHeadSha
<1>3. head \in Heads /\ persistent.materialHeadSha = head
  BY <1>2, Ordered, Held, PersistedFrame DEF StoredInv, HoldingPcs, StoringPcs, SameEvidence
<1>4. \A h \in Heads : approvedOn[h] \subseteq approvedOn'[h]
                       /\ approvedOn'[h] \subseteq approvedOn[h] \cup {base}
  BY <1>1, <1>3 DEF TypeOK
<1>5. run.verdict = "approved" => base \in approvedOn'[head]
  BY <1>1, <1>3 DEF TypeOK
<1>6. ASSUME NEW h \in Heads, NEW b, b <= base, audit'.candidate = h, audit'.verdict = "approved"
      PROVE  SeenSince(approvedOn', h, b)
  BY <1>1, <1>5, <1>6 DEF SeenSince
<1>7. \A h \in Heads : \A k \in (greenOn[h] \cup approvedOn[h])' : k <= base'
  BY <1>2, <1>4, Ordered DEF BaseInv
<1>8. Since(delivery, prBase)' /\ AuditSince(delivery.materialHeadSha, prBase)'
  BY <1>2, <1>3, <1>4, <1>6, SeenMore DEF Since, AuditSince, BaseInv
<1>9. persistent'.materialHeadSha = remoteHead' =>
        Since(persistent, persistentBase)' /\ AuditSince(remoteHead, persistentBase)'
  BY <1>2, <1>3, <1>4, <1>6, SeenMore DEF Since, AuditSince, BaseInv
<1> QED
  BY <1>1, <1>2, <1>3, <1>7, <1>8, <1>9, Ordered DEF BaseInv

\* A verdict that is read was given since the base was the fetched one.
LEMMA VerdictBase ==
  ASSUME TypeOK, SafetyInv, ProgressInv, BaseInv, ConsumeVerdict
  PROVE  BaseInv'
<1> DEFINE d == ApplyAuditResult(delivery, audit.verdict)
           c == [controller EXCEPT !.nextAction = d.status]
<1>1. /\ pc = "audit" /\ pc' = "loop" /\ delivery' = d /\ Persist(d, prBase, c)
      /\ VerdictReadable /\ delivery.status = "audit-pending" /\ controller.auditRun = "observed"
      /\ audit.candidate = delivery.materialHeadSha
      /\ UNCHANGED <<base, remoteHead, audit, greenOn, approvedOn, expectedBase, prBase>>
  BY DEF ConsumeVerdict, CanRecordAudit, github, runs, identity, history
<1>2. audit.verdict \in AuditVerdicts
  BY <1>1, Held DEF VerdictReadable, AuditRun
<1>3. /\ d \in Delivery /\ d.materialHeadSha = delivery.materialHeadSha
      /\ d.ciEvidence = delivery.ciEvidence
      /\ d.auditEvidence.decision = "approved" => audit.verdict = "approved"
      /\ c.auditRun = "observed"
  BY <1>1, <1>2, Held, SafetyHeld, ApplyResultTypes, ApplyAuditResultFrame DEF Controller
<1> HIDE DEF d, c
<1>4. /\ SameEvidence(d, persistent') /\ persistentBase' = prBase
      /\ controller'.auditRun = "observed"
  BY <1>1, <1>3, PersistedFrame DEF Persist
<1>5. /\ Since(delivery, prBase) /\ AuditSince(delivery.materialHeadSha, prBase)
      /\ audit.candidate <= persistent.materialHeadSha /\ expectedBase <= prBase /\ prBase <= base
  BY <1>1 DEF BaseInv
<1>6. Since(d, prBase)
  BY <1>1, <1>3, <1>5 DEF Since, AuditSince
<1>7. Since(delivery, prBase)' /\ Since(persistent, persistentBase)'
  BY <1>1, <1>4, <1>6 DEF Since, SameEvidence
<1>8. /\ AuditSince(delivery.materialHeadSha, prBase)'
      /\ persistent'.materialHeadSha = remoteHead' => AuditSince(remoteHead, persistentBase)'
  BY <1>1, <1>3, <1>4, <1>5 DEF AuditSince, SameEvidence
<1>9. \A h \in Heads : \A k \in (greenOn[h] \cup approvedOn[h])' : k <= base'
  BY <1>1 DEF BaseInv
<1> QED
  BY <1>1, <1>3, <1>4, <1>5, <1>7, <1>8, <1>9, Ordered DEF BaseInv, SameEvidence

\* A session that discovers the material knows nothing, and nothing is stored.
LEMMA DiscoveryBase ==
  ASSUME TypeOK, SafetyInv, ProgressInv, BootstrapInv, BaseInv, DiscoverMaterial
  PROVE  BaseInv'
<1> DEFINE created == CreateOperationalDelivery(headRisk[remoteHead], remoteHead)
           d == [created EXCEPT !.implementationAttempts = bootstrapAttempts]
<1>1. created \in Delivery /\ NoEvidence(created, remoteHead)
  BY Held, CreateOperationalDeliveryType, CreateOperationalDeliveryFrame
<1> HIDE DEF created
<1>2. NoEvidence(d, remoteHead)
  BY <1>1 DEF NoEvidence, Delivery
<1>3. /\ pc = "discover" /\ delivery' = d /\ expectedBase' = base /\ prBase' = base
      /\ UNCHANGED <<base, remoteHead, audit, greenOn, approvedOn, controller>>
      /\ UNCHANGED <<persistent, persistentBase>>
  BY DEF DiscoverMaterial, github, runs, comment, history, created
<1> HIDE DEF d
<1>4. persistent.materialHeadSha = NoHead /\ controller.auditRun = "none"
  BY <1>3 DEF SafetyInv, MemoryInv, NoDelivery, CreateDeliveryState, BootstrapInv, NoController
<1>5. Since(delivery, prBase)' /\ AuditSince(delivery.materialHeadSha, prBase)'
  BY <1>2, <1>3, <1>4 DEF Since, AuditSince, NoEvidence, NoAuditEvidence
<1>6. \A h \in Heads : \A k \in (greenOn[h] \cup approvedOn[h])' : k <= base'
  BY <1>3 DEF BaseInv
<1> QED
  BY <1>2, <1>3, <1>4, <1>5, <1>6, Ordered DEF BaseInv, NoEvidence

\* What a new session goes on with: what the comment stores under the current base,
\* or the remote head without evidence and without an audit.
Unread(d, c) == NoEvidence(d, remoteHead) /\ c.auditRun = "none"
Read(d, c) == ~StoredStale /\ SameEvidence(persistent, d) /\ c.auditRun = controller.auditRun

\* A session that resumes builds on evidence that was seen under the current base.
LEMMA EnterResumeBase ==
  ASSUME TypeOK, SafetyInv, ProgressInv, BaseInv, session = "none",
         UNCHANGED <<github, audit, greenOn, approvedOn>>,
         NEW d \in Delivery, NEW c \in Controller, EnterResume(d, c), Unread(d, c) \/ Read(d, c)
  PROVE  BaseInv'
<1>0. UNCHANGED <<base, remoteHead, audit, greenOn, approvedOn>>
  BY DEF github
<1>1. CASE ~WithinCeilings(d)
  <2>1. pc = "idle" /\ UNCHANGED <<memory, comment>>
    BY <1>1 DEF EnterResume, ProgressInv
  <2> QED
    BY <1>0, <2>1, KeptBase
    DEF BaseKept, EvidenceKept, StoresNothing, memory, comment
<1>2. CASE WithinCeilings(d)
  <2> DEFINE a == IF c.nextAction \in EntryActions THEN c.nextAction ELSE d.status
             k == [c EXCEPT !.nextAction = a]
  <2>1. /\ delivery' = d /\ expectedBase' = base /\ prBase' = base /\ Persist(d, base, k)
    BY <1>2 DEF EnterResume
  <2>2. k.auditRun = c.auditRun
    BY DEF Controller
  <2> HIDE DEF a, k
  <2>3. SameEvidence(d, persistent') /\ persistentBase' = base /\ controller'.auditRun = c.auditRun
    BY <2>1, <2>2, PersistedFrame DEF Persist
  <2>4. d.materialHeadSha = remoteHead
    BY DEF Unread, Read, NoEvidence, SameEvidence, StoredStale
  <2>5. Since(d, base)
    BY DEF Unread, Read, NoEvidence, NoAuditEvidence, SameEvidence, StoredStale, Since, BaseInv
  <2>6. AuditSince(remoteHead, base) \/ c.auditRun = "none"
    BY DEF Unread, Read, StoredStale, BaseInv
  <2>7. AuditSince(remoteHead, persistentBase)' /\ AuditSince(delivery.materialHeadSha, prBase)'
    <3>1. controller'.auditRun = "none" \/ controller'.auditRun = controller.auditRun
      BY <2>3 DEF Unread, Read
    <3> QED
      BY <1>0, <2>1, <2>3, <2>4, <2>6, <3>1 DEF AuditSince
  <2>8. Since(delivery, prBase)' /\ Since(persistent, persistentBase)'
    BY <1>0, <2>1, <2>3, <2>5 DEF Since, SameEvidence
  <2>9. \A h \in Heads : \A b \in (greenOn[h] \cup approvedOn[h])' : b <= base'
    BY <1>0 DEF BaseInv
  <2>10. persistent'.materialHeadSha = remoteHead /\ audit'.candidate <= remoteHead
    BY <1>0, <2>3, <2>4, Ordered DEF BaseInv, SameEvidence
  <2> QED
    BY <1>0, <2>1, <2>3, <2>4, <2>7, <2>8, <2>9, <2>10, Ordered DEF BaseInv
<1> QED
  BY <1>1, <1>2

\* So does one that rebuilds what is stale.
LEMMA ResumeFromBase ==
  ASSUME TypeOK, SafetyInv, ProgressInv, BaseInv, session = "none",
         UNCHANGED <<github, audit, greenOn, approvedOn>>,
         NEW d \in Delivery, NEW c \in Controller, ResumeFrom(d, c), StoredStale \/ Read(d, c)
  PROVE  BaseInv'
<1> DEFINE r == RebuildCiPendingState(headRisk[remoteHead], remoteHead, d)
           h == IF persistent.materialHeadSha # remoteHead THEN NoHygiene ELSE c.technicalHygiene
<1>1. r \in Delivery /\ NoEvidence(r, remoteHead)
  BY Held, PersistenceTypes, RebuildCiPendingStateFrame
<1>2. h \in Hygiene
  BY EmptyTypes, ControllerFields
<1>3. RebuiltMetadata(c) = [c EXCEPT !.nextAction = "observe-ci", !.auditRun = "none",
                                     !.technicalHygiene = h]
  BY DEF RebuiltMetadata
<1> HIDE DEF h
<1>4. RebuiltMetadata(c) \in Controller /\ RebuiltMetadata(c).auditRun = "none"
  BY <1>2, <1>3 DEF Controller, NextActions, RunRefs
<1>5. StoredStale => MustRebuildOnResume(StoredStale, d)
  BY Zenon DEF MustRebuildOnResume
<1>6. EnterResume(r, RebuiltMetadata(c)) \/ (~StoredStale /\ EnterResume(d, c))
  BY <1>5, Zenon DEF ResumeFrom
<1> HIDE DEF r
<1> QED
  BY <1>1, <1>4, <1>6, EnterResumeBase DEF Unread

\* So does every session that starts.
LEMMA ResumeBase ==
  ASSUME TypeOK, SafetyInv, ProgressInv, BaseInv, Resume \/ ResumeRearmingHygiene
  PROVE  BaseInv'
<1>0. /\ session = "none" /\ UNCHANGED <<github, audit, greenOn, approvedOn>>
      /\ Loaded \in Delivery /\ (~StoredStale => SameEvidence(persistent, Loaded))
  BY LoadedSound DEF Resume, ResumeRearmingHygiene, CanResume, runs, history
<1>1. CASE Resume
  <2> DEFINE d == ApplyHygiene(Loaded, controller.technicalHygiene)
  <2>1. d \in Delivery /\ SameEvidence(Loaded, d)
    BY <1>0, Held, ControllerFields, ApplyHygieneType, ApplyHygieneFrame
  <2>2. ResumeFrom(Loaded, controller) \/ (~StoredStale /\ ResumeFrom(d, controller))
    BY <1>1 DEF Resume
  <2> HIDE DEF d
  <2> QED
    BY <1>0, <2>1, <2>2, Held, ResumeFromBase DEF Read, SameEvidence
<1>2. CASE ResumeRearmingHygiene
  <2> DEFINE back == [Loaded EXCEPT !.status = "technical-hygiene-pending",
                                    !.terminalReason = "none"]
             c == [controller EXCEPT !.nextAction = "dispatch-technical-hygiene",
                                     !.hygieneRun = "reserved",
                                     !.technicalHygiene = NoHygiene]
  <2>1. back \in Delivery /\ SameEvidence(Loaded, back)
    BY <1>0 DEF Delivery, Statuses, Reasons, SameEvidence
  <2>2. c \in Controller /\ c.auditRun = controller.auditRun
    BY Held, EmptyTypes DEF Controller, NextActions, RunRefs
  <2>3. ResumeFrom(back, c) \/ ResumeFrom(Loaded, c)
    BY <1>2 DEF ResumeRearmingHygiene
  <2>4. ~StoredStale
    BY <1>2 DEF ResumeRearmingHygiene, CanRearmUnknown
  <2> HIDE DEF back, c
  <2> QED
    BY <1>0, <2>1, <2>2, <2>3, <2>4, ResumeFromBase DEF Read, SameEvidence
<1> QED
  BY <1>1, <1>2

\* A push or an advance of the base is newer than all that is known.
LEMMA EnvironmentBase ==
  ASSUME TypeOK, SafetyInv, ProgressInv, BaseInv, Environment \/ WorkerRuns
  PROVE  BaseInv'
<1>1. /\ UNCHANGED <<audit, greenOn, approvedOn, controller, persistent, persistentBase>>
      /\ UNCHANGED <<pc, delivery, expectedBase, prBase>>
  BY DEF Environment, WorkerRuns, ExternalPush, BaseAdvance, ControlPlaneRelease, WorkerPushes,
         WorkerEndsWithoutPush, runs, comment, memory, identity, history
<1>2. /\ base' = base \/ base' = base + 1
      /\ UNCHANGED remoteHead \/ remoteHead' = lastHead + 1
  BY DEF Environment, WorkerRuns, ExternalPush, BaseAdvance, ControlPlaneRelease, WorkerPushes,
         WorkerEndsWithoutPush, Push, NewHead, github
<1>3. base' \in Nat /\ base' >= base
  BY <1>2, Ordered
<1>4. persistent.materialHeadSha = remoteHead' => UNCHANGED remoteHead
  BY <1>2, Ordered DEF ProgressInv
<1>5. \A h \in Heads : \A k \in greenOn[h] \cup approvedOn[h] : k <= base'
  <2> SUFFICES ASSUME NEW h \in Heads, NEW k \in greenOn[h] \cup approvedOn[h] PROVE k <= base'
    OBVIOUS
  <2>1. k \in Nat /\ k <= base
    BY DomainTypes DEF TypeOK, BaseInv
  <2> QED
    BY <1>3, <2>1, Ordered
<1>6. Since(persistent, persistentBase) = Since(persistent, persistentBase)'
      /\ Since(delivery, prBase) = Since(delivery, prBase)'
  BY <1>1 DEF Since, SeenSince
<1>7. /\ UNCHANGED remoteHead => (AuditSince(remoteHead, persistentBase) =
                                    AuditSince(remoteHead, persistentBase)')
      /\ AuditSince(delivery.materialHeadSha, prBase) =
           AuditSince(delivery.materialHeadSha, prBase)'
  BY <1>1 DEF AuditSince, SeenSince
<1> QED
  BY <1>1, <1>3, <1>4, <1>5, <1>6, <1>7, Ordered DEF BaseInv

\* That evidence is as new as the base a session fetched is an invariant.
LEMMA BaseHolds ==
  /\ TypeOK /\ Init => BaseInv
  /\ TypeOK /\ SafetyInv /\ ProgressInv /\ StoredInv /\ BootstrapInv /\ BaseInv /\ [Next]_vars =>
       BaseInv'
<1>1. TypeOK /\ Init => BaseInv
  BY MaxHeadAssumption
  DEF Init, BaseInv, NoDelivery, CreateDeliveryState, NoAuditRun, NoHead, Heads
<1>2. ASSUME TypeOK, SafetyInv, ProgressInv, StoredInv, BootstrapInv, BaseInv, [Next]_vars
      PROVE  BaseInv'
  <2>1. CASE SessionStep
    <3>1. CASE DiscoverMaterial \/ CiSucceeds \/ LaunchAudit \/ ConsumeVerdict
      BY <1>2, <3>1, DiscoveryBase, GreenBase, ApprovedBase, VerdictBase
    <3>2. CASE ~(DiscoverMaterial \/ CiSucceeds \/ LaunchAudit \/ ConsumeVerdict)
      BY <1>2, <2>1, <3>2, MaterialKeepsBase, CiKeepsBase, WorkerKeepsBase, AuditKeepsBase,
         HygieneKeepsBase, KeptBase DEF SessionStep
    <3> QED
      BY <3>1, <3>2
  <2>2. CASE Crash \/ UNCHANGED vars
    <3>1. CASE Crash
      BY <1>2, <3>1, KeptBase
      DEF Crash, EndSession, runs, comment, history, BaseKept, EvidenceKept, StoresNothing
    <3>2. CASE UNCHANGED vars
      BY <1>2, <3>2
      DEF vars, github, runs, comment, memory, identity, history, BaseInv, Since, AuditSince,
          SeenSince
    <3> QED
      BY <2>2, <3>1, <3>2
  <2> QED
    BY <1>2, <2>1, <2>2, EnvironmentBase, ResumeBase DEF Next
<1> QED
  BY <1>1, <1>2

\* Nothing but a release publishes a success.
LEMMA OnlyReleaseSucceeds ==
  ASSUME TypeOK, [Next]_vars, ~Release, NEW h \in Heads, commitStatus'[h] = "success"
  PROVE  commitStatus[h] = "success"
<1>1. ASSUME Lowers PROVE commitStatus[h] = "success"
  BY <1>1 DEF Lowers, SetStatus, TypeOK
<1>2. CASE SessionStep
  <2>1. CASE CiSucceeds \/ LaunchWorker \/ LaunchAudit
    BY <2>1 DEF CiSucceeds, LaunchWorker, LaunchAudit
  <2> QED
    BY <1>1, <1>2, <2>1, SessionQuiet
<1>3. CASE Resume \/ ResumeRearmingHygiene
  <2>1. \E d, c : ResumeFrom(d, c)
    BY <1>3 DEF Resume, ResumeRearmingHygiene
  <2>2. \E d, c : EnterResume(d, c)
    BY <2>1, Zenon DEF ResumeFrom
  <2> QED
    BY <1>1, <2>2 DEF EnterResume, Lowers
<1>4. CASE Environment \/ WorkerRuns \/ Crash \/ UNCHANGED vars
  BY <1>4
  DEF Environment, WorkerRuns, ExternalPush, BaseAdvance, ControlPlaneRelease, WorkerPushes,
      WorkerEndsWithoutPush, Crash, vars
<1> QED
  BY <1>2, <1>3, <1>4 DEF Next

\* When a release reads the pull request, everything was seen under the base it reads.
LEMMA ReadIsCurrent ==
  ASSUME TypeOK, SafetyInv, ProgressInv, BaseInv, Reading, ReadsIdentity("publish")
  PROVE  /\ base \in greenOn[remoteHead]
         /\ AuditRequiredFor(headRisk[remoteHead]) => base \in approvedOn[remoteHead]
<1>1. /\ pc \notin {"idle", "discover"} /\ delivery.status = "ready-for-human-merge"
      /\ delivery.materialHeadSha = remoteHead /\ base = expectedBase
  BY ReleaseReads, ReadyWhenRead DEF ReadyToRelease, ReadsIdentity, IdentityDrifted, HeadDrifted
<1>2. prBase = base /\ remoteHead \in Heads
  BY <1>1, Ordered DEF BaseInv
<1>3. \A k \in greenOn[remoteHead] \cup approvedOn[remoteHead] : k >= prBase => k = base
  <2> SUFFICES ASSUME NEW k \in greenOn[remoteHead] \cup approvedOn[remoteHead], k >= prBase
               PROVE  k = base
    OBVIOUS
  <2>1. k \in Nat /\ k <= base
    BY <1>2, DomainTypes DEF TypeOK, BaseInv
  <2> QED
    BY <1>2, <2>1, Ordered
<1>4. delivery.ciEvidence # NoHead
  BY <1>1, SafetyHeld, Ordered DEF Ready
<1>5. base \in greenOn[remoteHead]
  BY <1>1, <1>3, <1>4 DEF BaseInv, Since, SeenSince
<1>6. ASSUME AuditRequiredFor(headRisk[remoteHead]) PROVE base \in approvedOn[remoteHead]
  <2>1. AuditRequired(delivery)
    BY <1>1, <1>2, <1>6, ReadyIsEarned DEF ReadyToRelease
  <2>2. delivery.auditEvidence.decision = "approved"
    BY <1>1, <2>1, SafetyHeld DEF Ready
  <2> QED
    BY <1>1, <1>3, <2>2 DEF BaseInv, Since, SeenSince
<1> QED
  BY <1>5, <1>6

\* A session about to publish has seen everything under the base that it read last.
ConfirmedBase ==
  pc = "publish" =>
    /\ confirmed.base \in greenOn[confirmed.head]
    /\ AuditRequiredFor(headRisk[confirmed.head]) => confirmed.base \in approvedOn[confirmed.head]

LEMMA ConfirmedBaseHolds ==
  /\ Init => ConfirmedBase
  /\ /\ TypeOK /\ SafetyInv /\ ProgressInv /\ BaseInv /\ ConfirmedHead /\ ConfirmedBase
     /\ [Next]_vars
     => ConfirmedBase'
<1>1. Init => ConfirmedBase
  BY DEF Init, ConfirmedBase
<1>2. ASSUME TypeOK, SafetyInv, ProgressInv, BaseInv, ConfirmedHead, ConfirmedBase, [Next]_vars
      PROVE  ConfirmedBase'
  <2>1. CASE Reading /\ ReadsIdentity("publish")
    <3>1. /\ confirmed'.base = base /\ confirmed'.head = remoteHead
          /\ UNCHANGED <<greenOn, approvedOn, headRisk>>
      BY <2>1 DEF ReadsIdentity, github, history
    <3> QED
      BY <1>2, <2>1, <3>1, ReadIsCurrent DEF ConfirmedBase
  <2>2. CASE /\ pc = "publish" /\ UNCHANGED <<confirmed, delivery, greenOn, approvedOn>>
             /\ \A h \in Heads : h <= lastHead => headRisk'[h] = headRisk[h]
    <3>1. confirmed.head \in Heads /\ confirmed.head <= lastHead
      BY <1>2, <2>2, SafetyHeld DEF ConfirmedHead, SafetyInv, MemoryInv
    <3> QED
      BY <1>2, <2>2, <3>1 DEF ConfirmedBase
  <2>3. CASE pc' # "publish"
    BY <2>3 DEF ConfirmedBase
  <2> QED
    BY <1>2, <2>1, <2>2, <2>3, ReachesPublish
<1> QED
  BY <1>1, <1>2

\* A success is published for the head that was read last, which the evidence is for.
LEMMA ReleaseIsConfirmed ==
  ASSUME TypeOK, ConfirmedHead, ConfirmedBase, Release, NEW h \in Heads,
         commitStatus[h] # "success", commitStatus'[h] = "success"
  PROVE  /\ confirmed.head = h /\ confirmed.base \in greenOn[h]
         /\ AuditRequiredFor(headRisk[h]) => confirmed.base \in approvedOn[h]
<1>1. pc = "publish" /\ SetStatus(confirmed.head, "success")
  BY DEF Release, ConfirmedHead
<1>2. h = confirmed.head
  BY <1>1 DEF SetStatus, TypeOK
<1> QED
  BY <1>1, <1>2 DEF ConfirmedBase

\* A success is only ever published for the head that the last read of the pull request
\* showed, and under the base it showed CI was seen green and an obliged audit approved.
THEOREM SuccessesAreCurrent == Spec => SuccessIsForConfirmedBase
<1>1. TypeOK /\ ConfirmedHead /\ ConfirmedBase /\ [Next]_vars =>
        [\A h \in Heads :
           commitStatus[h] # "success" /\ commitStatus'[h] = "success" =>
             /\ confirmed.head = h /\ confirmed.base \in greenOn[h]
             /\ AuditRequiredFor(headRisk[h]) => confirmed.base \in approvedOn[h]]_vars
  BY OnlyReleaseSucceeds, ReleaseIsConfirmed
<1> QED
  BY <1>1, ConfirmedHeadHolds, ConfirmedBaseHolds, BaseHolds, StoredHolds, ProgressHolds,
     InitialHolds, BootstrapHolds, Safe, TypeCorrect, PTL
  DEF Spec, SuccessIsForConfirmedBase
=============================================================================
