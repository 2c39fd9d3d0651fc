--------------------------- MODULE VpsRuntime_proofs ---------------------------
(***************************************************************************)
(* Proofs about the release runtime and the branch sweep: the types, that  *)
(* a sweep deletes only what it has just read as removable, that the       *)
(* active link leads to a validated release, that it only moves forward,   *)
(* and that pruning keeps a release to roll back to.                        *)
(***************************************************************************)
EXTENDS VpsRuntime, FiniteSetTheorems, TLAPS

LEMMA FiveGates == Len(Gates) = 5 /\ DOMAIN Gates = 1..5
BY DEF Gates

\* Each reason is read at one of the gates.
LEMMA GatesCover ==
  ASSUME NEW keep \in SUBSET Reasons, \A n \in 1..5 : keep \intersect Gates[n] = {}
  PROVE  keep = {}
<1>1. /\ Gates[1] = {"protected", "recent"} /\ Gates[2] = {"ruleset"}
      /\ Gates[3] = {"open-pr"} /\ Gates[4] = {"active-ci"} /\ Gates[5] = {"unique-commits"}
  BY DEF Gates
<1>2. \A r \in Reasons : r \in Gates[1] \union Gates[2] \union Gates[3] \union Gates[4] \union Gates[5]
  BY <1>1 DEF Reasons
<1> QED
  BY <1>2

-----------------------------------------------------------------------------
(* The types of a sweep.                                                     *)

LEMMA NoSweepType == NoSweep \in SweepState
<1>1. 0 \in 0..(Len(Gates) - 1)
  BY FiveGates
<1>2. (CHOOSE f \in LockFiles : TRUE) \in LockFiles
  BY HygieneAssumption
<1> QED
  BY <1>1, <1>2 DEF NoSweep, SweepState

LEMMA PreservedType ==
  ASSUME NEW p \in Sweepers, HygieneTypeOK
  PROVE  Preserved(p) \in SweepState
<1>1. sweep[p] \in SweepState
  BY DEF HygieneTypeOK
<1>2. 0 \in 0..(Len(Gates) - 1)
  BY FiveGates
<1> QED
  BY <1>1, <1>2 DEF Preserved, SweepState

LEMMA ListedType ==
  ASSUME HygieneTypeOK
  PROVE  Listed \subseteq Refs
BY DEF Listed, Refs, HygieneTypeOK, Branch

\* What a step does to a sweep is described by its new state.
SweepOK(s) ==
  /\ s \in SweepState
  /\ s.gate > 0 \/ s.pc \in {"revalidate", "delete"} => s.ref \in Refs

LEMMA SweepsOK ==
  ASSUME HygieneTypeOK
  PROVE  \A p \in Sweepers : SweepOK(sweep[p])
BY DEF HygieneTypeOK, SweepOK

LEMMA NoSweepOK == SweepOK(NoSweep)
BY NoSweepType DEF SweepOK, NoSweep

LEMMA PreservedOK ==
  ASSUME HygieneTypeOK, NEW p \in Sweepers
  PROVE  SweepOK(Preserved(p))
<1>1. sweep[p] \in SweepState
  BY DEF HygieneTypeOK
<1>2. Preserved(p).gate = 0 /\ Preserved(p).pc = "inspect"
  BY <1>1 DEF Preserved, SweepState
<1> QED
  BY <1>2, PreservedType DEF SweepOK

\* A step that gives one sweep a new state.
Gets(p, s) == SweepOK(s) /\ sweep' = [sweep EXCEPT ![p] = s]

LEMMA GetsType ==
  ASSUME HygieneTypeOK, NEW p \in Sweepers, NEW s, Gets(p, s)
  PROVE  /\ sweep' \in [Sweepers -> SweepState]
         /\ \A q \in Sweepers :
              sweep'[q].gate > 0 \/ sweep'[q].pc \in {"revalidate", "delete"} =>
                sweep'[q].ref \in Refs
         /\ sweep'[p] = s /\ \A q \in Sweepers \ {p} : sweep'[q] = sweep[q]
BY DEF HygieneTypeOK, SweepOK, Gets

LEMMA TakesRunLockType ==
  ASSUME HygieneTypeOK, NEW p \in Sweepers, NEW f \in LockFiles, TakesRunLock(p, f)
  PROVE  /\ \E s : Gets(p, s) /\ s.pc \in {"list", "failed"}
         /\ runLock' \in [LockFiles -> Sweepers \union {Free, Stale}]
<1> DEFINE taken == [NoSweep EXCEPT !.pc = "list", !.file = f]
           refused == [NoSweep EXCEPT !.pc = "failed"]
<1>1. NoSweep \in SweepState /\ NoSweep.gate = 0
  BY NoSweepType DEF NoSweep
<1>2. taken \in SweepState /\ taken.gate = 0 /\ taken.pc = "list"
  BY <1>1 DEF SweepState
<1>3. refused \in SweepState /\ refused.gate = 0 /\ refused.pc = "failed"
  BY <1>1 DEF SweepState
<1>4. SweepOK(taken) /\ SweepOK(refused)
  BY <1>2, <1>3 DEF SweepOK
<1>5. \/ sweep' = [sweep EXCEPT ![p] = taken] /\ runLock' = [runLock EXCEPT ![f] = p]
      \/ sweep' = [sweep EXCEPT ![p] = refused] /\ runLock' = runLock
  BY DEF TakesRunLock
<1> HIDE DEF taken, refused
<1>6. \E s : Gets(p, s) /\ s.pc \in {"list", "failed"}
  BY <1>2, <1>3, <1>4, <1>5, Zenon DEF Gets
<1> QED
  BY <1>5, <1>6 DEF HygieneTypeOK

LEMMA InspectOK ==
  ASSUME HygieneTypeOK, NEW p \in Sweepers, Inspect(p)
  PROVE  \E s : Gets(p, s) /\ s.pc = "inspect"
<1>1. SweepOK(sweep[p]) /\ sweep[p].pc = "inspect"
  BY SweepsOK DEF Inspect, At
<1>2. PICK ref \in UnderInspection(p) :
        LET n == sweep[p].gate + 1
            next == [sweep[p] EXCEPT !.todo = @ \ {ref}, !.ref = NoRef, !.gate = 0]
        IN sweep' = [sweep EXCEPT ![p] =
             IF ~PassesGate(ref, n) THEN next
             ELSE IF n = Len(Gates) THEN [next EXCEPT !.found = @ \union {ref}]
             ELSE [sweep[p] EXCEPT !.ref = ref, !.gate = n]]
  BY DEF Inspect
<1> DEFINE n == sweep[p].gate + 1
           next == [sweep[p] EXCEPT !.todo = @ \ {ref}, !.ref = NoRef, !.gate = 0]
           found == [next EXCEPT !.found = @ \union {ref}]
           going == [sweep[p] EXCEPT !.ref = ref, !.gate = n]
<1>3. ref \in Refs
  BY <1>1 DEF UnderInspection, SweepState, SweepOK
<1>0. 0 \in 0..(Len(Gates) - 1) /\ (n # Len(Gates) => n \in 0..(Len(Gates) - 1))
  BY <1>1, FiveGates DEF SweepState, SweepOK
<1>4. next \in SweepState /\ next.pc = "inspect" /\ next.gate = 0
  BY <1>0, <1>1 DEF SweepState, SweepOK
<1>5. found \in SweepState /\ found.pc = "inspect" /\ found.gate = 0
  BY <1>3, <1>4 DEF SweepState
<1>6. n # Len(Gates) => going \in SweepState /\ going.pc = "inspect" /\ going.ref = ref
  BY <1>0, <1>1, <1>3 DEF SweepState, SweepOK
<1>7. \/ sweep' = [sweep EXCEPT ![p] = next]
      \/ sweep' = [sweep EXCEPT ![p] = found]
      \/ n # Len(Gates) /\ sweep' = [sweep EXCEPT ![p] = going]
  BY <1>2
<1> HIDE DEF n, next, found, going
<1>8. SweepOK(next) /\ SweepOK(found) /\ (n # Len(Gates) => SweepOK(going))
  BY <1>3, <1>4, <1>5, <1>6 DEF SweepOK
<1> QED
  BY <1>4, <1>5, <1>6, <1>7, <1>8, Zenon DEF Gets

-----------------------------------------------------------------------------
(* What a sweep has read since it listed the repository for the second time. *)

GatesPassed(s) == IF s.pc = "delete" THEN 5 ELSE s.gate
Turned(s) == s.pc \in {"revalidate", "delete"}
ReadFree(s, held) == \A n \in 1..GatesPassed(s) : held[s.ref.name].keep \intersect Gates[n] = {}

\* A branch that did not change since then is free of the reasons that were looked for.
Reread ==
  \A p \in Sweepers :
    Turned(sweep[p]) /\ sweep[p].ref.name \notin since[p] => ReadFree(sweep[p], branches)

\* A step of one sweep, which leaves the reasons of every branch as they are.
LEMMA SweepMoves ==
  ASSUME HygieneTypeOK, Reread, NEW p \in Sweepers, NEW s, Gets(p, s),
         branches' \in [Branches -> Branch],
         \A b \in Branches : branches'[b].keep = branches[b].keep,
         runLock' \in [LockFiles -> Sweepers \union {Free, Stale}],
         since' \in [Sweepers -> SUBSET Branches],
         \A q \in Sweepers \ {p} : since'[q] = since[q],
         events' \in 0..MaxEvents,
         Turned(s) /\ s.ref.name \notin since'[p] => ReadFree(s, branches)
  PROVE  HygieneTypeOK' /\ Reread'
<1>1. /\ sweep' \in [Sweepers -> SweepState]
      /\ \A q \in Sweepers :
           sweep'[q].gate > 0 \/ sweep'[q].pc \in {"revalidate", "delete"} =>
             sweep'[q].ref \in Refs
      /\ sweep'[p] = s /\ \A q \in Sweepers \ {p} : sweep'[q] = sweep[q]
  BY GetsType
<1>2. HygieneTypeOK'
  BY <1>1 DEF HygieneTypeOK
<1>3. ASSUME NEW q \in Sweepers, Turned(sweep'[q]), sweep'[q].ref.name \notin since'[q]
      PROVE  ReadFree(sweep'[q], branches')
  <2>1. sweep'[q].ref.name \in Branches
    BY <1>1, <1>3 DEF Turned, Refs
  <2>2. ReadFree(sweep'[q], branches)
    BY <1>1, <1>3 DEF Reread
  <2> QED
    BY <2>1, <2>2 DEF ReadFree
<1>4. Reread'
  BY <1>3 DEF Reread
<1> QED
  BY <1>2, <1>4

LEMMA PreservedNotTurned ==
  ASSUME HygieneTypeOK, NEW p \in Sweepers
  PROVE  SweepOK(Preserved(p)) /\ ~Turned(Preserved(p))
<1>1. sweep[p] \in SweepState
  BY DEF HygieneTypeOK
<1>2. Preserved(p).pc = "inspect"
  BY <1>1 DEF Preserved, SweepState
<1> QED
  BY <1>2, PreservedOK DEF Turned

LEMMA ListStep ==
  ASSUME HygieneTypeOK, Reread, NEW p \in Sweepers, List(p)
  PROVE  HygieneTypeOK' /\ Reread'
<1> DEFINE s == [sweep[p] EXCEPT !.pc = "inspect", !.todo = Listed]
<1>1. SweepOK(sweep[p]) /\ sweep[p].pc = "list"
  BY SweepsOK DEF List, At
<1>2. s \in SweepState /\ s.pc = "inspect" /\ s.gate = sweep[p].gate /\ s.ref = sweep[p].ref
  BY <1>1, ListedType DEF SweepOK, SweepState
<1>3. sweep' = [sweep EXCEPT ![p] = s]
  BY DEF List, HygieneTypeOK
<1> HIDE DEF s
<1>4. Gets(p, s) /\ ~Turned(s)
  BY <1>1, <1>2, <1>3 DEF Gets, SweepOK, Turned
<1> QED
  BY <1>4, SweepMoves DEF List, HygieneTypeOK

LEMMA InspectStep ==
  ASSUME HygieneTypeOK, Reread, NEW p \in Sweepers, Inspect(p)
  PROVE  HygieneTypeOK' /\ Reread'
<1>1. PICK s : Gets(p, s) /\ s.pc = "inspect"
  BY InspectOK
<1>2. ~Turned(s)
  BY <1>1 DEF Turned
<1> QED
  BY <1>1, <1>2, SweepMoves DEF Inspect, HygieneTypeOK

LEMMA RelistStep ==
  ASSUME HygieneTypeOK, Reread, NEW p \in Sweepers, Relist(p)
  PROVE  HygieneTypeOK' /\ Reread'
<1>1. SweepOK(sweep[p]) /\ sweep[p].pc = "inspect"
  BY SweepsOK DEF Relist, Inspected, At
<1>2. PICK ref \in sweep[p].found :
        LET turned == [sweep[p] EXCEPT !.found = @ \ {ref}] IN
          sweep' = [sweep EXCEPT ![p] =
            IF ref \in Listed
              THEN [turned EXCEPT !.pc = "revalidate", !.ref = ref, !.gate = 0]
              ELSE turned]
  BY DEF Relist
<1> DEFINE dropped == [sweep[p] EXCEPT !.found = @ \ {ref}]
           turned == [dropped EXCEPT !.pc = "revalidate", !.ref = ref, !.gate = 0]
<1>3. ref \in Refs
  BY <1>1 DEF SweepOK, SweepState
<1>4. /\ dropped \in SweepState /\ dropped.pc = "inspect"
      /\ dropped.gate = sweep[p].gate /\ dropped.ref = sweep[p].ref
  BY <1>1 DEF SweepOK, SweepState
<1>5. 0 \in 0..(Len(Gates) - 1)
  BY FiveGates
<1>6. turned \in SweepState /\ turned.pc = "revalidate" /\ turned.gate = 0 /\ turned.ref = ref
  BY <1>3, <1>4, <1>5 DEF SweepState
<1>7. sweep' = [sweep EXCEPT ![p] = turned] \/ sweep' = [sweep EXCEPT ![p] = dropped]
  BY <1>2
<1> HIDE DEF dropped, turned
<1>8. SweepOK(dropped) /\ SweepOK(turned)
  BY <1>1, <1>3, <1>4, <1>6 DEF SweepOK
<1>9. ~Turned(dropped) /\ ReadFree(turned, branches)
  BY <1>4, <1>6 DEF Turned, ReadFree, GatesPassed
<1>10. /\ UNCHANGED <<branches, runLock, events>> /\ since' \in [Sweepers -> SUBSET Branches]
       /\ \A q \in Sweepers \ {p} : since'[q] = since[q]
  BY DEF Relist, HygieneTypeOK
<1>11. CASE sweep' = [sweep EXCEPT ![p] = turned]
  <2>1. Gets(p, turned)
    BY <1>8, <1>11 DEF Gets
  <2> QED
    BY <2>1, <1>9, <1>10, SweepMoves DEF HygieneTypeOK
<1>12. CASE sweep' = [sweep EXCEPT ![p] = dropped]
  <2>1. Gets(p, dropped)
    BY <1>8, <1>12 DEF Gets
  <2> QED
    BY <2>1, <1>9, <1>10, SweepMoves DEF HygieneTypeOK
<1> QED
  BY <1>7, <1>11, <1>12

LEMMA RevalidateStep ==
  ASSUME HygieneTypeOK, Reread, NEW p \in Sweepers, Revalidate(p)
  PROVE  HygieneTypeOK' /\ Reread'
<1> DEFINE n == sweep[p].gate + 1
           ref == sweep[p].ref
           passed == [sweep[p] EXCEPT !.pc = "delete"]
           going == [sweep[p] EXCEPT !.gate = n]
<1>1. SweepOK(sweep[p]) /\ sweep[p].pc = "revalidate" /\ ref \in Refs
  BY SweepsOK DEF Revalidate, At, SweepOK
<1>2. n \in 1..5 /\ (n # Len(Gates) => n \in 0..(Len(Gates) - 1))
  BY <1>1, FiveGates DEF SweepOK, SweepState
<1>3. passed \in SweepState /\ passed.pc = "delete" /\ passed.ref = ref
  BY <1>1 DEF SweepOK, SweepState
<1>4. n # Len(Gates) =>
        going \in SweepState /\ going.pc = "revalidate" /\ going.ref = ref /\ going.gate = n
  BY <1>1, <1>2 DEF SweepOK, SweepState
<1>5. \/ sweep' = [sweep EXCEPT ![p] = Preserved(p)]
      \/ PassesGate(ref, n) /\ n = Len(Gates) /\ sweep' = [sweep EXCEPT ![p] = passed]
      \/ PassesGate(ref, n) /\ n # Len(Gates) /\ sweep' = [sweep EXCEPT ![p] = going]
  BY DEF Revalidate, HygieneTypeOK
<1>6. PassesGate(ref, n) => branches[ref.name].keep \intersect Gates[n] = {}
  BY DEF PassesGate
<1>7. ref.name \notin since[p] =>
        \A m \in 1..(n - 1) : branches[ref.name].keep \intersect Gates[m] = {}
  <2>1. Turned(sweep[p]) /\ GatesPassed(sweep[p]) = n - 1
    BY <1>1, <1>2 DEF Turned, GatesPassed, SweepOK, SweepState
  <2> QED
    BY <2>1 DEF Reread, ReadFree
<1>8. UNCHANGED <<branches, runLock, since, events>>
  BY DEF Revalidate
<1>9. SweepOK(Preserved(p)) /\ ~Turned(Preserved(p))
  BY PreservedNotTurned
<1> HIDE DEF passed, going
<1>10. CASE sweep' = [sweep EXCEPT ![p] = Preserved(p)]
  <2>1. Gets(p, Preserved(p))
    BY <1>9, <1>10 DEF Gets
  <2> QED
    BY <2>1, <1>8, <1>9, SweepMoves DEF HygieneTypeOK
<1>11. CASE PassesGate(ref, n) /\ n = Len(Gates) /\ sweep' = [sweep EXCEPT ![p] = passed]
  <2>1. Gets(p, passed)
    BY <1>1, <1>3, <1>11 DEF Gets, SweepOK
  <2>2. passed.ref.name \notin since'[p] => ReadFree(passed, branches)
    BY <1>2, <1>3, <1>6, <1>7, <1>8, <1>11, FiveGates DEF ReadFree, GatesPassed
  <2> QED
    BY <2>1, <2>2, <1>8, SweepMoves DEF HygieneTypeOK
<1>12. CASE PassesGate(ref, n) /\ n # Len(Gates) /\ sweep' = [sweep EXCEPT ![p] = going]
  <2>1. Gets(p, going)
    BY <1>1, <1>4, <1>12 DEF Gets, SweepOK
  <2>2. going.ref.name \notin since'[p] => ReadFree(going, branches)
    BY <1>2, <1>4, <1>6, <1>7, <1>8, <1>12 DEF ReadFree, GatesPassed
  <2> QED
    BY <2>1, <2>2, <1>8, SweepMoves DEF HygieneTypeOK
<1> QED
  BY <1>5, <1>10, <1>11, <1>12

LEMMA DeleteBranchStep ==
  ASSUME HygieneTypeOK, Reread, NEW p \in Sweepers,
         At(p, "delete"), sweep' = [sweep EXCEPT ![p] = Preserved(p)],
         branches' = branches \/ branches' = [branches EXCEPT ![sweep[p].ref.name].live = FALSE],
         events' \in 0..MaxEvents, UNCHANGED <<runLock, since>>
  PROVE  HygieneTypeOK' /\ Reread'
<1>1. sweep[p].ref.name \in Branches
  <2>1. sweep[p].ref \in Refs
    BY SweepsOK DEF SweepOK, At
  <2> QED
    BY <2>1 DEF Refs
<1>2. branches' \in [Branches -> Branch] /\ \A b \in Branches : branches'[b].keep = branches[b].keep
  <2> DEFINE name == sweep[p].ref.name
             gone == [branches[name] EXCEPT !.live = FALSE]
  <2>1. branches \in [Branches -> Branch]
    BY DEF HygieneTypeOK
  <2>2. branches[name] \in Branch
    BY <1>1, <2>1
  <2>4. \A r \in Branch : [r EXCEPT !.live = FALSE] \in Branch /\ [r EXCEPT !.live = FALSE].keep = r.keep
    BY DEF Branch
  <2>5. gone \in Branch /\ gone.keep = branches[name].keep
    BY <2>2, <2>4
  <2>3. branches' = branches \/ branches' = [branches EXCEPT ![name] = gone]
    BY <2>1
  <2> HIDE DEF name, gone
  <2> QED
    BY <2>1, <2>3, <2>5
<1>3. Gets(p, Preserved(p)) /\ ~Turned(Preserved(p))
  BY PreservedNotTurned DEF Gets
<1> QED
  BY <1>2, <1>3, SweepMoves DEF HygieneTypeOK

LEMMA FinishStep ==
  ASSUME HygieneTypeOK, Reread, NEW p \in Sweepers, Finish(p)
  PROVE  HygieneTypeOK' /\ Reread'
<1> DEFINE s == [NoSweep EXCEPT !.pc = "done"]
<1>1. NoSweep \in SweepState /\ NoSweep.gate = 0
  BY NoSweepType DEF NoSweep
<1>2. s \in SweepState /\ s.pc = "done" /\ s.gate = 0
  BY <1>1 DEF SweepState
<1>3. sweep' = [sweep EXCEPT ![p] = s]
  BY DEF Finish
<1> HIDE DEF s
<1>4. Gets(p, s) /\ ~Turned(s)
  BY <1>2, <1>3 DEF Gets, SweepOK, Turned
<1>5. runLock' \in [LockFiles -> Sweepers \union {Free, Stale}]
  BY DEF Finish, HygieneTypeOK
<1> QED
  BY <1>4, <1>5, SweepMoves DEF Finish, HygieneTypeOK

LEMMA HappensType ==
  ASSUME HygieneTypeOK, Happens
  PROVE  events' \in 0..MaxEvents
BY HygieneAssumption DEF HygieneTypeOK, Happens

LEMMA RequestFailsStep ==
  ASSUME HygieneTypeOK, Reread, NEW p \in Sweepers, RequestFails(p)
  PROVE  HygieneTypeOK' /\ Reread'
<1>1. SweepOK(sweep[p]) /\ events' \in 0..MaxEvents /\ UNCHANGED <<runLock, since>>
  BY SweepsOK, HappensType DEF RequestFails
<1>2. ASSUME NEW s, SweepOK(s), s.pc = "inspect", sweep' = [sweep EXCEPT ![p] = s],
             branches' = branches
      PROVE  HygieneTypeOK' /\ Reread'
  <2>1. Gets(p, s) /\ ~Turned(s)
    BY <1>2 DEF Gets, Turned
  <2> QED
    BY <2>1, <1>1, <1>2, SweepMoves DEF HygieneTypeOK
<1>3. CASE At(p, "list") /\ sweep' = [sweep EXCEPT ![p].pc = "inspect"] /\ branches' = branches
  <2> DEFINE s == [sweep[p] EXCEPT !.pc = "inspect"]
  <2>1. s \in SweepState /\ s.pc = "inspect" /\ s.gate = sweep[p].gate /\ s.ref = sweep[p].ref
    BY <1>1 DEF SweepOK, SweepState
  <2>2. sweep' = [sweep EXCEPT ![p] = s]
    BY <1>3 DEF HygieneTypeOK
  <2> HIDE DEF s
  <2>3. SweepOK(s)
    BY <1>1, <2>1 DEF SweepOK
  <2> QED
    BY <1>2, <1>3, <2>1, <2>2, <2>3
<1>4. ASSUME NEW ref, branches' = branches,
             sweep' = [sweep EXCEPT ![p] = [Preserved(p) EXCEPT !.todo = @ \ {ref}]]
      PROVE  HygieneTypeOK' /\ Reread'
  <2> DEFINE s == [Preserved(p) EXCEPT !.todo = @ \ {ref}]
  <2>1. Preserved(p) \in SweepState /\ Preserved(p).pc = "inspect" /\ Preserved(p).gate = 0
    BY <1>1, PreservedType DEF Preserved, SweepOK, SweepState
  <2>2. s \in SweepState /\ s.pc = "inspect" /\ s.gate = 0
    BY <2>1 DEF SweepState
  <2> HIDE DEF s
  <2>3. SweepOK(s) /\ sweep' = [sweep EXCEPT ![p] = s]
    BY <2>2, <1>4 DEF SweepOK, s
  <2> QED
    BY <1>2, <1>4, <2>2, <2>3
<1>5. ASSUME NEW ref, branches' = branches, At(p, "inspect"),
             sweep' = [sweep EXCEPT ![p].found = @ \ {ref}]
      PROVE  HygieneTypeOK' /\ Reread'
  <2> DEFINE s == [sweep[p] EXCEPT !.found = @ \ {ref}]
  <2>1. s \in SweepState /\ s.pc = "inspect" /\ s.gate = sweep[p].gate /\ s.ref = sweep[p].ref
    BY <1>1, <1>5 DEF SweepOK, SweepState, At
  <2>2. sweep' = [sweep EXCEPT ![p] = s]
    BY <1>5 DEF HygieneTypeOK
  <2> HIDE DEF s
  <2>3. SweepOK(s)
    BY <1>1, <2>1 DEF SweepOK
  <2> QED
    BY <1>2, <1>5, <2>1, <2>2, <2>3
<1>6. CASE sweep' = [sweep EXCEPT ![p] = Preserved(p)] /\ branches' = branches
  <2>1. Preserved(p).pc = "inspect"
    BY <1>1 DEF Preserved, SweepOK, SweepState
  <2> QED
    BY <1>2, <1>6, <2>1, PreservedOK
<1>7. CASE /\ At(p, "delete") /\ sweep' = [sweep EXCEPT ![p] = Preserved(p)]
           /\ \/ branches' = branches
              \/ branches' = [branches EXCEPT ![sweep[p].ref.name].live = FALSE]
  BY <1>1, <1>7, DeleteBranchStep
<1> QED
  BY <1>3, <1>4, <1>5, <1>6, <1>7 DEF RequestFails, Inspected

LEMMA SweepStepStep ==
  ASSUME HygieneTypeOK, Reread, NEW p \in Sweepers, SweepStep(p)
  PROVE  HygieneTypeOK' /\ Reread'
<1>1. CASE DeleteBranch(p)
  <2>1. events' \in 0..MaxEvents
    BY <1>1 DEF DeleteBranch, HygieneTypeOK
  <2> QED
    BY <1>1, <2>1, DeleteBranchStep DEF DeleteBranch
<1> QED
  BY <1>1, ListStep, InspectStep, RelistStep, RevalidateStep, FinishStep DEF SweepStep

\* Around the sweeps a branch changes, and every sweep that has turned to one takes note.
LEMMA ChangesStep ==
  ASSUME HygieneTypeOK, Reread, NEW b \in Branches, NEW now \in Branch, Changes(b, now)
  PROVE  HygieneTypeOK' /\ Reread'
<1>1. HygieneTypeOK'
  BY HappensType DEF Changes, HygieneTypeOK
<1>2. ASSUME NEW q \in Sweepers, Turned(sweep'[q]), sweep'[q].ref.name \notin since'[q]
      PROVE  ReadFree(sweep'[q], branches')
  <2>1. since'[q] = since[q] \union {b} /\ sweep' = sweep
    BY <1>2 DEF Changes, Turned
  <2>2. branches'[sweep[q].ref.name] = branches[sweep[q].ref.name]
    BY <1>2, <2>1 DEF Changes, HygieneTypeOK
  <2>3. ReadFree(sweep[q], branches)
    BY <1>2, <2>1 DEF Reread
  <2> QED
    BY <2>1, <2>2, <2>3 DEF ReadFree
<1> QED
  BY <1>1, <1>2 DEF Reread

LEMMA AroundSweepsStep ==
  ASSUME HygieneTypeOK, Reread, AroundSweeps
  PROVE  HygieneTypeOK' /\ Reread'
<1>1. ASSUME NEW b \in Branches, Push(b)
      PROVE  HygieneTypeOK' /\ Reread'
  <2>1. PICK new \in SUBSET {"recent", "unique-commits"} :
          Changes(b, [sha |-> branches[b].sha + 1, live |-> TRUE,
                      keep |-> (branches[b].keep \ {"recent", "unique-commits"}) \union new])
    BY <1>1 DEF Push
  <2>2. [sha |-> branches[b].sha + 1, live |-> TRUE,
         keep |-> (branches[b].keep \ {"recent", "unique-commits"}) \union new] \in Branch
    <3>1. branches[b] \in Branch /\ branches[b].sha < MaxTips /\ MaxTips \in Nat
      BY <1>1, HygieneAssumption DEF HygieneTypeOK, Push
    <3>2. branches[b].sha + 1 \in 1..MaxTips /\ branches[b].keep \in SUBSET Reasons
      BY <3>1 DEF Branch
    <3>3. (branches[b].keep \ {"recent", "unique-commits"}) \union new \in SUBSET Reasons
      BY <3>2 DEF Reasons
    <3> QED
      BY <3>2, <3>3 DEF Branch
  <2> QED
    BY <2>1, <2>2, ChangesStep
<1>2. ASSUME NEW b \in Branches, Merge(b)
      PROVE  HygieneTypeOK' /\ Reread'
  <2>1. [branches[b] EXCEPT !.keep = @ \ {"unique-commits"}] \in Branch
    BY DEF HygieneTypeOK, Branch
  <2> QED
    BY <1>2, <2>1, ChangesStep DEF Merge
<1>3. ASSUME NEW b \in Branches, Toggle(b)
      PROVE  HygieneTypeOK' /\ Reread'
  <2>1. PICK r \in Reasons : Changes(b, [branches[b] EXCEPT !.keep =
                                           IF r \in @ THEN @ \ {r} ELSE @ \union {r}])
    BY <1>3 DEF Toggle
  <2>2. [branches[b] EXCEPT !.keep = IF r \in @ THEN @ \ {r} ELSE @ \union {r}] \in Branch
    BY DEF HygieneTypeOK, Branch
  <2> QED
    BY <2>1, <2>2, ChangesStep
<1> QED
  BY <1>1, <1>2, <1>3, RequestFailsStep DEF AroundSweeps

-----------------------------------------------------------------------------
(* The cycles: what holds of a cycle wherever it is.                         *)

BeforeSwitch == {"prepare", "move", "mark", "promote"}
AfterSwitch == {"verify", "hygiene", "sweep", "prune", "remove"}

CycleHolds(c) ==
  /\ c.pc = "prepare" => c.cand \in Commits
  /\ c.pc = "move" => c.cand \in Commits \ (releases \union Broken)
  /\ c.pc = "mark" => c.cand \in releases \ Broken
  /\ c.pc = "promote" => c.cand \in releases \intersect marked
  /\ c.pc = "fetch" /\ ~repointed => c.cand = active
  /\ c.pc \in BeforeSwitch /\ ~repointed /\ active # None => <<active, c.cand>> \in Ancestors
  /\ c.pc \in AfterSwitch /\ ~repointed => c.cand = active
  /\ c.pc = "remove" => c.cand \notin c.doomed

\* One cycle runs at a time, and only what passed the gates has a marker.
Locked == \A p \in Cycles : cycle[p].pc # "off" => processLock = p
MarkedPassed == marked \intersect Broken = {}
CyclesHold == \A p \in Cycles : CycleHolds(cycle[p])

RuntimeInv == Locked /\ MarkedPassed /\ CyclesHold /\ ActiveIsSound

LEMMA OffHolds ==
  ASSUME NEW c, c.pc = "off"
  PROVE  CycleHolds(c)
BY DEF CycleHolds, BeforeSwitch, AfterSwitch

LEMMA NoCycleType == NoCycle \in CycleState /\ NoCycle.pc = "off"
BY DEF NoCycle, CycleState

\* A step of the one cycle that runs: what it leaves behind must hold of that cycle alone.
LEMMA CycleMoves ==
  ASSUME RuntimeTypeOK, Locked, NEW p \in Cycles, cycle[p].pc # "off",
         NEW c \in CycleState, cycle' = [cycle EXCEPT ![p] = c],
         \/ processLock' = processLock
         \/ processLock' \in {Free, Stale} /\ c.pc = "off",
         CycleHolds(c)'
  PROVE  /\ Locked' /\ CyclesHold'
         /\ cycle' \in [Cycles -> CycleState]
         /\ processLock' \in Cycles \union {Free, Stale}
<1>1. processLock = p /\ \A q \in Cycles \ {p} : cycle[q].pc = "off"
  BY DEF Locked
<1>2. cycle' \in [Cycles -> CycleState] /\ cycle'[p] = c
      /\ \A q \in Cycles \ {p} : cycle'[q] = cycle[q]
  BY DEF RuntimeTypeOK
<1>3. \A q \in Cycles \ {p} : CycleHolds(cycle[q])'
  <2>1. SUFFICES ASSUME NEW q \in Cycles \ {p} PROVE CycleHolds(cycle[q])'
    OBVIOUS
  <2>2. cycle'[q].pc = "off"
    BY <1>1, <1>2
  <2> QED
    BY <2>2 DEF CycleHolds, BeforeSwitch, AfterSwitch
<1>4. CycleHolds(cycle[p])'
  BY <1>2 DEF CycleHolds
<1> QED
  BY <1>1, <1>2, <1>3, <1>4 DEF Locked, CyclesHold, RuntimeTypeOK

\* A step that changes nothing but the cycle and its lock.
LEMMA QuietMove ==
  ASSUME RuntimeTypeOK, RuntimeInv, NEW p \in Cycles, cycle[p].pc # "off",
         NEW c \in CycleState, cycle' = [cycle EXCEPT ![p] = c],
         \/ processLock' = processLock
         \/ processLock' \in {Free, Stale} /\ c.pc = "off",
         UNCHANGED <<diskVars, repointed>>, CycleHolds(c)
  PROVE  RuntimeTypeOK' /\ RuntimeInv'
<1>1. CycleHolds(c)'
  BY DEF CycleHolds, diskVars
<1>2. /\ Locked' /\ CyclesHold'
      /\ cycle' \in [Cycles -> CycleState]
      /\ processLock' \in Cycles \union {Free, Stale}
  BY <1>1, CycleMoves DEF RuntimeInv
<1> QED
  BY <1>2 DEF RuntimeTypeOK, RuntimeInv, MarkedPassed, ActiveIsSound, diskVars

LEMMA ReturnsStep ==
  ASSUME RuntimeTypeOK, RuntimeInv, NEW p \in Cycles, cycle[p].pc # "off", Returns(p),
         UNCHANGED <<diskVars, repointed>>
  PROVE  RuntimeTypeOK' /\ RuntimeInv'
BY NoCycleType, OffHolds, QuietMove DEF Returns

LEMMA ToType ==
  ASSUME RuntimeTypeOK, NEW p \in Cycles,
         NEW to \in {"prepare", "move", "mark", "promote", "verify", "hygiene", "sweep", "prune"},
         Goes(p, to)
  PROVE  \E c \in CycleState :
           /\ c.pc = to /\ c.cand = cycle[p].cand
           /\ cycle' = [cycle EXCEPT ![p] = c] /\ processLock' = processLock
<1> DEFINE c == [cycle[p] EXCEPT !.pc = to]
<1>1. cycle[p] \in CycleState
  BY DEF RuntimeTypeOK
<1>2. \A r \in CycleState : LET n == [r EXCEPT !.pc = to] IN
        n \in CycleState /\ n.pc = to /\ n.cand = r.cand
  BY DEF CycleState
<1>3. c \in CycleState /\ c.pc = to /\ c.cand = cycle[p].cand
  BY <1>1, <1>2
<1>4. cycle' = [cycle EXCEPT ![p] = c] /\ processLock' = processLock
  BY DEF Goes, RuntimeTypeOK
<1> HIDE DEF c
<1> QED
  BY <1>3, <1>4

LEMMA StartStep ==
  ASSUME RuntimeTypeOK, RuntimeInv, NEW p \in Cycles, Start(p)
  PROVE  RuntimeTypeOK' /\ RuntimeInv'
<1>1. PICK boot \in BOOLEAN :
        cycle' = [cycle EXCEPT ![p] =
                    [NoCycle EXCEPT !.pc = "look", !.only = p # Timer, !.boot = boot]]
  BY DEF Start
<1> DEFINE c == [NoCycle EXCEPT !.pc = "look", !.only = p # Timer, !.boot = boot]
<1>2. c \in CycleState /\ c.pc = "look"
  <2>1. (p # Timer) \in BOOLEAN
    OBVIOUS
  <2>2. \A r \in CycleState, x, y \in BOOLEAN :
          LET n == [r EXCEPT !.pc = "look", !.only = x, !.boot = y] IN
            n \in CycleState /\ n.pc = "look"
    BY DEF CycleState
  <2> QED
    BY <2>1, <2>2, NoCycleType
<1> HIDE DEF c
<1>3. CycleHolds(c)
  BY <1>2 DEF CycleHolds, BeforeSwitch, AfterSwitch
<1>4. cycle' = [cycle EXCEPT ![p] = c] /\ processLock' = p
  BY <1>1 DEF Start, c
<1>5. \A q \in Cycles : cycle[q].pc = "off"
  BY RuntimeAssumption DEF Start, RuntimeInv, Locked
<1>6. cycle' \in [Cycles -> CycleState] /\ cycle'[p] = c
      /\ \A q \in Cycles \ {p} : cycle'[q] = cycle[q]
  BY <1>2, <1>4 DEF RuntimeTypeOK
<1>7. UNCHANGED <<diskVars, repointed>>
  BY DEF Start
<1>8. Locked'
  BY <1>4, <1>5, <1>6 DEF Locked
<1>9. \A q \in Cycles : CycleHolds(cycle'[q])
  BY <1>3, <1>5, <1>6, OffHolds
<1>10. CyclesHold'
  BY <1>7, <1>9 DEF CyclesHold, CycleHolds, diskVars
<1> QED
  BY <1>4, <1>6, <1>7, <1>8, <1>10
     DEF RuntimeTypeOK, RuntimeInv, MarkedPassed, ActiveIsSound, diskVars

LEMMA LookStep ==
  ASSUME RuntimeTypeOK, RuntimeInv, NEW p \in Cycles, Look(p)
  PROVE  RuntimeTypeOK' /\ RuntimeInv'
<1>1. cycle[p].pc # "off" /\ UNCHANGED diskVars
  BY DEF Look, InCycle
<1>2. CASE Returns(p) /\ UNCHANGED repointed
  BY <1>1, <1>2, ReturnsStep
<1>3. CASE /\ cycle' = [cycle EXCEPT ![p].pc = "fetch", ![p].cand = ActiveSha]
           /\ repointed' = (repointed /\ active \notin releases \intersect marked)
           /\ UNCHANGED processLock
  <2> DEFINE looked == [cycle[p] EXCEPT !.pc = "fetch", !.cand = ActiveSha]
  <2>1. ActiveSha \in Commits \union {None}
    BY DEF ActiveSha, RuntimeTypeOK
  <2>2. \A r \in CycleState, x \in Commits \union {None} :
          LET n == [r EXCEPT !.pc = "fetch", !.cand = x] IN
            n \in CycleState /\ n.pc = "fetch" /\ n.cand = x
    BY DEF CycleState
  <2>3. looked \in CycleState /\ looked.pc = "fetch" /\ looked.cand = ActiveSha
    BY <2>1, <2>2 DEF RuntimeTypeOK
  <2>10. cycle' = [cycle EXCEPT ![p] = looked]
    BY <1>3 DEF RuntimeTypeOK
  <2> HIDE DEF looked
  <2>4. PICK c \in CycleState : c = looked
    BY <2>3
  <2>5. ActiveIsSound'
    BY <1>1, <1>3 DEF RuntimeInv, ActiveIsSound, MarkedPassed, diskVars
  <2>6. ~repointed' => ActiveSha = active
    BY <1>1, <2>5 DEF ActiveIsSound, ActiveSha, diskVars, RuntimeInv
  <2>7. CycleHolds(c)'
    BY <1>1, <2>3, <2>4, <2>6 DEF CycleHolds, BeforeSwitch, AfterSwitch, diskVars
  <2>8. /\ Locked' /\ CyclesHold'
        /\ cycle' \in [Cycles -> CycleState]
        /\ processLock' \in Cycles \union {Free, Stale}
    BY <1>1, <1>3, <2>4, <2>7, <2>10, CycleMoves DEF RuntimeInv
  <2>9. repointed' \in BOOLEAN
    BY <1>3
  <2> QED
    BY <1>1, <2>5, <2>8, <2>9 DEF RuntimeTypeOK, RuntimeInv, MarkedPassed, diskVars
<1> QED
  BY <1>2, <1>3 DEF Look

LEMMA FetchStep ==
  ASSUME RuntimeTypeOK, RuntimeInv, NEW p \in Cycles, Fetch(p)
  PROVE  RuntimeTypeOK' /\ RuntimeInv'
<1> DEFINE decision == Decision(cycle[p].cand, main)
           to == IF decision = "promote" THEN "prepare" ELSE "hygiene"
           c == [cycle[p] EXCEPT !.pc = to, !.cand = main]
<1>1. cycle[p].pc = "fetch" /\ cycle[p].pc # "off" /\ UNCHANGED <<diskVars, repointed>>
  BY DEF Fetch, InCycle
<1>2. CASE Returns(p)
  BY <1>1, <1>2, ReturnsStep
<1>3. CASE /\ decision # "blocked"
           /\ cycle' = [cycle EXCEPT ![p].pc = to, ![p].cand = main]
           /\ UNCHANGED processLock
  <2>1. main \in Commits /\ to \in {"prepare", "hygiene"}
    BY DEF RuntimeTypeOK
  <2>2. cycle[p] \in CycleState
    BY DEF RuntimeTypeOK
  <2> HIDE DEF to
  <2>3. c \in CycleState /\ c.pc = to /\ c.cand = main
    BY <2>1, <2>2 DEF CycleState
  <2>4. cycle' = [cycle EXCEPT ![p] = c]
    BY <1>3 DEF RuntimeTypeOK
  <2> USE DEF to
  <2>5. ~repointed => cycle[p].cand = active
    BY <1>1 DEF RuntimeInv, CyclesHold, CycleHolds
  <2>6. to = "prepare" /\ ~repointed /\ active # None => <<active, main>> \in Ancestors
    BY <1>3, <2>5 DEF Decision
  <2>7. to = "hygiene" /\ ~repointed => active = main
    BY <1>3, <2>5 DEF Decision
  <2> HIDE DEF c, to
  <2>8. CycleHolds(c)
    BY <2>1, <2>3, <2>6, <2>7 DEF CycleHolds, BeforeSwitch, AfterSwitch
  <2> QED
    BY <1>1, <1>3, <2>3, <2>4, <2>8, QuietMove
<1> QED
  BY <1>2, <1>3 DEF Fetch

LEMMA PrepareStep ==
  ASSUME RuntimeTypeOK, RuntimeInv, NEW p \in Cycles, Prepare(p)
  PROVE  RuntimeTypeOK' /\ RuntimeInv'
<1>1. cycle[p].pc = "prepare" /\ cycle[p].pc # "off" /\ UNCHANGED <<diskVars, repointed>>
  BY DEF Prepare, InCycle
<1>2. CycleHolds(cycle[p])
  BY DEF RuntimeInv, CyclesHold
<1>3. CASE Returns(p)
  BY <1>1, <1>3, ReturnsStep
<1>4. ASSUME NEW to \in {"promote", "move"}, Goes(p, to),
             to = "promote" => Reusable(cycle[p].cand),
             to = "move" => cycle[p].cand \notin releases \union Broken
      PROVE  RuntimeTypeOK' /\ RuntimeInv'
  <2>1. PICK c \in CycleState :
          /\ c.pc = to /\ c.cand = cycle[p].cand
          /\ cycle' = [cycle EXCEPT ![p] = c] /\ processLock' = processLock
    BY <1>4, ToType
  <2>2. CycleHolds(c)
    BY <1>1, <1>2, <1>4, <2>1 DEF CycleHolds, BeforeSwitch, AfterSwitch, Reusable
  <2> QED
    BY <1>1, <2>1, <2>2, QuietMove
<1> QED
  BY <1>3, <1>4 DEF Prepare

\* The steps to "hygiene", "sweep" and "prune" come from a cycle that has switched.
LEMMA AfterStep ==
  ASSUME RuntimeTypeOK, RuntimeInv, NEW p \in Cycles, cycle[p].pc \in AfterSwitch,
         NEW to \in {"hygiene", "sweep", "prune"}, Goes(p, to), UNCHANGED <<diskVars, repointed>>
  PROVE  RuntimeTypeOK' /\ RuntimeInv'
<1>1. PICK c \in CycleState :
        /\ c.pc = to /\ c.cand = cycle[p].cand
        /\ cycle' = [cycle EXCEPT ![p] = c] /\ processLock' = processLock
  BY ToType
<1>2. CycleHolds(cycle[p]) /\ cycle[p].pc # "off"
  BY DEF RuntimeInv, CyclesHold, AfterSwitch
<1>3. CycleHolds(c)
  BY <1>1, <1>2 DEF CycleHolds, BeforeSwitch, AfterSwitch
<1> QED
  BY <1>1, <1>2, <1>3, QuietMove

\* A step that goes on and changes the disk: what holds of the cycle afterwards suffices.
LEMMA LoudMove ==
  ASSUME RuntimeTypeOK, RuntimeInv, NEW p \in Cycles, cycle[p].pc # "off",
         NEW c \in CycleState, cycle' = [cycle EXCEPT ![p] = c], processLock' = processLock,
         CycleHolds(c)', MarkedPassed', ActiveIsSound',
         main' = main, active' \in Commits \union {None}, releases' \subseteq Commits,
         newer' \subseteq releases' \X releases',
         \A r \in releases' : <<r, r>> \notin newer',
         marked' \subseteq Commits, dirty' \subseteq Commits \union {Source},
         repointed' \in BOOLEAN
  PROVE  RuntimeTypeOK' /\ RuntimeInv'
<1>1. /\ Locked' /\ CyclesHold'
      /\ cycle' \in [Cycles -> CycleState]
      /\ processLock' \in Cycles \union {Free, Stale}
  BY CycleMoves DEF RuntimeInv
<1> QED
  BY <1>1 DEF RuntimeTypeOK, RuntimeInv

LEMMA MoveStep ==
  ASSUME RuntimeTypeOK, RuntimeInv, NEW p \in Cycles, Move(p)
  PROVE  RuntimeTypeOK' /\ RuntimeInv'
<1>1. cycle[p].pc = "move" /\ cycle[p].pc # "off"
  BY DEF Move, InCycle
<1>2. CycleHolds(cycle[p]) /\ cycle[p].cand \in Commits \ (releases \union Broken)
  BY <1>1 DEF RuntimeInv, CyclesHold, CycleHolds
<1>3. PICK c \in CycleState :
        /\ c.pc = "mark" /\ c.cand = cycle[p].cand
        /\ cycle' = [cycle EXCEPT ![p] = c] /\ processLock' = processLock
  BY ToType DEF Move
<1>4. /\ releases' = releases \union {cycle[p].cand}
      /\ newer' = newer \union ({cycle[p].cand} \X releases)
      /\ UNCHANGED <<main, active, marked, dirty, repointed>>
  BY DEF Move
<1>5. CycleHolds(c)'
  BY <1>1, <1>2, <1>3, <1>4 DEF CycleHolds, BeforeSwitch, AfterSwitch
<1>6. MarkedPassed' /\ ActiveIsSound'
  BY <1>4 DEF RuntimeInv, MarkedPassed, ActiveIsSound
<1>7. releases' \subseteq Commits /\ newer' \subseteq releases' \X releases'
  BY <1>2, <1>4 DEF RuntimeTypeOK
<1>8. ASSUME NEW r \in releases' PROVE <<r, r>> \notin newer'
  BY <1>2, <1>4, <1>8 DEF RuntimeTypeOK
<1> QED
  BY <1>1, <1>3, <1>4, <1>5, <1>6, <1>7, <1>8, LoudMove DEF RuntimeTypeOK

LEMMA MarkStep ==
  ASSUME RuntimeTypeOK, RuntimeInv, NEW p \in Cycles, Mark(p)
  PROVE  RuntimeTypeOK' /\ RuntimeInv'
<1>1. cycle[p].pc = "mark" /\ cycle[p].pc # "off"
  BY DEF Mark, InCycle
<1>2. CycleHolds(cycle[p]) /\ cycle[p].cand \in releases \ Broken
  BY <1>1 DEF RuntimeInv, CyclesHold, CycleHolds
<1>3. PICK c \in CycleState :
        /\ c.pc = "promote" /\ c.cand = cycle[p].cand
        /\ cycle' = [cycle EXCEPT ![p] = c] /\ processLock' = processLock
  BY ToType DEF Mark
<1>4. /\ marked' = marked \union {cycle[p].cand}
      /\ UNCHANGED <<main, active, releases, newer, dirty, repointed>>
  BY DEF Mark
<1>5. CycleHolds(c)'
  BY <1>1, <1>2, <1>3, <1>4 DEF CycleHolds, BeforeSwitch, AfterSwitch
<1>6. MarkedPassed' /\ ActiveIsSound'
  BY <1>2, <1>4 DEF RuntimeInv, MarkedPassed, ActiveIsSound
<1> QED
  BY <1>1, <1>2, <1>3, <1>4, <1>5, <1>6, LoudMove DEF RuntimeTypeOK

LEMMA PromoteStep ==
  ASSUME RuntimeTypeOK, RuntimeInv, NEW p \in Cycles, Promote(p)
  PROVE  RuntimeTypeOK' /\ RuntimeInv'
<1>1. cycle[p].pc = "promote" /\ cycle[p].pc # "off"
  BY DEF Promote, InCycle
<1>2. cycle[p].cand \in (releases \intersect marked) \ Broken
  BY <1>1 DEF RuntimeInv, CyclesHold, CycleHolds, MarkedPassed
<1>3. PICK c \in CycleState :
        /\ c.pc = "verify" /\ c.cand = cycle[p].cand
        /\ cycle' = [cycle EXCEPT ![p] = c] /\ processLock' = processLock
  BY ToType DEF Promote
<1>4. /\ active' = cycle[p].cand /\ repointed' = FALSE
      /\ UNCHANGED <<main, releases, newer, marked, dirty>>
  BY DEF Promote
<1>5. CycleHolds(c)'
  BY <1>3, <1>4 DEF CycleHolds, BeforeSwitch, AfterSwitch
<1>6. MarkedPassed' /\ ActiveIsSound'
  BY <1>2, <1>4 DEF RuntimeInv, MarkedPassed, ActiveIsSound
<1> QED
  BY <1>1, <1>2, <1>3, <1>4, <1>5, <1>6, LoudMove DEF RuntimeTypeOK

LEMMA PruneStep ==
  ASSUME RuntimeTypeOK, RuntimeInv, NEW p \in Cycles, Prune(p)
  PROVE  RuntimeTypeOK' /\ RuntimeInv'
<1> DEFINE doomed == releases \ Kept(cycle[p].cand)
           c == [cycle[p] EXCEPT !.pc = "remove", !.doomed = doomed]
<1>1. cycle[p].pc = "prune" /\ cycle[p].pc # "off" /\ cycle[p] \in CycleState
  BY DEF Prune, InCycle, RuntimeTypeOK
<1>2. doomed \in SUBSET Commits /\ cycle[p].cand \notin doomed
  BY DEF Kept, RuntimeTypeOK
<1>3. cycle' = [cycle EXCEPT ![p] = c]
  BY DEF Prune, RuntimeTypeOK
<1> HIDE DEF doomed
<1>4. c \in CycleState /\ c.pc = "remove" /\ c.cand = cycle[p].cand /\ c.doomed = doomed
  BY <1>1, <1>2 DEF CycleState
<1> HIDE DEF c
<1>5. CycleHolds(cycle[p])
  BY DEF RuntimeInv, CyclesHold
<1>6. CycleHolds(c)
  BY <1>1, <1>2, <1>4, <1>5 DEF CycleHolds, BeforeSwitch, AfterSwitch
<1> QED
  BY <1>1, <1>3, <1>4, <1>6, QuietMove DEF Prune

LEMMA RemoveStep ==
  ASSUME RuntimeTypeOK, RuntimeInv, NEW p \in Cycles, Remove(p)
  PROVE  RuntimeTypeOK' /\ RuntimeInv'
<1>1. cycle[p].pc = "remove" /\ cycle[p].pc # "off" /\ cycle[p] \in CycleState
  BY DEF Remove, InCycle, RuntimeTypeOK
<1>2. PICK s \in cycle[p].doomed :
        /\ cycle' = [cycle EXCEPT ![p].doomed = @ \ {s}]
        /\ \/ RemovesRelease(s) /\ (marked' = marked \ {s} \/ marked' = marked)
           \/ UNCHANGED <<releases, newer, dirty, marked>>
  BY DEF Remove
<1>3. UNCHANGED <<main, active, processLock, repointed>>
  BY DEF Remove
<1>4. CycleHolds(cycle[p]) /\ cycle[p].cand # s
  BY <1>1 DEF RuntimeInv, CyclesHold, CycleHolds
<1> DEFINE left == [cycle[p] EXCEPT !.doomed = @ \ {s}]
<1>5. left \in CycleState /\ left.pc = "remove" /\ left.cand = cycle[p].cand
      /\ left.doomed = cycle[p].doomed \ {s}
  BY <1>1 DEF CycleState
<1>6. cycle' = [cycle EXCEPT ![p] = left]
  BY <1>2 DEF RuntimeTypeOK
<1> HIDE DEF left
<1>7. PICK c \in CycleState : c = left
  BY <1>5
<1>8. CycleHolds(c)'
  BY <1>1, <1>3, <1>4, <1>5, <1>7 DEF CycleHolds, BeforeSwitch, AfterSwitch
<1>9. ~repointed => active # s
  BY <1>1, <1>4 DEF CycleHolds, AfterSwitch
<1>10. MarkedPassed' /\ ActiveIsSound'
  BY <1>2, <1>3, <1>9 DEF RuntimeInv, MarkedPassed, ActiveIsSound, RemovesRelease
<1>11. releases' \subseteq Commits /\ marked' \subseteq Commits /\ dirty' \subseteq Commits \union {Source}
  BY <1>2 DEF RuntimeTypeOK, RemovesRelease
<1>12. newer' \subseteq releases' \X releases' /\ \A r \in releases' : <<r, r>> \notin newer'
  <2>1. CASE UNCHANGED <<releases, newer>>
    BY <2>1 DEF RuntimeTypeOK
  <2>2. CASE RemovesRelease(s)
    <3>1. \A pair \in newer' : pair \in newer /\ pair[1] # s /\ pair[2] # s
      BY <2>2 DEF RemovesRelease
    <3>2. \A pair \in newer' : pair \in releases' \X releases'
      BY <3>1, <2>2 DEF RemovesRelease, RuntimeTypeOK
    <3>3. ASSUME NEW r \in releases' PROVE <<r, r>> \notin newer'
      BY <2>2, <3>1, <3>3 DEF RemovesRelease, RuntimeTypeOK
    <3> QED
      BY <3>2, <3>3
  <2> QED
    BY <1>2, <2>1, <2>2
<1> QED
  BY <1>1, <1>3, <1>6, <1>7, <1>8, <1>10, <1>11, <1>12, LoudMove DEF RuntimeTypeOK

-----------------------------------------------------------------------------
(* Each step of Next keeps the types and both invariants.                    *)

IInv == TypeOK /\ Reread /\ RuntimeInv

LEMMA HygieneStays ==
  ASSUME HygieneTypeOK, Reread, UNCHANGED <<branches, sweep, runLock, since>>,
         events' \in 0..MaxEvents
  PROVE  HygieneTypeOK' /\ Reread'
<1>1. HygieneTypeOK'
  BY DEF HygieneTypeOK
<1>2. ASSUME NEW q \in Sweepers, Turned(sweep'[q]), sweep'[q].ref.name \notin since'[q]
      PROVE  ReadFree(sweep'[q], branches')
  BY <1>2 DEF Reread
<1> QED
  BY <1>1, <1>2 DEF Reread

\* A sweep that is started or ended from outside has turned to no branch.
LEMMA SweepSet ==
  ASSUME HygieneTypeOK, Reread, NEW p \in Sweepers, NEW s, Gets(p, s), ~Turned(s),
         UNCHANGED <<branches, since>>, events' \in 0..MaxEvents,
         runLock' \in [LockFiles -> Sweepers \union {Free, Stale}]
  PROVE  HygieneTypeOK' /\ Reread'
BY SweepMoves DEF HygieneTypeOK

LEMMA TakesRunLockStep ==
  ASSUME HygieneTypeOK, Reread, NEW p \in Sweepers, NEW f \in LockFiles, TakesRunLock(p, f),
         UNCHANGED <<branches, since>>, events' \in 0..MaxEvents
  PROVE  HygieneTypeOK' /\ Reread'
<1>1. PICK s : Gets(p, s) /\ s.pc \in {"list", "failed"}
  BY TakesRunLockType
<1>2. ~Turned(s)
  BY <1>1 DEF Turned
<1> QED
  BY <1>1, <1>2, TakesRunLockType, SweepSet

LEMMA LeavesRunLockStep ==
  ASSUME HygieneTypeOK, Reread, NEW p \in Sweepers, NEW pc \in {"failed", "off"},
         LeavesRunLock(p, pc), UNCHANGED <<branches, since>>, events' \in 0..MaxEvents
  PROVE  HygieneTypeOK' /\ Reread'
<1> DEFINE s == [NoSweep EXCEPT !.pc = pc]
<1>1. NoSweep \in SweepState /\ NoSweep.gate = 0
  BY NoSweepType DEF NoSweep
<1>2. s \in SweepState /\ s.gate = 0 /\ s.pc = pc
  BY <1>1 DEF SweepState
<1>3. sweep' = [sweep EXCEPT ![p] = s]
  BY DEF LeavesRunLock
<1>4. runLock' \in [LockFiles -> Sweepers \union {Free, Stale}]
  BY DEF LeavesRunLock, HygieneTypeOK
<1> HIDE DEF s
<1>5. Gets(p, s) /\ ~Turned(s)
  BY <1>2, <1>3 DEF Gets, SweepOK, Turned
<1> QED
  BY <1>4, <1>5, SweepSet

LEMMA CyclesSweep == \A p \in Cycles : p \in Sweepers
BY RuntimeAssumption

LEMMA VerifyStep ==
  ASSUME RuntimeTypeOK, RuntimeInv, NEW p \in Cycles, Verify(p)
  PROVE  RuntimeTypeOK' /\ RuntimeInv'
<1>1. cycle[p].pc = "verify" /\ UNCHANGED <<diskVars, repointed>>
  BY DEF Verify, InCycle
<1>2. CASE Returns(p)
  BY <1>1, <1>2, ReturnsStep
<1>3. CASE Goes(p, "hygiene")
  BY <1>1, <1>3, AfterStep DEF AfterSwitch
<1> QED
  BY <1>2, <1>3 DEF Verify

LEMMA HygieneCycleStep ==
  ASSUME IInv, NEW p \in Cycles, Hygiene(p)
  PROVE  IInv'
<1>1. /\ cycle[p].pc = "hygiene" /\ UNCHANGED <<branches, since, events, diskVars, repointed>>
      /\ HygieneTypeOK /\ Reread /\ RuntimeTypeOK /\ RuntimeInv
  BY DEF Hygiene, InCycle, IInv, TypeOK
<1>2. events' \in 0..MaxEvents
  BY <1>1 DEF HygieneTypeOK
<1>3. CASE Returns(p) /\ UNCHANGED <<sweep, runLock>>
  <2>1. RuntimeTypeOK' /\ RuntimeInv'
    BY <1>1, <1>3, ReturnsStep
  <2>2. HygieneTypeOK' /\ Reread'
    BY <1>1, <1>2, <1>3, HygieneStays
  <2> QED
    BY <2>1, <2>2 DEF IInv, TypeOK
<1>4. CASE Goes(p, "sweep") /\ TakesRunLock(p, ServiceLock)
  <2>1. RuntimeTypeOK' /\ RuntimeInv'
    BY <1>1, <1>4, AfterStep DEF AfterSwitch
  <2>2. p \in Sweepers /\ ServiceLock \in LockFiles
    BY RuntimeAssumption
  <2>3. HygieneTypeOK' /\ Reread'
    BY <1>1, <1>2, <1>4, <2>2, TakesRunLockStep
  <2> QED
    BY <2>1, <2>3 DEF IInv, TypeOK
<1> QED
  BY <1>3, <1>4 DEF Hygiene

LEMMA SweptStep ==
  ASSUME IInv, NEW p \in Cycles, Swept(p)
  PROVE  IInv'
<1>1. /\ cycle[p].pc = "sweep" /\ sweep' = [sweep EXCEPT ![p] = NoSweep]
      /\ UNCHANGED <<branches, runLock, since, events, diskVars, repointed>>
      /\ HygieneTypeOK /\ Reread /\ RuntimeTypeOK /\ RuntimeInv /\ p \in Sweepers
  BY CyclesSweep DEF Swept, InCycle, IInv, TypeOK
<1>2. Gets(p, NoSweep) /\ ~Turned(NoSweep)
  BY <1>1, NoSweepOK DEF Gets, Turned, NoSweep
<1>3. HygieneTypeOK' /\ Reread'
  BY <1>1, <1>2, SweepSet DEF HygieneTypeOK
<1>4. CASE Goes(p, "prune")
  <2> QED
    BY <1>1, <1>3, <1>4, AfterStep DEF AfterSwitch, IInv, TypeOK
<1>5. CASE Returns(p)
  BY <1>1, <1>3, <1>5, ReturnsStep DEF IInv, TypeOK
<1> QED
  BY <1>4, <1>5 DEF Swept

LEMMA CycleStepStep ==
  ASSUME IInv, NEW p \in Cycles, Start(p) \/ CycleStep(p)
  PROVE  IInv'
<1>1. HygieneTypeOK /\ Reread /\ RuntimeTypeOK /\ RuntimeInv
  BY DEF IInv, TypeOK
<1>2. CASE Hygiene(p) \/ Swept(p)
  BY <1>2, HygieneCycleStep, SweptStep
<1>3. CASE \/ Start(p) \/ Look(p) \/ Fetch(p) \/ Prepare(p) \/ Move(p) \/ Mark(p)
           \/ Promote(p) \/ Verify(p) \/ Prune(p) \/ Remove(p) \/ Removed(p)
  <2>1. ASSUME Removed(p)
        PROVE  RuntimeTypeOK' /\ RuntimeInv'
    <3>1. cycle[p].pc # "off" /\ Returns(p) /\ UNCHANGED <<diskVars, repointed>>
      BY <2>1 DEF Removed, InCycle
    <3> QED
      BY <1>1, <3>1, ReturnsStep
  <2>2. RuntimeTypeOK' /\ RuntimeInv'
    <3>1. CASE Start(p) \/ Look(p) \/ Fetch(p) \/ Prepare(p) \/ Move(p)
      BY <1>1, <3>1, StartStep, LookStep, FetchStep, PrepareStep, MoveStep
    <3>2. CASE Mark(p) \/ Promote(p) \/ Verify(p) \/ Prune(p) \/ Remove(p)
      BY <1>1, <3>2, MarkStep, PromoteStep, VerifyStep, PruneStep, RemoveStep
    <3> QED
      BY <1>3, <2>1, <3>1, <3>2
  <2>3. UNCHANGED <<branches, sweep, runLock, since>> /\ (UNCHANGED events \/ Happens)
    BY <1>3 DEF Start, Look, Fetch, Prepare, Move, Mark, Promote, Verify, Prune, Remove,
                Removed, hygieneVars
  <2>4. events' \in 0..MaxEvents
    BY <1>1, <2>3, HappensType DEF HygieneTypeOK
  <2> QED
    BY <1>1, <2>2, <2>3, <2>4, HygieneStays DEF IInv, TypeOK
<1> QED
  BY <1>2, <1>3 DEF CycleStep

LEMMA CycleFailsStep ==
  ASSUME IInv, NEW p \in Cycles, CycleFails(p)
  PROVE  IInv'
<1>1. /\ HygieneTypeOK /\ Reread /\ RuntimeTypeOK /\ RuntimeInv
      /\ cycle[p].pc # "off" /\ Returns(p)
      /\ UNCHANGED <<branches, sweep, runLock, since, diskVars, repointed>>
      /\ events' \in 0..MaxEvents
  BY HappensType DEF CycleFails, IInv, TypeOK
<1> QED
  BY <1>1, HygieneStays, ReturnsStep DEF IInv, TypeOK

\* What the runtime keeps when only the sweeps, the events and the locks of sweeps change.
LEMMA RuntimeStays ==
  ASSUME RuntimeTypeOK, RuntimeInv, UNCHANGED <<diskVars, processLock, cycle, repointed>>
  PROVE  RuntimeTypeOK' /\ RuntimeInv'
<1>1. RuntimeTypeOK'
  BY DEF RuntimeTypeOK, diskVars
<1>2. CyclesHold'
  BY DEF RuntimeInv, CyclesHold, CycleHolds, diskVars
<1> QED
  BY <1>1, <1>2 DEF RuntimeInv, Locked, MarkedPassed, ActiveIsSound, diskVars

LEMMA SweepKilledStep ==
  ASSUME IInv, NEW p \in Sweepers, SweepKilled(p)
  PROVE  IInv'
<1>1. /\ HygieneTypeOK /\ Reread /\ RuntimeTypeOK /\ RuntimeInv
      /\ LeavesRunLock(p, "failed")
      /\ UNCHANGED <<branches, since, diskVars, processLock, cycle, repointed>>
      /\ events' \in 0..MaxEvents
  BY HappensType DEF SweepKilled, IInv, TypeOK
<1> QED
  BY <1>1, LeavesRunLockStep, RuntimeStays DEF IInv, TypeOK

LEMMA CycleKilledStep ==
  ASSUME IInv, NEW p \in Cycles, CycleKilled(p)
  PROVE  IInv'
<1>1. /\ HygieneTypeOK /\ Reread /\ RuntimeTypeOK /\ RuntimeInv
      /\ LeavesRunLock(p, "off") /\ p \in Sweepers
      /\ cycle[p].pc # "off" /\ cycle' = [cycle EXCEPT ![p] = NoCycle] /\ processLock' = Stale
      /\ UNCHANGED <<branches, since, diskVars, repointed>>
      /\ events' \in 0..MaxEvents
  BY HappensType, CyclesSweep DEF CycleKilled, InCycle, IInv, TypeOK
<1>2. RuntimeTypeOK' /\ RuntimeInv'
  BY <1>1, NoCycleType, OffHolds, QuietMove
<1>3. HygieneTypeOK' /\ Reread'
  BY <1>1, LeavesRunLockStep
<1> QED
  BY <1>2, <1>3 DEF IInv, TypeOK

LEMMA LockRemovedStep ==
  ASSUME IInv, LockRemoved
  PROVE  IInv'
<1>1. /\ HygieneTypeOK /\ Reread /\ RuntimeTypeOK /\ RuntimeInv
      /\ UNCHANGED <<branches, sweep, since, diskVars, cycle, repointed>>
      /\ events' \in 0..MaxEvents
  BY HappensType DEF LockRemoved, IInv, TypeOK
<1>2. runLock' \in [LockFiles -> Sweepers \union {Free, Stale}]
  BY <1>1 DEF LockRemoved, HygieneTypeOK
<1>3. HygieneTypeOK'
  BY <1>1, <1>2 DEF HygieneTypeOK
<1>4. Reread'
  <2>1. SUFFICES ASSUME NEW q \in Sweepers, Turned(sweep'[q]), sweep'[q].ref.name \notin since'[q]
                 PROVE  ReadFree(sweep'[q], branches')
    BY DEF Reread
  <2> QED
    BY <1>1, <2>1 DEF Reread
<1>5. CASE processLock' = processLock
  BY <1>1, <1>3, <1>4, <1>5, RuntimeStays DEF IInv, TypeOK
<1>6. CASE processLock = Stale /\ processLock' = Free
  <2>1. \A q \in Cycles : cycle[q].pc = "off"
    BY <1>1, <1>6, RuntimeAssumption DEF RuntimeInv, Locked
  <2>2. Locked'
    BY <1>1, <2>1 DEF Locked
  <2>3. RuntimeTypeOK'
    BY <1>1, <1>6 DEF RuntimeTypeOK, diskVars
  <2>4. CyclesHold' /\ MarkedPassed' /\ ActiveIsSound'
    BY <1>1 DEF RuntimeInv, CyclesHold, CycleHolds, MarkedPassed, ActiveIsSound, diskVars
  <2> QED
    BY <1>3, <1>4, <2>2, <2>3, <2>4 DEF IInv, TypeOK, RuntimeInv
<1> QED
  BY <1>5, <1>6 DEF LockRemoved

LEMMA CliSweepsStep ==
  ASSUME IInv, CliSweeps
  PROVE  IInv'
<1>1. /\ HygieneTypeOK /\ Reread /\ RuntimeTypeOK /\ RuntimeInv
      /\ UNCHANGED <<branches, since, diskVars, processLock, cycle, repointed>>
      /\ events' \in 0..MaxEvents /\ Cli \in Sweepers
  BY HappensType, RuntimeAssumption DEF CliSweeps, IInv, TypeOK
<1>2. PICK f \in LockFiles : TakesRunLock(Cli, f)
  BY DEF CliSweeps
<1> QED
  BY <1>1, <1>2, TakesRunLockStep, RuntimeStays DEF IInv, TypeOK

LEMMA MainMovesStep ==
  ASSUME IInv, MainMoves
  PROVE  IInv'
<1>1. /\ HygieneTypeOK /\ Reread /\ RuntimeTypeOK /\ RuntimeInv
      /\ main' \in Commits /\ events' \in 0..MaxEvents
      /\ UNCHANGED <<branches, sweep, runLock, since, active, releases, newer, marked, dirty,
                     processLock, cycle, repointed>>
  BY HappensType DEF MainMoves, IInv, TypeOK
<1>2. RuntimeTypeOK' /\ RuntimeInv'
  BY <1>1 DEF RuntimeTypeOK, RuntimeInv, Locked, MarkedPassed, ActiveIsSound, CyclesHold, CycleHolds
<1> QED
  BY <1>1, <1>2, HygieneStays DEF IInv, TypeOK

LEMMA SoiledStep ==
  ASSUME IInv, Soiled
  PROVE  IInv'
<1>1. /\ HygieneTypeOK /\ Reread /\ RuntimeTypeOK /\ RuntimeInv
      /\ events' \in 0..MaxEvents
      /\ UNCHANGED <<branches, sweep, runLock, since, main, active, releases, newer, marked,
                     processLock, cycle, repointed>>
  BY HappensType DEF Soiled, IInv, TypeOK
<1>2. dirty' \subseteq Commits \union {Source}
  BY <1>1 DEF Soiled, RuntimeTypeOK
<1>3. RuntimeTypeOK' /\ RuntimeInv'
  BY <1>1, <1>2 DEF RuntimeTypeOK, RuntimeInv, Locked, MarkedPassed, ActiveIsSound, CyclesHold,
                    CycleHolds
<1> QED
  BY <1>1, <1>3, HygieneStays DEF IInv, TypeOK

LEMMA RepointStep ==
  ASSUME IInv, Repoint
  PROVE  IInv'
<1>1. /\ HygieneTypeOK /\ Reread /\ RuntimeTypeOK /\ RuntimeInv
      /\ events' \in 0..MaxEvents /\ active' \in releases /\ repointed' = TRUE
      /\ UNCHANGED <<branches, sweep, runLock, since, main, releases, newer, marked, dirty,
                     processLock, cycle>>
  BY HappensType DEF Repoint, IInv, TypeOK
<1>2. RuntimeTypeOK'
  BY <1>1 DEF RuntimeTypeOK
<1>3. RuntimeInv'
  BY <1>1 DEF RuntimeInv, Locked, MarkedPassed, ActiveIsSound, CyclesHold, CycleHolds
<1> QED
  BY <1>1, <1>2, <1>3, HygieneStays DEF IInv, TypeOK

LEMMA NextStep ==
  ASSUME IInv, [Next]_vars
  PROVE  IInv'
<1>1. CASE UNCHANGED vars
  BY <1>1, HygieneStays, RuntimeStays DEF vars, hygieneVars, IInv, TypeOK, HygieneTypeOK
<1>2. CASE \E p \in Cycles : Start(p) \/ CycleStep(p)
  BY <1>2, CycleStepStep
<1>3. CASE \E p \in Sweepers : Sweep(p)
  BY <1>3, SweepStepStep, RuntimeStays DEF Sweep, IInv, TypeOK
<1>4. CASE Repository
  BY <1>4, AroundSweepsStep, RuntimeStays DEF Repository, IInv, TypeOK
<1>5. CASE AroundCycles
  BY <1>5, CycleFailsStep, CycleKilledStep, SweepKilledStep, LockRemovedStep, CliSweepsStep,
     MainMovesStep, SoiledStep, RepointStep DEF AroundCycles
<1> QED
  BY <1>1, <1>2, <1>3, <1>4, <1>5 DEF Next

LEMMA InitIInv == Init => IInv
<1> SUFFICES ASSUME Init PROVE IInv
  OBVIOUS
<1>1. HygieneTypeOK
  <2>1. 1 \in 1..MaxTips /\ 0 \in 0..MaxEvents
    BY HygieneAssumption
  <2>2. branches \in [Branches -> Branch]
    <3>1. [sha : {1}, live : {TRUE}, keep : {{}}] \subseteq Branch
      BY <2>1 DEF Branch
    <3> QED
      BY <3>1 DEF Init, HygieneInit
  <2>3. \A p \in Sweepers : sweep[p] = NoSweep
    BY DEF Init, HygieneInit
  <2>4. sweep \in [Sweepers -> SweepState]
    BY NoSweepType DEF Init, HygieneInit
  <2> QED
    BY <2>1, <2>2, <2>3, <2>4, NoSweepOK DEF Init, HygieneInit, HygieneTypeOK, SweepOK
<1>2. Reread
  <2>1. \A p \in Sweepers : ~Turned(sweep[p])
    BY DEF Init, HygieneInit, Turned, NoSweep
  <2> QED
    BY <2>1 DEF Reread
<1>3. \A p \in Cycles : cycle[p] = NoCycle /\ cycle[p].pc = "off"
  BY NoCycleType DEF Init
<1>4. RuntimeTypeOK
  <2>1. cycle \in [Cycles -> CycleState]
    BY NoCycleType DEF Init
  <2>2. newer \subseteq releases \X releases
    BY DEF Init
  <2>3. releases \subseteq Commits /\ active \in Commits \union {None} /\ main \in Commits
    BY RuntimeAssumption DEF Init
  <2>4. \A c \in releases : <<c, c>> \notin newer
    BY <2>3, RuntimeAssumption DEF Init
  <2> QED
    BY <2>1, <2>2, <2>3, <2>4 DEF Init, RuntimeTypeOK
<1>5. RuntimeInv
  <2>1. Locked /\ CyclesHold
    BY <1>3, OffHolds DEF Locked, CyclesHold
  <2> QED
    BY <2>1, RuntimeAssumption DEF Init, RuntimeInv, MarkedPassed, ActiveIsSound
<1> QED
  BY <1>1, <1>2, <1>4, <1>5 DEF IInv, TypeOK

LEMMA Invariance == Spec => []IInv
BY InitIInv, NextStep, PTL DEF Spec

-----------------------------------------------------------------------------

\* The state of every sweep and of every cycle has its type in every reachable state, for any
\* number of branches, sweeps, cycles and commits.
THEOREM TypeCorrect == Spec => []TypeOK
<1>1. IInv => TypeOK
  BY DEF IInv
<1> QED
  BY <1>1, Invariance, PTL

\* The active link leads to a release that is there, has its marker and passed its gates,
\* wherever cycles are killed and whatever happens to main (runReleaseCycle,
\* pruneReleases) - unless a person repointed the link.
THEOREM ActiveRelease == Spec => []ActiveIsSound
<1>1. IInv => ActiveIsSound
  BY DEF IInv, RuntimeInv
<1> QED
  BY <1>1, Invariance, PTL

\* The link is only ever switched to a descendant of the release it led to (decideUpdate,
\* atomicSymlink): the one reading at the start of the cycle is still true at the switch.
THEOREM ForwardOnly == Spec => AdvancesAlongMain
<1>1. ASSUME IInv, [Next]_vars, active' # active, active # None, ~repointed, ~repointed'
      PROVE  <<active, active'>> \in Ancestors
  <2>1. PICK p \in Cycles : Promote(p)
    BY <1>1 DEF vars, diskVars, Next, CycleStep, Start, Look, Fetch, Prepare, Move, Mark, Verify,
         Hygiene, Swept, Prune, Remove, Removed, Sweep, Repository, AroundCycles, CycleFails,
         CycleKilled, SweepKilled, LockRemoved, CliSweeps, MainMoves, Soiled, Repoint
  <2>2. cycle[p].pc = "promote" /\ active' = cycle[p].cand /\ CycleHolds(cycle[p])
    BY <1>1, <2>1 DEF Promote, InCycle, IInv, RuntimeInv, CyclesHold
  <2> QED
    BY <1>1, <2>2 DEF CycleHolds, BeforeSwitch
<1>2. IInv /\ [Next]_vars
        => [active' # active /\ active # None /\ ~repointed /\ ~repointed'
              => <<active, active'>> \in Ancestors]_vars
  BY <1>1
<1> QED
  BY <1>2, Invariance, PTL DEF Spec, AdvancesAlongMain

LEMMA OnlyDeletions ==
  ASSUME IInv, [Next]_vars, NEW b \in Branches, branches[b].live, ~branches'[b].live
  PROVE  \E p \in Sweepers : At(p, "delete") /\ sweep[p].ref.name = b
<1>1. CASE \E p \in Sweepers : DeleteBranch(p) \/ RequestFails(p)
  BY <1>1 DEF DeleteBranch, RequestFails, IInv, TypeOK, HygieneTypeOK, Branch, At
<1>2. CASE \E c \in Branches : \E now : Changes(c, now) /\ now.live
  BY <1>2 DEF Changes, IInv, TypeOK, HygieneTypeOK
<1>3. CASE UNCHANGED branches
  BY <1>3
<1>4. CASE \E c \in Branches : Push(c) \/ Merge(c) \/ Toggle(c)
  <2>1. PICK c \in Branches : Push(c) \/ Merge(c) \/ Toggle(c)
    BY <1>4
  <2>2. branches[c] \in Branch
    BY DEF IInv, TypeOK, HygieneTypeOK
  <2>3. CASE Push(c)
    <3>1. \E now : Changes(c, now) /\ now.live
      BY <2>3 DEF Push
    <3> QED
      BY <3>1, <1>2
  <2>4. CASE Merge(c)
    <3>1. [branches[c] EXCEPT !.keep = @ \ {"unique-commits"}].live
      BY <2>2, <2>4 DEF Merge, Branch
    <3> QED
      BY <2>4, <3>1, <1>2 DEF Merge
  <2>5. CASE Toggle(c)
    <3>1. \A r : [branches[c] EXCEPT !.keep = IF r \in @ THEN @ \ {r} ELSE @ \union {r}].live
      BY <2>2, <2>5 DEF Toggle, Branch
    <3> QED
      BY <2>5, <3>1, <1>2 DEF Toggle
  <2> QED
    BY <2>1, <2>3, <2>4, <2>5
<1> QED
  BY <1>1, <1>3, <1>4
     DEF vars, hygieneVars, Next, CycleStep, Start, Look, Fetch, Prepare, Move, Mark, Promote,
         Verify, Hygiene, Swept, Prune, Remove, Removed, Sweep, Repository, AroundSweeps,
         SweepStep, List, Inspect, Relist, Revalidate, Finish, AroundCycles, CycleFails,
         CycleKilled, SweepKilled, LockRemoved, CliSweeps, MainMoves, Soiled, Repoint

\* A sweep deletes only the branch it is about to delete, and only one that has no reason to
\* be kept or that changed, in whatever way, after the second listing: every gate that such a
\* branch passed was asked after that listing (runBranchHygiene, evaluateBranch).
THEOREM DeletionsReread == Spec => DeletesWhatItReread
<1>1. ASSUME IInv, [Next]_vars, NEW b \in Branches, branches[b].live, ~branches'[b].live
      PROVE  \E p \in Sweepers : /\ At(p, "delete") /\ sweep[p].ref.name = b
                                 /\ branches[b].keep = {} \/ b \in since[p]
  <2>1. PICK p \in Sweepers : At(p, "delete") /\ sweep[p].ref.name = b
    BY <1>1, OnlyDeletions
  <2>2. CASE b \notin since[p]
    <3>1. ReadFree(sweep[p], branches) /\ GatesPassed(sweep[p]) = 5
      BY <1>1, <2>1, <2>2 DEF IInv, Reread, Turned, At, GatesPassed
    <3>2. \A n \in 1..5 : branches[b].keep \intersect Gates[n] = {}
      BY <2>1, <3>1 DEF ReadFree
    <3>3. branches[b].keep \in SUBSET Reasons
      BY <1>1 DEF IInv, TypeOK, HygieneTypeOK, Branch
    <3> QED
      BY <2>1, <3>2, <3>3, GatesCover
  <2> QED
    BY <2>1, <2>2
<1>2. IInv /\ [Next]_vars
        => [\A b \in Branches : branches[b].live /\ ~branches'[b].live =>
              \E p \in Sweepers : /\ At(p, "delete") /\ sweep[p].ref.name = b
                                  /\ branches[b].keep = {} \/ b \in since[p]]_hygieneVars
  BY <1>1
<1> QED
  BY <1>2, Invariance, PTL DEF Spec, DeletesWhatItReread

-----------------------------------------------------------------------------
(* What pruning leaves.                                                      *)

\* Among any releases one is the newest.
Ranked ==
  \A set \in SUBSET releases :
    set # {} => \E k \in set : \A s \in set : <<s, k>> \notin newer

\* A cycle that prunes holds the release it executed, and it spares two releases
\* if it removes any.
Spares(c) ==
  /\ c.pc \notin {"off", "look", "fetch"} => c.cand \in Commits
  /\ c.pc \in {"sweep", "prune", "remove"} => c.cand \in releases
  /\ c.pc = "remove" /\ c.doomed # {} => \E j, k \in releases \ c.doomed : j # k

PruneInv == Ranked /\ \A p \in Cycles : Spares(cycle[p])

\* The other cycles stay where they are; cycle p goes on to c.
Steps(p, c) == cycle'[p] = c /\ \A q \in Cycles \ {p} : cycle'[q] = cycle[q]

\* The one cycle that runs takes a step: what it leaves must hold of that cycle alone.
LEMMA SparesAlone ==
  ASSUME IInv, PruneInv, NEW p \in Cycles, NEW c, Steps(p, c),
         cycle[p].pc # "off" \/ releases' = releases, Spares(c)', Ranked'
  PROVE  PruneInv'
<1>1. ASSUME NEW q \in Cycles PROVE Spares(cycle[q])'
  <2>1. CASE q = p
    BY <2>1 DEF Steps, Spares
  <2>2. CASE q # p /\ cycle[p].pc # "off"
    <3>1. cycle'[q] = cycle[q] /\ cycle[q].pc = "off"
      BY <2>2 DEF Steps, IInv, RuntimeInv, Locked
    <3> QED
      BY <3>1 DEF Spares
  <2>3. CASE q # p /\ releases' = releases
    <3>1. cycle'[q] = cycle[q] /\ Spares(cycle[q])
      BY <2>3 DEF Steps, PruneInv
    <3> QED
      BY <2>3, <3>1 DEF Spares
  <2> QED
    BY <2>1, <2>2, <2>3
<1> QED
  BY <1>1 DEF PruneInv

\* A step that leaves the directories alone.
LEMMA DirectoriesStay ==
  ASSUME IInv, PruneInv, NEW p \in Cycles, NEW c, Steps(p, c), Spares(c),
         UNCHANGED <<releases, newer>>
  PROVE  PruneInv'
<1>1. Ranked'
  BY DEF PruneInv, Ranked
<1>2. Spares(c)'
  BY DEF Spares
<1> QED
  BY <1>1, <1>2, SparesAlone

\* A cycle that goes on with its candidate, or returns.
LEMMA GoesOn ==
  ASSUME IInv, NEW p \in Cycles, NEW to, Goes(p, to)
  PROVE  \E c : Steps(p, c) /\ c.pc = to /\ c.cand = cycle[p].cand
<1>1. cycle \in [Cycles -> CycleState] /\ cycle[p] \in CycleState
  BY DEF IInv, TypeOK, RuntimeTypeOK
<1>2. PICK c : c = cycle'[p]
  OBVIOUS
<1>3. c.pc = to /\ c.cand = cycle[p].cand
  BY <1>1, <1>2 DEF Goes, CycleState
<1> QED
  BY <1>1, <1>2, <1>3 DEF Goes, Steps

LEMMA ReturnSpares ==
  ASSUME IInv, PruneInv, NEW p \in Cycles, cycle' = [cycle EXCEPT ![p] = NoCycle],
         UNCHANGED <<releases, newer>>
  PROVE  PruneInv'
<1>1. Steps(p, NoCycle)
  BY DEF Steps, IInv, TypeOK, RuntimeTypeOK
<1>2. Spares(NoCycle)
  BY DEF Spares, NoCycle
<1> QED
  BY <1>1, <1>2, DirectoriesStay

LEMMA BeforePruning ==
  ASSUME IInv, PruneInv, NEW p \in Cycles,
         Start(p) \/ Look(p) \/ Fetch(p) \/ Prepare(p) \/ Mark(p) \/ Promote(p) \/ Verify(p)
  PROVE  PruneInv'
<1>0. cycle \in [Cycles -> CycleState] /\ cycle[p] \in CycleState /\ main \in Commits
  BY DEF IInv, TypeOK, RuntimeTypeOK
<1>1. UNCHANGED <<releases, newer>>
  BY DEF Start, Look, Fetch, Prepare, Mark, Promote, Verify, diskVars
<1>2. PICK c : c = cycle'[p]
  OBVIOUS
<1>3. CASE Start(p)
  <2>1. Steps(p, c) /\ c.pc = "look"
    BY <1>0, <1>2, <1>3 DEF Start, NoCycle, Steps
  <2> QED
    BY <1>1, <2>1, DirectoriesStay DEF Spares
<1>4. CASE Look(p) /\ ~Returns(p)
  <2>1. Steps(p, c) /\ c.pc = "fetch"
    BY <1>0, <1>2, <1>4 DEF Look, Steps, CycleState
  <2> QED
    BY <1>1, <2>1, DirectoriesStay DEF Spares
<1>5. CASE Fetch(p) /\ ~Returns(p)
  <2>1. Steps(p, c) /\ c.pc \in {"prepare", "hygiene"} /\ c.cand = main
    BY <1>0, <1>2, <1>5 DEF Fetch, Steps, CycleState
  <2> QED
    BY <1>0, <1>1, <2>1, DirectoriesStay DEF Spares
<1>6. CASE /\ cycle[p].pc \notin {"off", "look", "fetch"}
           /\ Goes(p, "promote") \/ Goes(p, "move") \/ Goes(p, "verify") \/ Goes(p, "hygiene")
  <2>1. PICK d : /\ Steps(p, d) /\ d.cand = cycle[p].cand
                 /\ d.pc \in {"promote", "move", "verify", "hygiene"}
    BY <1>6, GoesOn
  <2>2. cycle[p].cand \in Commits
    BY <1>6 DEF PruneInv, Spares
  <2> QED
    BY <1>1, <2>1, <2>2, DirectoriesStay DEF Spares
<1>7. CASE Returns(p)
  BY <1>1, <1>7, ReturnSpares DEF Returns
<1> QED
  BY <1>3, <1>4, <1>5, <1>6, <1>7 DEF Prepare, Mark, Promote, Verify, InCycle

LEMMA MoveSpares ==
  ASSUME IInv, PruneInv, NEW p \in Cycles, Move(p)
  PROVE  PruneInv'
<1>1. cycle[p].pc = "move" /\ cycle[p].cand \in Commits \ releases
  BY DEF Move, InCycle, IInv, RuntimeInv, CyclesHold, CycleHolds
<1>2. /\ releases' = releases \union {cycle[p].cand}
      /\ newer' = newer \union ({cycle[p].cand} \X releases)
      /\ newer \subseteq releases \X releases
  BY DEF Move, IInv, TypeOK, RuntimeTypeOK
<1>3. PICK c : Steps(p, c) /\ c.pc = "mark" /\ c.cand = cycle[p].cand
  BY GoesOn DEF Move
<1>4. Ranked'
  <2>1. SUFFICES ASSUME NEW set \in SUBSET releases', set # {}
                 PROVE  \E k \in set : \A s \in set : <<s, k>> \notin newer'
    BY DEF Ranked
  <2>2. CASE cycle[p].cand \in set
    <3>1. \A s \in set : <<s, cycle[p].cand>> \notin newer'
      BY <1>1, <1>2
    <3> QED
      BY <2>2, <3>1
  <2>3. CASE cycle[p].cand \notin set
    <3>1. set \in SUBSET releases
      BY <1>2, <2>3
    <3>2. PICK k \in set : \A s \in set : <<s, k>> \notin newer
      BY <2>1, <3>1 DEF PruneInv, Ranked
    <3>3. \A s \in set : <<s, k>> \notin newer'
      BY <1>2, <2>3, <3>2
    <3> QED
      BY <3>3
  <2> QED
    BY <2>2, <2>3
<1>5. Spares(c)'
  BY <1>1, <1>3 DEF Spares
<1> QED
  BY <1>1, <1>3, <1>4, <1>5, SparesAlone

LEMMA SweepSpares ==
  ASSUME IInv, PruneInv, NEW p \in Cycles, Hygiene(p) \/ Swept(p) \/ Removed(p)
  PROVE  PruneInv'
<1>0. UNCHANGED <<releases, newer>>
  BY DEF Hygiene, Swept, Removed, diskVars
<1>1. CASE Hygiene(p) /\ ~Returns(p)
  <2>1. cycle[p].pc = "hygiene" /\ cycle[p].cand \in Commits
    BY <1>1 DEF Hygiene, InCycle, PruneInv, Spares
  <2>2. ActiveSha = cycle[p].cand /\ Goes(p, "sweep")
    BY <1>1 DEF Hygiene
  <2>3. cycle[p].cand \in releases
    BY <2>1, <2>2, RuntimeAssumption DEF ActiveSha, None
  <2>4. PICK c : Steps(p, c) /\ c.pc = "sweep" /\ c.cand = cycle[p].cand
    BY <2>2, GoesOn
  <2> QED
    BY <1>0, <2>1, <2>3, <2>4, DirectoriesStay DEF Spares
<1>2. CASE Swept(p) /\ ~Returns(p)
  <2>1. cycle[p].pc = "sweep" /\ cycle[p].cand \in Commits /\ cycle[p].cand \in releases
    BY <1>2 DEF Swept, InCycle, PruneInv, Spares
  <2>2. PICK c : Steps(p, c) /\ c.pc = "prune" /\ c.cand = cycle[p].cand
    BY <1>2, GoesOn DEF Swept
  <2> QED
    BY <1>0, <2>1, <2>2, DirectoriesStay DEF Spares
<1>3. CASE Returns(p)
  BY <1>0, <1>3, ReturnSpares DEF Returns
<1> QED
  BY <1>1, <1>2, <1>3 DEF Removed

\* Retention is at least 2: beside the release that was executed the newest other one stays.
LEMMA PruneSpares ==
  ASSUME IInv, PruneInv, NEW p \in Cycles, Prune(p)
  PROVE  PruneInv'
<1> DEFINE cand == cycle[p].cand
           others == releases \ {cand}
           doomed == releases \ Kept(cand)
<1>1. cycle[p].pc = "prune" /\ cand \in Commits /\ cand \in releases
  BY DEF Prune, InCycle, PruneInv, Spares
<1>2. PICK c : c = cycle'[p]
  OBVIOUS
<1>3. Steps(p, c) /\ c.pc = "remove" /\ c.cand = cand /\ c.doomed = doomed
  <2>1. cycle \in [Cycles -> CycleState] /\ cycle[p] \in CycleState
    BY DEF IInv, TypeOK, RuntimeTypeOK
  <2> HIDE DEF doomed
  <2> QED
    BY <1>2, <2>1 DEF Prune, Steps, CycleState, doomed
<1>4. ASSUME doomed # {} PROVE \E j, k \in releases \ doomed : j # k
  <2>1. others # {}
    BY <1>4 DEF Kept
  <2>2. PICK k \in others : \A s \in others : <<s, k>> \notin newer
    BY <2>1 DEF PruneInv, Ranked
  <2>3. {s \in others : <<s, k>> \in newer} = {}
    BY <2>2
  <2>4. Cardinality({s \in others : <<s, k>> \in newer}) < Retention - 1
    <3>1. Cardinality({s \in others : <<s, k>> \in newer}) = 0
      BY <2>3, FS_EmptySet
    <3> QED
      BY <3>1, RuntimeAssumption
  <2>5. k \in Kept(cand) /\ cand \in Kept(cand)
    BY <2>2, <2>4 DEF Kept, Newest
  <2> QED
    BY <1>1, <2>2, <2>5
<1>5. Spares(c)
  BY <1>1, <1>3, <1>4 DEF Spares
<1> QED
  BY <1>3, <1>5, DirectoriesStay DEF Prune, diskVars

LEMMA RemoveSpares ==
  ASSUME IInv, PruneInv, NEW p \in Cycles, Remove(p)
  PROVE  PruneInv'
<1>1. PICK s \in cycle[p].doomed :
        /\ cycle' = [cycle EXCEPT ![p].doomed = @ \ {s}]
        /\ RemovesRelease(s) \/ UNCHANGED <<releases, newer>>
  BY DEF Remove
<1>2. /\ cycle[p].pc = "remove" /\ cycle[p].cand \in Commits /\ cycle[p].cand \in releases
      /\ cycle[p].cand # s
  BY DEF Remove, InCycle, PruneInv, Spares, IInv, RuntimeInv, CyclesHold, CycleHolds
<1>3. PICK j, k \in releases \ cycle[p].doomed : j # k
  BY <1>2 DEF PruneInv, Spares
<1>4. PICK c : c = cycle'[p]
  OBVIOUS
<1>5. /\ Steps(p, c) /\ c.cand = cycle[p].cand /\ c.pc = "remove"
      /\ c.doomed = cycle[p].doomed \ {s}
  <2>1. cycle \in [Cycles -> CycleState] /\ cycle[p] \in CycleState
    BY DEF IInv, TypeOK, RuntimeTypeOK
  <2> QED
    BY <1>1, <1>2, <1>4, <2>1 DEF Steps, CycleState
<1>6. releases' \subseteq releases /\ newer' \subseteq newer /\ releases \ {s} \subseteq releases'
  BY <1>1 DEF RemovesRelease
<1>7. /\ j \in releases' \ c.doomed /\ k \in releases' \ c.doomed
      /\ cycle[p].cand \in releases'
  BY <1>2, <1>3, <1>5, <1>6
<1>8. Spares(c)'
  BY <1>2, <1>3, <1>5, <1>7 DEF Spares
<1>9. ASSUME NEW set \in SUBSET releases', set # {}
      PROVE  \E n \in set : \A t \in set : <<t, n>> \notin newer'
  <2>1. set \in SUBSET releases
    BY <1>6
  <2>2. PICK n \in set : \A t \in set : <<t, n>> \notin newer
    BY <1>9, <2>1 DEF PruneInv, Ranked
  <2> QED
    BY <1>6, <2>2
<1>10. Ranked'
  BY <1>9 DEF Ranked
<1> QED
  BY <1>2, <1>5, <1>8, <1>10, SparesAlone

LEMMA NextSpares ==
  ASSUME IInv, PruneInv, [Next]_vars
  PROVE  PruneInv'
<1>1. CASE \E p \in Cycles : Start(p) \/ CycleStep(p)
  BY <1>1, BeforePruning, MoveSpares, SweepSpares, PruneSpares, RemoveSpares DEF CycleStep
<1>2. CASE \E p \in Cycles : CycleFails(p) \/ CycleKilled(p)
  BY <1>2, ReturnSpares DEF CycleFails, CycleKilled, Returns, diskVars
<1>3. CASE UNCHANGED <<releases, newer, cycle>>
  BY <1>3 DEF PruneInv, Ranked, Spares
<1> QED
  BY <1>1, <1>2, <1>3
  DEF vars, diskVars, Next, Sweep, Repository, AroundCycles, SweepKilled, LockRemoved,
      CliSweeps, MainMoves, Soiled, Repoint

LEMMA InitSpares == Init => PruneInv
<1> SUFFICES ASSUME Init PROVE PruneInv
  OBVIOUS
<1>1. \A p \in Cycles : Spares(cycle[p])
  BY DEF Init, NoCycle, Spares
<1>2. ASSUME NEW set \in SUBSET releases, set # {}
      PROVE  \E k \in set : \A s \in set : <<s, k>> \notin newer
  <2>1. set \in SUBSET Installed
    BY <1>2 DEF Init
  <2>2. PICK k \in set : \A s \in set : <<k, s>> \notin Ancestors
    BY <1>2, <2>1, HistoryAssumption
  <2>3. \A s \in set : <<s, k>> \notin newer
    BY <2>2 DEF Init
  <2> QED
    BY <2>3
<1> QED
  BY <1>1, <1>2 DEF PruneInv, Ranked

LEMMA PruneInvariance == Spec => []PruneInv
<1>1. IInv /\ PruneInv /\ [Next]_vars => PruneInv'
  BY NextSpares
<1> QED
  BY <1>1, InitSpares, Invariance, PTL DEF Spec

\* Only a pruning cycle takes directories or markers away.
LEMMA OnlyRemove ==
  ASSUME [Next]_vars, releases' \cap marked' # releases \cap marked
  PROVE  \/ releases \subseteq releases' /\ marked \subseteq marked'
         \/ \E p \in Cycles : Remove(p)
BY DEF vars, diskVars, Next, Start, CycleStep, Look, Fetch, Prepare, Move, Mark, Promote, Verify,
       Hygiene, Swept, Prune, Removed, Sweep, Repository, AroundCycles, CycleFails, CycleKilled,
       SweepKilled, LockRemoved, CliSweeps, MainMoves, Soiled, Repoint

\* Pruning never takes the last release that the host could be rolled back to, unless a
\* directory without a marker was counted as one (pruneReleases): of the two releases that
\* every pruning spares, one is not the active one.
THEOREM RollbackStays == Spec => RollbackKept
<1>1. ASSUME IInv, PruneInv, [Next]_vars, Rollbacks # {}, Rollbacks' = {}, active' = active
      PROVE  releases \ marked # {}
  <2>1. PICK p \in Cycles : Remove(p)
    BY <1>1, OnlyRemove DEF Rollbacks
  <2>2. PICK s \in cycle[p].doomed :
          \/ UNCHANGED <<releases, marked>>
          \/ releases' = releases \ {s} /\ marked \ {s} \subseteq marked'
    BY <2>1 DEF Remove, RemovesRelease
  <2>3. PICK j, k \in releases \ cycle[p].doomed : j # k
    BY <1>1, <2>1 DEF Remove, InCycle, PruneInv, Spares
  <2>4. PICK r \in {j, k} : r # active
    BY <2>3
  <2>5. r \in releases /\ r # s
    BY <2>3, <2>4
  <2> QED
    BY <1>1, <2>2, <2>4, <2>5 DEF Rollbacks
<1>2. IInv /\ PruneInv /\ [Next]_vars
        => [Rollbacks # {} /\ Rollbacks' = {} /\ active' = active => releases \ marked # {}]_vars
  BY <1>1
<1> QED
  BY <1>2, Invariance, PruneInvariance, PTL DEF Spec, RollbackKept
=============================================================================
