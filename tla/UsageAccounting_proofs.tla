------------------------- MODULE UsageAccounting_proofs -------------------------
(***************************************************************************)
(* Proofs about the accounting of one delivery: what is stored is always   *)
(* accepted by the session that reads it, no stored result is ahead of its *)
(* accounting, the counters continue over every session, a run is counted  *)
(* once, publishing the record leaves the records of other deliveries, and *)
(* the groups of the report add up to the delivery.                        *)
(***************************************************************************)
EXTENDS UsageAccounting, FiniteSetTheorems, SequenceTheorems, TLAPS

Fields == {"calls", "ids", "observed", "ledger", "ledgerWhole", "zero", "whole", "failed",
           "audit", "ciWhole", "ci"}

\* An accumulator has these fields, counts its calls, and is readable.
IsAccount(a) ==
  /\ DOMAIN a = Fields
  /\ a.calls \in Nat
  /\ IsFiniteSet(a.ids) /\ IsFiniteSet(a.ledger)
  /\ Readable(a)

\* What a later accumulator keeps of an earlier one.
Continues(b, a) ==
  /\ a.observed \subseteq b.observed /\ a.failed \subseteq b.failed
  /\ a.ledger \subseteq b.ledger /\ b.calls >= a.calls

LEMMA ContinuesSelf ==
  ASSUME NEW a, IsAccount(a) PROVE Continues(a, a)
BY DEF IsAccount, Continues

LEMMA ContinuesOn ==
  ASSUME NEW a, NEW b, NEW c, IsAccount(a), IsAccount(b), IsAccount(c),
         Continues(b, a), Continues(c, b)
  PROVE  Continues(c, a)
BY DEF IsAccount, Continues

LEMMA NewAccountOK == IsAccount(NewAccount)
BY FS_EmptySet DEF IsAccount, NewAccount, Readable, Fields

LEMMA OldAccountOK ==
  ASSUME NEW fields \in BOOLEAN
  PROVE  IsAccount(OldAccount(fields)) /\ OldAccount(fields).observed = {1}
<1> DEFINE a == OldAccount(fields)
<1>1. /\ DOMAIN a = Fields /\ a.calls = 1 /\ a.ids = {1} /\ a.observed = {1} /\ a.ledger = {}
      /\ a.ledgerWhole = FALSE /\ a.failed = {}
  BY DEF OldAccount, NewAccount, Fields
<1>2. /\ IsFiniteSet({1}) /\ Cardinality({1}) = 1
  BY FS_Singleton
<1>3. \A S : S = {} => IsFiniteSet(S) /\ Cardinality(S) = 0
  BY FS_EmptySet
<1>4. Readable(a)
  BY <1>1, <1>2, <1>3 DEF Readable
<1> QED
  BY <1>1, <1>2, <1>3, <1>4 DEF IsAccount

\* An observation is of a run that was not observed before, so that its entry is new too.
LEMMA ObservedOK ==
  ASSUME NEW a, IsAccount(a), NEW id, NEW phase, NEW attempt
  PROVE  LET b == Observed(a, id, phase, attempt) IN
           IsAccount(b) /\ Continues(b, a) /\ id \in b.observed
<1> DEFINE b == Observed(a, id, phase, attempt)
           timed == [a EXCEPT !.observed = @ \cup {id},
                              !.audit = IF phase = "audit" THEN @ + 1 ELSE @]
           entry == [run |-> id, phase |-> LedgerPhase(phase), attempt |-> attempt]
           full == [timed EXCEPT !.calls = @ + 1, !.ids = @ \cup {id}, !.ledger = @ \cup {entry}]
           zero == [timed EXCEPT !.zero = @ + 1]
<1>1. CASE Seen(a, id)
  <2>1. b = a
    BY <1>1 DEF Observed
  <2> QED
    BY <1>1, <2>1, ContinuesSelf DEF Seen
<1>2. CASE ~Seen(a, id)
  <2>1. b = IF runs[id].calls = 0 THEN zero ELSE full
    BY <1>2 DEF Observed
  <2>2. id \notin a.observed /\ id \notin a.ids
    BY <1>2 DEF Seen, IsAccount, Readable
  <2>3. /\ timed.calls = a.calls /\ timed.ids = a.ids /\ timed.observed = a.observed \cup {id}
        /\ timed.ledger = a.ledger /\ timed.ledgerWhole = a.ledgerWhole /\ timed.whole = a.whole
        /\ timed.failed = a.failed
        /\ DOMAIN timed = Fields
    BY DEF IsAccount, Fields
  <2> HIDE DEF timed
  <2>4. CASE b = zero
    <3>1. /\ zero.calls = a.calls /\ zero.ids = a.ids /\ zero.observed = a.observed \cup {id}
          /\ zero.ledger = a.ledger /\ zero.ledgerWhole = a.ledgerWhole /\ zero.whole = a.whole
          /\ zero.failed = a.failed
          /\ DOMAIN zero = Fields
      BY <2>3 DEF Fields
    <3> HIDE DEF zero
    <3>2. IsAccount(zero)
      BY <3>1 DEF IsAccount, Readable
    <3>3. Continues(zero, a) /\ id \in zero.observed
      BY <3>1 DEF Continues, IsAccount
    <3> QED
      BY <2>4, <3>2, <3>3
  <2>5. CASE b = full
    <3>1. /\ full.calls = a.calls + 1 /\ full.ids = a.ids \cup {id}
          /\ full.observed = a.observed \cup {id} /\ full.ledger = a.ledger \cup {entry}
          /\ full.ledgerWhole = a.ledgerWhole /\ full.whole = a.whole /\ full.failed = a.failed
          /\ DOMAIN full = Fields
      BY <2>3 DEF Fields
    <3>2. entry.run = id
      OBVIOUS
    <3> HIDE DEF full, entry
    <3>3. entry \notin a.ledger
      BY <2>2, <3>2 DEF IsAccount, Readable
    <3>4. /\ IsFiniteSet(full.ids) /\ Cardinality(full.ids) = Cardinality(a.ids) + 1
          /\ IsFiniteSet(full.ledger) /\ Cardinality(full.ledger) = Cardinality(a.ledger) + 1
      <4>1. IsFiniteSet(a.ids) /\ IsFiniteSet(a.ledger)
        BY DEF IsAccount
      <4>2. IsFiniteSet(a.ids \cup {id}) /\ Cardinality(a.ids \cup {id}) = Cardinality(a.ids) + 1
        BY <2>2, <4>1, FS_AddElement
      <4>3. /\ IsFiniteSet(a.ledger \cup {entry})
            /\ Cardinality(a.ledger \cup {entry}) = Cardinality(a.ledger) + 1
        BY <3>3, <4>1, FS_AddElement
      <4> QED
        BY <3>1, <4>2, <4>3
    <3>5. Cardinality(a.ids) \in Nat /\ Cardinality(a.ledger) \in Nat
      BY FS_CardinalityType DEF IsAccount
    <3>6. \A d, e \in full.ledger : d.run = e.run => d = e
      BY <2>2, <3>1, <3>2 DEF IsAccount, Readable
    <3>7. IsAccount(full)
      BY <3>1, <3>2, <3>4, <3>5, <3>6 DEF IsAccount, Readable
    <3>8. Continues(full, a) /\ id \in full.observed
      BY <3>1 DEF Continues, IsAccount
    <3> QED
      BY <2>5, <3>7, <3>8
  <2> QED
    BY <2>1, <2>4, <2>5
<1> QED
  BY <1>1, <1>2

LEMMA AuditFailedOK ==
  ASSUME NEW a, IsAccount(a), NEW id
  PROVE  LET b == AuditFailed(a, id) IN IsAccount(b) /\ Continues(b, a)
<1> DEFINE b == [a EXCEPT !.whole = FALSE, !.failed = @ \cup {id}, !.audit = @ + 1]
<1>1. CASE id \in a.observed \cup a.failed
  BY <1>1, ContinuesSelf DEF AuditFailed
<1>2. /\ b.calls = a.calls /\ b.ids = a.ids /\ b.observed = a.observed /\ b.ledger = a.ledger
      /\ b.ledgerWhole = a.ledgerWhole /\ b.whole = FALSE /\ b.failed = a.failed \cup {id}
      /\ DOMAIN b = Fields
  BY DEF IsAccount, Fields
<1>3. CASE id \notin a.observed \cup a.failed
  <2>1. AuditFailed(a, id) = b
    BY <1>3 DEF AuditFailed
  <2> HIDE DEF b
  <2> QED
    BY <1>2, <2>1 DEF IsAccount, Readable, Continues
<1> QED
  BY <1>1, <1>3

LEMMA CiObservedOK ==
  ASSUME NEW a, IsAccount(a), NEW sha
  PROVE  LET b == CiObserved(a, sha) IN IsAccount(b) /\ Continues(b, a)
<1> DEFINE b == CiObserved(a, sha)
<1>1. /\ b.calls = a.calls /\ b.ids = a.ids /\ b.observed = a.observed /\ b.ledger = a.ledger
      /\ b.ledgerWhole = a.ledgerWhole /\ b.whole = a.whole /\ b.failed = a.failed
      /\ DOMAIN b = Fields
  BY DEF IsAccount, CiObserved, Fields
<1> QED
  BY <1>1 DEF IsAccount, Readable, Continues

--------------------------------------------------------------------------------
(* The accumulator in memory continues the one in the comment.             *)

\* What a session holds.
IsMemory(m) ==
  /\ DOMAIN m = {"exists", "account", "done", "audits", "audit", "head"}
  /\ m.exists = TRUE
  /\ IsAccount(m.account)
  /\ m.done \subseteq m.account.observed

StoredOK == comment.exists => IsAccount(comment.account) /\ AdvanceIsAccounted

HeldOK ==
  mem.exists => /\ IsMemory(mem)
                /\ comment.exists => Continues(mem.account, comment.account)

AInv ==
  /\ mem.exists = ~Idle /\ comment.exists \in BOOLEAN
  /\ StoredOK
  /\ HeldOK

\* What a step keeps of the comment.
Kept == comment.exists => comment'.exists /\ Continues(comment'.account, comment.account)

LEMMA SavedIs ==
  ASSUME NEW m, NEW stage, NEW status
  PROVE  LET c == Saved(m, stage, status) IN
           c.exists = TRUE /\ c.account = m.account /\ c.done = m.done
BY DEF Saved

LEMMA KeptSelf ==
  ASSUME AInv, comment' = comment
  PROVE  Kept
BY ContinuesSelf DEF AInv, StoredOK, Kept

LEMMA SaveStep ==
  ASSUME AInv, NEW m, IsMemory(m), comment.exists => Continues(m.account, comment.account),
         NEW stage, NEW status, comment' = Saved(m, stage, status)
  PROVE  /\ comment'.exists = TRUE /\ comment'.account = m.account
         /\ StoredOK' /\ Kept /\ Continues(m.account, comment'.account)
<1>1. comment'.exists = TRUE /\ comment'.account = m.account /\ comment'.done = m.done
  BY SavedIs
<1>2. StoredOK'
  BY <1>1 DEF StoredOK, IsMemory, AdvanceIsAccounted
<1>3. Continues(m.account, m.account)
  BY ContinuesSelf DEF IsMemory
<1> QED
  BY <1>1, <1>2, <1>3 DEF Kept

\* A session goes on with memory m.
LEMMA Working ==
  ASSUME AInv, ~Idle, NEW m, IsMemory(m), Continues(m.account, mem.account),
         mem' = m, ~Idle',
         comment' = comment \/ \E stage, status : comment' = Saved(m, stage, status)
  PROVE  AInv' /\ Kept
<1>1. IsMemory(mem) /\ (comment.exists => Continues(mem.account, comment.account))
  BY DEF AInv, HeldOK
<1>2. comment.exists => Continues(m.account, comment.account)
  BY <1>1, ContinuesOn DEF IsMemory, AInv, StoredOK
<1>3. mem'.exists = TRUE
  BY DEF IsMemory
<1>4. CASE comment' = comment
  <2>1. StoredOK'
    BY <1>4 DEF AInv, StoredOK, AdvanceIsAccounted
  <2>2. HeldOK'
    BY <1>2, <1>4 DEF HeldOK
  <2> QED
    BY <1>3, <1>4, <2>1, <2>2, KeptSelf DEF AInv
<1>5. CASE \E stage, status : comment' = Saved(m, stage, status)
  <2>1. PICK stage, status : comment' = Saved(m, stage, status)
    BY <1>5
  <2>2. StoredOK' /\ Kept /\ Continues(m.account, comment'.account) /\ comment'.exists = TRUE
    BY <1>2, <2>1, SaveStep
  <2> QED
    BY <1>3, <2>2 DEF AInv, HeldOK
<1> QED
  BY <1>4, <1>5

\* A session ends, perhaps after a last write.
LEMMA Ending ==
  ASSUME AInv, ~Idle, NEW where \in {"none", "metrics-error"}, Over(where),
         \/ comment' = comment
         \/ \E m, stage, status : /\ IsMemory(m) /\ Continues(m.account, mem.account)
                                  /\ comment' = Saved(m, stage, status)
  PROVE  AInv' /\ Kept
<1>1. IsMemory(mem) /\ (comment.exists => Continues(mem.account, comment.account))
  BY DEF AInv, HeldOK
<1>2. mem'.exists = FALSE /\ Idle'
  BY DEF Over, NoMemory, Idle
<1>3. HeldOK'
  BY <1>2 DEF HeldOK
<1>4. CASE comment' = comment
  <2>1. StoredOK'
    BY <1>4 DEF AInv, StoredOK, AdvanceIsAccounted
  <2> QED
    BY <1>2, <1>3, <1>4, <2>1, KeptSelf DEF AInv
<1>5. ASSUME NEW m, NEW stage, NEW status, IsMemory(m), Continues(m.account, mem.account),
             comment' = Saved(m, stage, status)
      PROVE  AInv' /\ Kept
  <2>1. comment.exists => Continues(m.account, comment.account)
    BY <1>1, <1>5, ContinuesOn DEF IsMemory, AInv, StoredOK
  <2>2. StoredOK' /\ Kept /\ comment'.exists = TRUE
    BY <1>5, <2>1, SaveStep
  <2> QED
    BY <1>2, <1>3, <2>2 DEF AInv
<1> QED
  BY <1>4, <1>5

\* Memory with another accumulator, other results, or other counts.
LEMMA Grown ==
  ASSUME NEW m, IsMemory(m), NEW a, IsAccount(a), Continues(a, m.account)
  PROVE  LET n == [m EXCEPT !.account = a] IN IsMemory(n) /\ n.account = a
<1> DEFINE n == [m EXCEPT !.account = a]
<1>1. /\ DOMAIN n = DOMAIN m /\ n.exists = m.exists /\ n.account = a /\ n.done = m.done
  BY DEF IsMemory
<1> QED
  BY <1>1 DEF IsMemory, Continues

LEMMA Held ==
  ASSUME AInv, ~Idle
  PROVE  IsMemory(mem) /\ IsAccount(mem.account) /\ Continues(mem.account, mem.account)
BY ContinuesSelf DEF AInv, HeldOK, IsMemory

LEMMA DispatchStep ==
  ASSUME AInv, NEW phase, NEW outcome, NEW calls, Dispatch(phase, outcome, calls)
  PROVE  AInv' /\ Kept
<1>1. ~Idle /\ ~Idle'
  BY DEF Dispatch, Idle
<1>2. IsMemory(mem) /\ Continues(mem.account, mem.account)
  BY <1>1, Held
<1>3. mem' = mem \/ mem' = [mem EXCEPT !.audits = @ + 1]
  BY DEF Dispatch
<1>4. [mem EXCEPT !.audits = @ + 1].account = mem.account /\ IsMemory([mem EXCEPT !.audits = @ + 1])
  BY <1>2 DEF IsMemory
<1>5. PICK m : mem' = m /\ IsMemory(m) /\ Continues(m.account, mem.account)
  BY <1>2, <1>3, <1>4
<1>6. comment' = comment \/ \E stage, status : comment' = Saved(m, stage, status)
  BY <1>5 DEF Dispatch, Save
<1> QED
  BY <1>1, <1>5, <1>6, Working

LEMMA ObserveOK ==
  ASSUME NEW m, IsMemory(m), NEW id, NEW phase, NEW attempt, NEW a, IsAccount(a),
         Continues(a, m.account)
  PROVE  LET b == Observed(a, id, phase, attempt) IN
           IsAccount(b) /\ Continues(b, m.account) /\ id \in b.observed
<1> DEFINE b == Observed(a, id, phase, attempt)
<1>1. IsAccount(b) /\ Continues(b, a) /\ id \in b.observed
  BY ObservedOK
<1> HIDE DEF b
<1>2. Continues(b, m.account)
  BY <1>1, ContinuesOn DEF IsMemory
<1> USE DEF b
<1> QED
  BY <1>1, <1>2

LEMMA ObservedAllOK ==
  ASSUME AInv, ~Idle
  PROVE  /\ IsAccount(ObservedAll) /\ Continues(ObservedAll, mem.account)
         /\ LastOf(open) \in ObservedAll.observed
<1>1. IsMemory(mem) /\ IsAccount(mem.account) /\ Continues(mem.account, mem.account)
  BY Held
<1> DEFINE a == Observe(open.ids[1], open.phase)
<1>2. IsAccount(a) /\ Continues(a, mem.account)
  BY <1>1, ObserveOK DEF Observe
<1> HIDE DEF a
<1>3. ObservedAll = Observed(a, LastOf(open), open.phase, mem.audits)
  BY DEF ObservedAll, a
<1> QED
  BY <1>1, <1>2, <1>3, ObserveOK

LEMMA ObserveLastOK ==
  ASSUME AInv, ~Idle, NEW phase
  PROVE  LET b == Observe(LastOf(open), phase) IN
           IsAccount(b) /\ Continues(b, mem.account) /\ LastOf(open) \in b.observed
BY Held, ObserveOK DEF Observe

\* A step that ends a session whose last write has accumulator a.
LEMMA EndingWith ==
  ASSUME AInv, ~Idle, NEW where \in {"none", "metrics-error"}, Over(where),
         NEW a, IsAccount(a), Continues(a, mem.account), NEW stage, NEW status,
         comment' = comment \/ Save([mem EXCEPT !.account = a], stage, status)
  PROVE  AInv' /\ Kept
<1> DEFINE m == [mem EXCEPT !.account = a]
<1>1. IsMemory(m) /\ m.account = a
  BY Held, Grown
<1>2. CASE comment' = comment
  BY <1>2, Ending
<1>3. CASE comment' = Saved(m, stage, status)
  <2>1. IsMemory(m) /\ Continues(m.account, mem.account)
    BY <1>1
  <2> HIDE DEF m
  <2> QED
    BY <1>3, <2>1, Ending
<1> QED
  BY <1>2, <1>3 DEF Save

LEMMA RetryStep ==
  ASSUME AInv, NEW outcome, NEW calls, Retry(outcome, calls)
  PROVE  AInv' /\ Kept
<1>1. ~Idle /\ ~Idle'
  BY DEF Retry, Idle
<1> DEFINE a == Observe(LastOf(open), open.phase)
           grown == [mem EXCEPT !.account = a]
<1>2. IsMemory(mem) /\ Continues(mem.account, mem.account)
  BY <1>1, Held
<1>3. IsAccount(a) /\ Continues(a, mem.account)
  BY <1>1, ObserveLastOK
<1> HIDE DEF a
<1>4. IsMemory(grown) /\ grown.account = a
  BY <1>2, <1>3, Grown
<1>5. mem' = mem \/ mem' = grown
  BY DEF Retry, a
<1> HIDE DEF grown
<1>6. PICK m : mem' = m /\ IsMemory(m) /\ Continues(m.account, mem.account)
  BY <1>2, <1>3, <1>4, <1>5
<1>7. \E stage, status : comment' = Saved(m, stage, status)
  BY <1>6 DEF Retry, Save
<1> QED
  BY <1>1, <1>6, <1>7, Working

LEMMA RearmStep ==
  ASSUME AInv, NEW outcome, NEW calls, Rearm(outcome, calls)
  PROVE  AInv' /\ Kept
<1>1. ~Idle /\ ~Idle'
  BY DEF Rearm, CanRearm, Idle
<1> DEFINE grown == [mem EXCEPT !.account = ObservedAll]
<1>2. IsMemory(mem) /\ Continues(mem.account, mem.account)
  BY <1>1, Held
<1>3. IsAccount(ObservedAll) /\ Continues(ObservedAll, mem.account)
  BY <1>1, ObservedAllOK
<1>4. IsMemory(grown) /\ grown.account = ObservedAll
  BY <1>2, <1>3, Grown
<1>5. mem' = mem \/ mem' = grown
  BY DEF Rearm
<1> HIDE DEF grown
<1>6. PICK m : mem' = m /\ IsMemory(m) /\ Continues(m.account, mem.account)
  BY <1>2, <1>3, <1>4, <1>5
<1>7. \E stage, status : comment' = Saved(m, stage, status)
  BY <1>6 DEF Rearm, Save
<1> QED
  BY <1>1, <1>6, <1>7, Working

\* An accepted run is counted before the state advances past it.
LEMMA AcceptedStep ==
  ASSUME AInv, ~Idle, NEW a, IsAccount(a), Continues(a, mem.account),
         LastOf(open) \in a.observed, Accepted(a)
  PROVE  AInv' /\ Kept
<1>1. IsMemory(mem) /\ mem.done \subseteq a.observed
  BY Held DEF IsMemory, Continues
<1>2. PICK h, u : mem' = [mem EXCEPT !.account = a, !.done = @ \cup {LastOf(open)},
                                     !.head = h, !.audit = u]
  BY DEF Accepted
<1> DEFINE m == [mem EXCEPT !.account = a, !.done = @ \cup {LastOf(open)}, !.head = h, !.audit = u]
<1>3. /\ DOMAIN m = DOMAIN mem /\ m.exists = mem.exists /\ m.account = a
      /\ m.done = mem.done \cup {LastOf(open)}
  BY <1>1 DEF IsMemory
<1>4. mem' = m
  BY <1>2
<1> HIDE DEF m
<1>5. IsMemory(m)
  BY <1>1, <1>3 DEF IsMemory
<1>6. ~Idle' /\ comment' = comment
  BY DEF Accepted, Idle
<1> QED
  BY <1>3, <1>4, <1>5, <1>6, Working

LEMMA SettleBootstrapStep ==
  ASSUME AInv, SettleBootstrap
  PROVE  AInv' /\ Kept
<1>1. ~Idle
  BY DEF SettleBootstrap, Idle
<1> DEFINE a == Observed(mem.account, LastOf(open), "implementation", 0)
<1>2. IsMemory(mem) /\ IsAccount(mem.account) /\ Continues(mem.account, mem.account)
  BY <1>1, Held
<1>3. IsAccount(a) /\ Continues(a, mem.account) /\ LastOf(open) \in a.observed
  BY <1>2, ObserveOK
<1>4. \/ Accepted(a)
      \/ at' = "bootstrap" /\ mem' = [mem EXCEPT !.account = a] /\ comment' = comment
      \/ Over("none") /\ comment' = comment
  BY DEF SettleBootstrap
<1> HIDE DEF a
<1>5. CASE Accepted(a)
  BY <1>1, <1>3, <1>5, AcceptedStep
<1>6. CASE at' = "bootstrap" /\ mem' = [mem EXCEPT !.account = a] /\ comment' = comment
  <2> DEFINE m == [mem EXCEPT !.account = a]
  <2>1. IsMemory(m) /\ m.account = a /\ ~Idle'
    BY <1>2, <1>3, <1>6, Grown DEF Idle
  <2> HIDE DEF m
  <2>2. mem' = m
    BY <1>6 DEF m
  <2> QED
    BY <1>1, <1>3, <1>6, <2>1, <2>2, Working
<1>7. CASE Over("none") /\ comment' = comment
  BY <1>1, <1>7, Ending
<1> QED
  BY <1>4, <1>5, <1>6, <1>7

LEMMA SettleRemediationStep ==
  ASSUME AInv, SettleRemediation
  PROVE  AInv' /\ Kept
<1>1. ~Idle
  BY DEF SettleRemediation, Idle
<1>2. CASE Accepted(ObservedAll)
  BY <1>1, <1>2, ObservedAllOK, AcceptedStep
<1>3. CASE /\ comment' = comment \/ Save([mem EXCEPT !.account = ObservedAll], open, "working")
           /\ Over("none")
  BY <1>1, <1>3, ObservedAllOK, EndingWith
<1> QED
  BY <1>2, <1>3 DEF SettleRemediation

LEMMA SettleHygieneStep ==
  ASSUME AInv, SettleHygiene
  PROVE  AInv' /\ Kept
<1>1. ~Idle
  BY DEF SettleHygiene, Idle
<1> DEFINE a == Observe(LastOf(open), open.phase)
<1>2. IsAccount(a) /\ Continues(a, mem.account) /\ LastOf(open) \in a.observed
  BY <1>1, ObserveLastOK
<1>3. Accepted(a) \/ Accepted(ObservedAll) \/ (Over("none") /\ comment' = comment)
  BY DEF SettleHygiene
<1> HIDE DEF a
<1> QED
  BY <1>1, <1>2, <1>3, ObservedAllOK, AcceptedStep, Ending

LEMMA SettleAuditStep ==
  ASSUME AInv, SettleAudit
  PROVE  AInv' /\ Kept
<1>1. ~Idle
  BY DEF SettleAudit, Idle
<1> DEFINE last == LastOf(open)
           before == IF session = "initial" /\ open.ids[1] # last
                     THEN AuditFailed(mem.account, open.ids[1]) ELSE mem.account
<1>2. IsMemory(mem) /\ IsAccount(mem.account) /\ Continues(mem.account, mem.account)
  BY <1>1, Held
<1>3. IsAccount(before) /\ Continues(before, mem.account)
  BY <1>2, AuditFailedOK
<1> DEFINE counted == Observed(before, last, "audit", mem.audits)
           lost == AuditFailed(before, last)
<1>4. \/ Accepted(counted)
      \/ Save([mem EXCEPT !.account = lost], open, "working") /\ Over("none")
  BY DEF SettleAudit
<1> HIDE DEF before
<1>5. IsAccount(counted) /\ Continues(counted, mem.account) /\ last \in counted.observed
  BY <1>2, <1>3, ObserveOK
<1>6. IsAccount(lost) /\ Continues(lost, mem.account)
  <2>1. IsAccount(lost) /\ Continues(lost, before)
    BY <1>3, AuditFailedOK
  <2> HIDE DEF lost
  <2> QED
    BY <1>2, <1>3, <2>1, ContinuesOn
<1> HIDE DEF counted, lost
<1>7. CASE Accepted(counted)
  BY <1>1, <1>5, <1>7, AcceptedStep
<1>8. CASE Save([mem EXCEPT !.account = lost], open, "working") /\ Over("none")
  BY <1>1, <1>6, <1>8, EndingWith
<1> QED
  BY <1>4, <1>7, <1>8

LEMMA ObserveCiStep ==
  ASSUME AInv, ObserveCi
  PROVE  AInv' /\ Kept
<1>1. ~Idle /\ ~Idle' /\ comment' = comment
  BY DEF ObserveCi, Idle
<1> DEFINE a == CiObserved(mem.account, head)
           m == [mem EXCEPT !.account = a]
<1>2. IsAccount(a) /\ Continues(a, mem.account) /\ IsMemory(mem)
  BY <1>1, Held, CiObservedOK
<1>3. mem' = m
  BY DEF ObserveCi
<1> HIDE DEF a
<1>4. IsMemory(m) /\ m.account = a
  BY <1>2, Grown
<1> HIDE DEF m
<1> QED
  BY <1>1, <1>2, <1>3, <1>4, Working

LEMMA PersistStep ==
  ASSUME AInv, Persist
  PROVE  AInv' /\ Kept
<1>1. ~Idle /\ ~Idle' /\ mem' = mem
  BY DEF Persist, Idle
<1>2. \E stage, status : comment' = Saved(mem, stage, status)
  BY DEF Persist, Save
<1> QED
  BY <1>1, <1>2, Held, Working

LEMMA DriftStep ==
  ASSUME AInv, Drift
  PROVE  AInv' /\ Kept
<1>1. ~Idle /\ Over("none")
  BY DEF Drift, Idle
<1>2. IsMemory(mem) /\ Continues(mem.account, mem.account)
  BY <1>1, Held
<1>3. \E m, stage, status : /\ IsMemory(m) /\ Continues(m.account, mem.account)
                            /\ comment' = Saved(m, stage, status)
  BY <1>2 DEF Drift, Save
<1> QED
  BY <1>1, <1>3, Ending

LEMMA FinishStep ==
  ASSUME AInv, NEW status, Finish(status)
  PROVE  AInv' /\ Kept
<1>1. ~Idle /\ ~Idle'
  BY DEF Finish, Idle
<1> DEFINE again == IF mem.audit = 0 THEN mem.account
                    ELSE Observed(mem.account, mem.audit, "audit", mem.audits)
           a == CiObserved(again, head)
           grown == [mem EXCEPT !.account = a]
<1>2. IsMemory(mem) /\ IsAccount(mem.account) /\ Continues(mem.account, mem.account)
  BY <1>1, Held
<1>3. IsAccount(again) /\ Continues(again, mem.account)
  BY <1>2, ObserveOK
<1>4. mem' = mem \/ mem' = grown
  BY DEF Finish
<1>5. \E stage, s : comment' = Saved(mem', stage, s)
  BY DEF Finish, Save
<1> HIDE DEF again
<1>6. IsAccount(a) /\ Continues(a, mem.account)
  <2>1. IsAccount(a) /\ Continues(a, again)
    BY <1>3, CiObservedOK
  <2> HIDE DEF a
  <2> QED
    BY <1>2, <1>3, <2>1, ContinuesOn
<1> HIDE DEF a
<1>7. IsMemory(grown) /\ grown.account = a
  BY <1>2, <1>6, Grown
<1> HIDE DEF grown
<1>8. PICK m : mem' = m /\ IsMemory(m) /\ Continues(m.account, mem.account)
  BY <1>2, <1>4, <1>6, <1>7
<1> QED
  BY <1>1, <1>5, <1>8, Working

LEMMA MeasureStep ==
  ASSUME AInv, Measure
  PROVE  AInv' /\ Kept
<1>1. ~Idle /\ comment' = comment
  BY DEF Measure, Idle
<1>2. CASE at' = "publish" /\ mem' = mem
  <2>1. ~Idle'
    BY <1>2 DEF Idle
  <2> QED
    BY <1>1, <1>2, <2>1, Held, Working
<1>3. CASE Over("none") \/ Over("metrics-error")
  BY <1>1, <1>3, Ending
<1> QED
  BY <1>2, <1>3 DEF Measure

LEMMA BeginInitialStep ==
  ASSUME AInv, BeginInitial
  PROVE  AInv' /\ Kept
<1>1. ~comment.exists /\ comment' = comment /\ ~Idle'
  BY DEF BeginInitial, Idle
<1>2. mem' = [exists |-> TRUE, account |-> NewAccount, done |-> {}, audits |-> 0, audit |-> 0,
              head |-> head]
  BY DEF BeginInitial
<1>3. IsMemory(mem)'
  BY <1>2, NewAccountOK DEF IsMemory
<1>4. mem'.exists = TRUE
  BY <1>2
<1> QED
  BY <1>1, <1>3, <1>4 DEF AInv, StoredOK, HeldOK, Kept, AdvanceIsAccounted

LEMMA BeginResumedStep ==
  ASSUME AInv, BeginResumed
  PROVE  AInv' /\ Kept
<1>1. comment.exists /\ IsAccount(comment.account) /\ comment.done \subseteq comment.account.observed
  BY DEF BeginResumed, AInv, StoredOK, AdvanceIsAccounted
<1> DEFINE held(n) == [exists |-> TRUE, account |-> comment.account, done |-> comment.done,
                       audits |-> comment.audits, head |-> head, audit |-> n]
<1>2. PICK n : mem' = held(n) /\ \E stage, status : comment' = Saved(held(n), stage, status)
  BY DEF BeginResumed, Loaded, Save
<1> DEFINE m == held(n)
<1>3. IsMemory(m) /\ m.account = comment.account
  BY <1>1 DEF IsMemory
<1>4. mem' = m /\ \E stage, status : comment' = Saved(m, stage, status)
  BY <1>2
<1> HIDE DEF m
<1>5. Continues(m.account, comment.account)
  BY <1>1, <1>3, ContinuesSelf
<1>6. PICK stage, status : comment' = Saved(m, stage, status)
  BY <1>4
<1>7. /\ comment'.exists = TRUE /\ comment'.account = m.account
      /\ StoredOK' /\ Kept /\ Continues(m.account, comment'.account)
  BY <1>3, <1>5, <1>6, SaveStep
<1>8. ~Idle' /\ mem'.exists = TRUE
  BY <1>3, <1>4 DEF BeginResumed, Idle, IsMemory
<1>9. HeldOK'
  BY <1>3, <1>4, <1>7 DEF HeldOK
<1> QED
  BY <1>7, <1>8, <1>9 DEF AInv

LEMMA QuietStep ==
  ASSUME AInv, UNCHANGED <<comment, at, mem>>
  PROVE  AInv' /\ Kept
BY KeptSelf DEF AInv, StoredOK, HeldOK, AdvanceIsAccounted, Idle

LEMMA NextStep ==
  ASSUME AInv, [Next]_vars
  PROVE  AInv' /\ Kept
<1>1. CASE BeginInitial \/ BeginResumed
  BY <1>1, BeginInitialStep, BeginResumedStep
<1>2. CASE \/ \E phase \in Phases, outcome \in {"ok", "red", "dead"}, calls \in {0, 1} :
                Dispatch(phase, outcome, calls)
           \/ \E outcome \in {"ok", "red", "dead"}, calls \in {0, 1} :
                Retry(outcome, calls) \/ Rearm(outcome, calls)
  BY <1>2, DispatchStep, RetryStep, RearmStep
<1>3. CASE SettleBootstrap \/ SettleRemediation \/ SettleHygiene \/ SettleAudit
  BY <1>3, SettleBootstrapStep, SettleRemediationStep, SettleHygieneStep, SettleAuditStep
<1>4. CASE ObserveCi \/ Persist \/ Drift \/ Measure
  BY <1>4, ObserveCiStep, PersistStep, DriftStep, MeasureStep
<1>5. CASE \E status \in {"ready", "escalated"} : Finish(status)
  BY <1>5, FinishStep
<1>6. CASE Publish \/ Kill
  <2>1. ~Idle /\ Over("none") /\ comment' = comment
    BY <1>6 DEF Publish, Kill, Idle
  <2> QED
    BY <2>1, Ending
<1>7. CASE ForeignPush \/ OtherPublishes \/ UNCHANGED vars
  <2>1. UNCHANGED <<comment, at, mem>>
    BY <1>7 DEF ForeignPush, OtherPublishes, vars
  <2> QED
    BY <2>1, QuietStep
<1> QED
  BY <1>1, <1>2, <1>3, <1>4, <1>5, <1>6, <1>7 DEF Next

LEMMA InitAInv == Init => AInv
<1> SUFFICES ASSUME Init PROVE AInv
  OBVIOUS
<1>1. Idle /\ mem.exists = FALSE
  BY DEF Init, Idle, NoMemory
<1>2. CASE comment = NoComment
  <2>1. comment.exists = FALSE
    BY <1>2 DEF NoComment
  <2> QED
    BY <1>1, <2>1 DEF AInv, StoredOK, HeldOK
<1>3. ASSUME NEW fields \in BOOLEAN,
             comment = [exists |-> TRUE, account |-> OldAccount(fields), done |-> {1}, audits |-> 0,
                        audit |-> 0, head |-> 1, stage |-> NoStage, status |-> "working"]
      PROVE  AInv
  <2>1. comment.exists = TRUE /\ comment.account = OldAccount(fields) /\ comment.done = {1}
    BY <1>3
  <2>2. StoredOK
    BY <2>1, OldAccountOK DEF StoredOK, AdvanceIsAccounted
  <2> QED
    BY <1>1, <2>1, <2>2 DEF AInv, HeldOK
<1> QED
  BY <1>2, <1>3 DEF Init

LEMMA Invariance == Spec => []AInv
<1>1. AInv /\ [Next]_vars => AInv'
  BY NextStep
<1> QED
  BY <1>1, InitAInv, PTL DEF Spec

\* Whatever session wrote the comment, the next one can read it: the normalization that it
\* starts with (normalizeControllerObservability) does not throw.
THEOREM NextSessionReads == Spec => []StoredReadable
<1>1. AInv => StoredReadable
  BY DEF AInv, StoredOK, IsAccount, StoredReadable
<1> QED
  BY <1>1, Invariance, PTL

\* No result that the comment builds on is missing in the accounting of the same comment,
\* wherever a session was cut off (persist, initializeResumeObservability).
THEOREM NoUnaccountedAdvance == Spec => []AdvanceIsAccounted
<1>1. AInv => AdvanceIsAccounted
  BY DEF AInv, StoredOK, AdvanceIsAccounted
<1> QED
  BY <1>1, Invariance, PTL

\* No session restarts a counter: each write of the comment continues the accumulator that
\* the comment had (recordControllerProviderObservation, recordControllerAuditWorkflowFailure).
THEOREM CountersContinue == Spec => CountersNeverRestart
<1>1. AInv /\ [Next]_vars =>
        [comment.exists =>
           /\ comment.account.observed \subseteq comment'.account.observed
           /\ comment.account.failed \subseteq comment'.account.failed
           /\ comment.account.ledger \subseteq comment'.account.ledger
           /\ comment'.account.calls >= comment.account.calls]_vars
  BY NextStep DEF Kept, Continues
<1> QED
  BY <1>1, Invariance, PTL DEF Spec, CountersNeverRestart

--------------------------------------------------------------------------------
(* The records of other deliveries in the store.                           *)

StoreInv == others \in Nat /\ \A r \in origin : r.pr # 1 => r.pr = 2 /\ r.head \in 0..others

LEMMA OtherRecordIs ==
  ASSUME NEW n
  PROVE  OtherRecord(n).pr = 2 /\ OtherRecord(n).head = n
BY DEF OtherRecord

LEMMA StoreStep ==
  ASSUME StoreInv, [Next]_vars
  PROVE  StoreInv' /\ \A r \in origin : r.pr # 1 => r \in origin'
<1>1. CASE OtherPublishes
  <2> DEFINE new == OtherRecord(others + 1)
  <2>1. new.pr = 2 /\ new.head = others + 1
    BY OtherRecordIs
  <2>2. origin' = {r \in origin : Id(r) # Id(new)} \cup {new} /\ others' = others + 1
    BY <1>1 DEF OtherPublishes, Upserted
  <2> HIDE DEF new
  <2>3. \A r \in origin : r.pr # 1 => Id(r) # Id(new)
    BY <2>1 DEF StoreInv, Id
  <2> QED
    BY <2>1, <2>2, <2>3 DEF StoreInv
<1>2. CASE Publish
  <2>1. origin' = origin \/ origin' = {r \in origin : r.pr # 1} \cup {r \in checkout : r.pr = 1}
    BY <1>2 DEF Publish, Rebased
  <2>2. others' = others
    BY <1>2 DEF Publish
  <2> QED
    BY <2>1, <2>2 DEF StoreInv
<1>3. CASE UNCHANGED <<origin, others>>
  BY <1>3 DEF StoreInv
<1> QED
  BY <1>1, <1>2, <1>3
     DEF Next, vars, BeginInitial, BeginResumed, Dispatch, Retry, Rearm, SettleBootstrap, Accepted,
         SettleRemediation, SettleHygiene, SettleAudit, ObserveCi, Persist, Drift, Finish,
         Measure, Kill, ForeignPush

LEMMA InitStore == Init => StoreInv
<1> SUFFICES ASSUME Init PROVE StoreInv
  OBVIOUS
<1>1. \A r \in OldRecords : r.pr = 2 /\ r.head = 0
  BY DEF OldRecords, OtherRecord
<1> QED
  BY <1>1 DEF Init, StoreInv

\* The publication step rebases and never takes another delivery's record out of the store.
THEOREM OtherRecordsStay == Spec => OthersKept
<1>1. StoreInv /\ [Next]_vars => StoreInv'
  BY StoreStep
<1>2. StoreInv /\ [Next]_vars => [\A r \in origin : r.pr # 1 => r \in origin']_vars
  BY StoreStep
<1> QED
  BY <1>1, <1>2, InitStore, PTL DEF Spec, OthersKept

--------------------------------------------------------------------------------
(* The types, and that every run is counted once.                          *)

RunsOK ==
  /\ runs \in Seq(ProviderRuns) /\ Len(runs) <= MaxRuns
  /\ head \in Heads /\ others \in 0..MaxOthers

Audits(ids) == {id \in ids : runs[id].phase = "audit"}

\* An accumulator of runs of this delivery, that counts the runs without calls and, while its
\* accounting is complete, the audits.  A lost audit that is found again is counted twice.
Counted(a) ==
  /\ IsAccount(a)
  /\ a.observed \cup a.failed \subseteq 1..Len(runs)
  /\ a.ledger \subseteq Entries /\ a.ci \subseteq 1..head
  /\ {a.ledgerWhole, a.whole, a.ciWhole} \subseteq BOOLEAN
  /\ a.zero = Cardinality(a.observed \ a.ids)
  /\ a.audit \in Nat /\ a.audit <= Cardinality(a.observed) + Cardinality(a.failed)
  /\ a.whole = TRUE => a.audit = Cardinality(Audits(a.observed))

\* The sets of runs are finite, and no larger than the delivery.
LEMMA RunSets ==
  ASSUME RunsOK, NEW ids \in SUBSET (1..Len(runs))
  PROVE  IsFiniteSet(ids) /\ Cardinality(ids) \in 0..Len(runs)
<1>1. Len(runs) \in Nat
  BY DEF RunsOK
<1>2. IsFiniteSet(1..Len(runs)) /\ Cardinality(1..Len(runs)) = Len(runs)
  BY <1>1, FS_Interval
<1>3. IsFiniteSet(ids) /\ Cardinality(ids) <= Cardinality(1..Len(runs))
  BY <1>2, FS_Subset
<1> QED
  BY <1>1, <1>2, <1>3, FS_CardinalityType

LEMMA NewAccountCounted ==
  ASSUME RunsOK
  PROVE  Counted(NewAccount)
<1>1. /\ NewAccount.observed = {} /\ NewAccount.ids = {} /\ NewAccount.failed = {}
      /\ NewAccount.ledger = {} /\ NewAccount.ci = {}
      /\ NewAccount.zero = 0 /\ NewAccount.audit = 0
      /\ NewAccount.ledgerWhole = TRUE /\ NewAccount.whole = TRUE /\ NewAccount.ciWhole = TRUE
  BY DEF NewAccount
<1>2. Audits({}) = {} /\ {} \ {} = {}
  BY DEF Audits
<1>3. Cardinality({}) = 0
  BY FS_EmptySet
<1>4. NewAccount.observed \cup NewAccount.failed \subseteq 1..Len(runs)
  BY <1>1, <1>2, <1>3
<1>5. NewAccount.ledger \subseteq Entries /\ NewAccount.ci \subseteq 1..head
  BY <1>1, <1>2, <1>3
<1>6. {NewAccount.ledgerWhole, NewAccount.whole, NewAccount.ciWhole} \subseteq BOOLEAN
  BY <1>1, <1>2, <1>3
<1>7. NewAccount.zero = Cardinality(NewAccount.observed \ NewAccount.ids)
  BY <1>1, <1>2, <1>3
<1>8. /\ NewAccount.audit \in Nat
      /\ NewAccount.audit <= Cardinality(NewAccount.observed) + Cardinality(NewAccount.failed)
  BY <1>1, <1>2, <1>3
<1>9. NewAccount.whole = TRUE => NewAccount.audit = Cardinality(Audits(NewAccount.observed))
  BY <1>1, <1>2, <1>3
<1> QED
  BY <1>4, <1>5, <1>6, <1>7, <1>8, <1>9, NewAccountOK DEF Counted

LEMMA OldAccountCounted ==
  ASSUME RunsOK, Len(runs) = 1, runs[1].phase = "implementation", NEW fields \in BOOLEAN
  PROVE  Counted(OldAccount(fields))
<1> DEFINE a == OldAccount(fields)
<1>1. /\ a.observed = {1} /\ a.ids = {1} /\ a.failed = {} /\ a.ledger = {} /\ a.ci = {}
      /\ a.zero = 0 /\ a.audit = 0
      /\ a.ledgerWhole = FALSE /\ a.whole = fields /\ a.ciWhole = fields
  BY DEF OldAccount, NewAccount
<1>2. Audits({1}) = {} /\ {1} \ {1} = {}
  BY DEF Audits
<1>3. Cardinality({}) = 0 /\ Cardinality({1}) = 1
  BY FS_EmptySet, FS_Singleton
<1>4. IsAccount(a)
  BY OldAccountOK
<1> HIDE DEF a
<1>5. a.observed \cup a.failed \subseteq 1..Len(runs)
  BY <1>1, <1>2, <1>3
<1>6. a.ledger \subseteq Entries /\ a.ci \subseteq 1..head
  BY <1>1, <1>2, <1>3
<1>7. {a.ledgerWhole, a.whole, a.ciWhole} \subseteq BOOLEAN
  BY <1>1, <1>2, <1>3
<1>8. a.zero = Cardinality(a.observed \ a.ids)
  BY <1>1, <1>2, <1>3
<1>9. a.audit \in Nat /\ a.audit <= Cardinality(a.observed) + Cardinality(a.failed)
  BY <1>1, <1>2, <1>3
<1>10. a.whole = TRUE => a.audit = Cardinality(Audits(a.observed))
  BY <1>1, <1>2, <1>3
<1>11. Counted(a)
  BY <1>4, <1>5, <1>6, <1>7, <1>8, <1>9, <1>10 DEF Counted
<1> QED
  BY <1>11 DEF a

LEMMA ObservedCounted ==
  ASSUME RunsOK, NEW a, Counted(a), NEW id \in 1..Len(runs), NEW phase \in Phases,
         phase = "audit" <=> runs[id].phase = "audit", NEW attempt \in 0..MaxRuns
  PROVE  Counted(Observed(a, id, phase, attempt))
<1> DEFINE b == Observed(a, id, phase, attempt)
           timed == [a EXCEPT !.observed = @ \cup {id},
                              !.audit = IF phase = "audit" THEN @ + 1 ELSE @]
           entry == [run |-> id, phase |-> LedgerPhase(phase), attempt |-> attempt]
           full == [timed EXCEPT !.calls = @ + 1, !.ids = @ \cup {id}, !.ledger = @ \cup {entry}]
           zero == [timed EXCEPT !.zero = @ + 1]
           more == IF phase = "audit" THEN a.audit + 1 ELSE a.audit
<1>1. CASE Seen(a, id)
  BY <1>1 DEF Observed
<1>2. CASE ~Seen(a, id)
  <2>1. b = zero \/ b = full
    BY <1>2 DEF Observed
  <2>2. id \notin a.observed /\ id \notin a.ids /\ a.ids \subseteq a.observed
    BY <1>2 DEF Seen, Counted, IsAccount, Readable
  <2>3. IsAccount(b) /\ DOMAIN a = Fields
    BY ObservedOK DEF Counted, IsAccount
  <2>4. /\ timed.ids = a.ids /\ timed.observed = a.observed \cup {id}
        /\ timed.ledger = a.ledger /\ timed.ledgerWhole = a.ledgerWhole /\ timed.whole = a.whole
        /\ timed.failed = a.failed /\ timed.ci = a.ci /\ timed.ciWhole = a.ciWhole
        /\ timed.zero = a.zero /\ timed.audit = more
        /\ DOMAIN timed = Fields
    BY <2>3 DEF Fields
  <2> HIDE DEF timed
  <2>5. /\ b.observed = a.observed \cup {id}
        /\ b.ledgerWhole = a.ledgerWhole /\ b.whole = a.whole
        /\ b.failed = a.failed /\ b.ci = a.ci /\ b.ciWhole = a.ciWhole /\ b.audit = more
        /\ \/ b.ids = a.ids /\ b.ledger = a.ledger /\ b.zero = a.zero + 1
           \/ b.ids = a.ids \cup {id} /\ b.ledger = a.ledger \cup {entry} /\ b.zero = a.zero
    <3>1. CASE b = zero
      BY <2>4, <3>1 DEF Fields
    <3>2. CASE b = full
      BY <2>4, <3>2 DEF Fields
    <3> QED
      BY <2>1, <3>1, <3>2
  <2>6. entry \in Entries
    <3>1. LedgerPhase(phase) \in Phases
      BY DEF LedgerPhase, Phases
    <3>2. id \in RunIds
      BY BoundsAssumption DEF RunsOK, RunIds
    <3> QED
      BY <3>1, <3>2 DEF Entries
  <2> HIDE DEF b, entry
  <2>7. /\ a.observed \in SUBSET (1..Len(runs)) /\ a.failed \in SUBSET (1..Len(runs))
        /\ a.observed \ a.ids \in SUBSET (1..Len(runs))
        /\ Audits(a.observed) \in SUBSET (1..Len(runs))
    BY DEF Counted, Audits
  <2>8. /\ IsFiniteSet(a.observed) /\ IsFiniteSet(a.observed \ a.ids)
        /\ IsFiniteSet(Audits(a.observed))
        /\ Cardinality(a.observed) \in Nat /\ Cardinality(a.failed) \in Nat
        /\ Cardinality(a.observed \ a.ids) \in Nat /\ Cardinality(Audits(a.observed)) \in Nat
    BY <2>7, RunSets
  <2>9. Cardinality(b.observed) = Cardinality(a.observed) + 1
    BY <2>2, <2>5, <2>8, FS_AddElement
  <2>10. b.zero = Cardinality(b.observed \ b.ids)
    <3>1. CASE b.ids = a.ids /\ b.zero = a.zero + 1
      <4>1. b.observed \ b.ids = (a.observed \ a.ids) \cup {id} /\ id \notin a.observed \ a.ids
        BY <2>2, <2>5, <3>1
      <4>2. Cardinality((a.observed \ a.ids) \cup {id}) = Cardinality(a.observed \ a.ids) + 1
        BY <2>8, <4>1, FS_AddElement
      <4> QED
        BY <3>1, <4>1, <4>2 DEF Counted
    <3>2. CASE b.ids = a.ids \cup {id} /\ b.zero = a.zero
      <4>1. b.observed \ b.ids = a.observed \ a.ids
        BY <2>2, <2>5, <3>2
      <4> QED
        BY <3>2, <4>1 DEF Counted
    <3> QED
      BY <2>5, <3>1, <3>2
  <2>11. a.whole = TRUE => more = Cardinality(Audits(b.observed))
    <3>1. CASE phase = "audit"
      <4>1. Audits(b.observed) = Audits(a.observed) \cup {id} /\ id \notin Audits(a.observed)
        BY <2>2, <2>5, <3>1 DEF Audits
      <4>2. Cardinality(Audits(a.observed) \cup {id}) = Cardinality(Audits(a.observed)) + 1
        BY <2>8, <4>1, FS_AddElement
      <4> QED
        BY <3>1, <4>1, <4>2 DEF Counted
    <3>2. CASE phase # "audit"
      <4>1. Audits(b.observed) = Audits(a.observed)
        BY <2>5, <3>2 DEF Audits
      <4> QED
        BY <3>2, <4>1 DEF Counted
    <3> QED
      BY <3>1, <3>2
  <2>12. more \in Nat /\ more <= Cardinality(b.observed) + Cardinality(b.failed)
    BY <2>5, <2>8, <2>9 DEF Counted
  <2>13. b.observed \cup b.failed \subseteq 1..Len(runs) /\ b.ledger \subseteq Entries
    BY <2>5, <2>6 DEF Counted
  <2>14. b.observed \cup b.failed \subseteq 1..Len(runs)
    BY <2>5, <2>10, <2>11, <2>12, <2>13 DEF Counted
  <2>15. b.ledger \subseteq Entries /\ b.ci \subseteq 1..head
    BY <2>5, <2>10, <2>11, <2>12, <2>13 DEF Counted
  <2>16. {b.ledgerWhole, b.whole, b.ciWhole} \subseteq BOOLEAN
    BY <2>5, <2>10, <2>11, <2>12, <2>13 DEF Counted
  <2>17. b.zero = Cardinality(b.observed \ b.ids)
    BY <2>5, <2>10, <2>11, <2>12, <2>13 DEF Counted
  <2>18. b.audit \in Nat /\ b.audit <= Cardinality(b.observed) + Cardinality(b.failed)
    BY <2>5, <2>10, <2>11, <2>12, <2>13 DEF Counted
  <2>19. b.whole = TRUE => b.audit = Cardinality(Audits(b.observed))
    BY <2>5, <2>10, <2>11, <2>12, <2>13 DEF Counted
  <2>20. Counted(b)
    BY <2>3, <2>14, <2>15, <2>16, <2>17, <2>18, <2>19 DEF Counted
  <2> QED
    BY <2>20 DEF b
<1> QED
  BY <1>1, <1>2

LEMMA AuditFailedCounted ==
  ASSUME RunsOK, NEW a, Counted(a), NEW id \in 1..Len(runs)
  PROVE  Counted(AuditFailed(a, id))
<1> DEFINE b == [a EXCEPT !.whole = FALSE, !.failed = @ \cup {id}, !.audit = @ + 1]
<1>1. CASE id \in a.observed \cup a.failed
  BY <1>1 DEF AuditFailed
<1>2. CASE id \notin a.observed \cup a.failed
  <2>1. AuditFailed(a, id) = b
    BY <1>2 DEF AuditFailed
  <2>2. IsAccount(b)
    BY <2>1, AuditFailedOK DEF Counted
  <2>3. /\ b.ids = a.ids /\ b.observed = a.observed /\ b.ledger = a.ledger /\ b.zero = a.zero
        /\ b.ledgerWhole = a.ledgerWhole /\ b.ci = a.ci /\ b.ciWhole = a.ciWhole
        /\ b.whole = FALSE /\ b.failed = a.failed \cup {id} /\ b.audit = a.audit + 1
    BY DEF Counted, IsAccount, Fields
  <2> HIDE DEF b
  <2>4. a.observed \in SUBSET (1..Len(runs)) /\ a.failed \in SUBSET (1..Len(runs))
    BY DEF Counted
  <2>5. /\ IsFiniteSet(a.failed) /\ Cardinality(a.failed) \in Nat
        /\ Cardinality(a.observed) \in Nat
    BY <2>4, RunSets
  <2>6. Cardinality(b.failed) = Cardinality(a.failed) + 1
    BY <1>2, <2>3, <2>5, FS_AddElement
  <2>7. b.observed \cup b.failed \subseteq 1..Len(runs)
    BY <2>3, <2>5, <2>6 DEF Counted
  <2>8. b.ledger \subseteq Entries /\ b.ci \subseteq 1..head
    BY <2>3, <2>5, <2>6 DEF Counted
  <2>9. {b.ledgerWhole, b.whole, b.ciWhole} \subseteq BOOLEAN
    BY <2>3, <2>5, <2>6 DEF Counted
  <2>10. b.zero = Cardinality(b.observed \ b.ids)
    BY <2>3, <2>5, <2>6 DEF Counted
  <2>11. b.audit \in Nat /\ b.audit <= Cardinality(b.observed) + Cardinality(b.failed)
    BY <2>3, <2>5, <2>6 DEF Counted
  <2>12. b.whole = TRUE => b.audit = Cardinality(Audits(b.observed))
    BY <2>3, <2>5, <2>6 DEF Counted
  <2>13. Counted(b)
    BY <2>2, <2>7, <2>8, <2>9, <2>10, <2>11, <2>12 DEF Counted
  <2> QED
    BY <2>1, <2>13
<1> QED
  BY <1>1, <1>2

LEMMA CiObservedCounted ==
  ASSUME RunsOK, NEW a, Counted(a)
  PROVE  Counted(CiObserved(a, head))
<1> DEFINE b == CiObserved(a, head)
<1>1. IsAccount(b)
  BY CiObservedOK DEF Counted
<1>2. /\ b.ids = a.ids /\ b.observed = a.observed /\ b.ledger = a.ledger /\ b.zero = a.zero
      /\ b.ledgerWhole = a.ledgerWhole /\ b.ciWhole = a.ciWhole /\ b.whole = a.whole
      /\ b.failed = a.failed /\ b.audit = a.audit /\ b.ci = a.ci \cup {head}
  BY DEF CiObserved, Counted, IsAccount, Fields
<1>3. head \in 1..head
  BY DEF RunsOK, Heads
<1> HIDE DEF b
<1>4. b.observed \cup b.failed \subseteq 1..Len(runs)
  BY <1>2, <1>3 DEF Counted
<1>5. b.ledger \subseteq Entries /\ b.ci \subseteq 1..head
  BY <1>2, <1>3 DEF Counted
<1>6. {b.ledgerWhole, b.whole, b.ciWhole} \subseteq BOOLEAN
  BY <1>2, <1>3 DEF Counted
<1>7. b.zero = Cardinality(b.observed \ b.ids)
  BY <1>2, <1>3 DEF Counted
<1>8. b.audit \in Nat /\ b.audit <= Cardinality(b.observed) + Cardinality(b.failed)
  BY <1>2, <1>3 DEF Counted
<1>9. b.whole = TRUE => b.audit = Cardinality(Audits(b.observed))
  BY <1>2, <1>3 DEF Counted
<1>10. Counted(b)
  BY <1>1, <1>4, <1>5, <1>6, <1>7, <1>8, <1>9 DEF Counted
<1> QED
  BY <1>10 DEF b

\* A run of this delivery, an audit exactly if its stage is one.
OfPhase(i, phase) == i \in 1..Len(runs) /\ (runs[i].phase = "audit" <=> phase = "audit")

Ways == {"fresh", "adopted", "rearmed"}

\* A stage waits for one run, or for two after its retry.
StageTyped(s) ==
  \/ s = NoStage
  \/ /\ DOMAIN s = {"phase", "ids", "way", "retried"}
     /\ s.phase \in Phases /\ s.way \in Ways /\ s.retried \in BOOLEAN
     /\ \E i, j : /\ OfPhase(i, s.phase) /\ OfPhase(j, s.phase)
                  /\ s.ids = <<i>> \/ (s.ids = <<i, j>> /\ s.retried = TRUE)

\* What a session holds, and what it stores.  Every audit that was launched is a run.
MemTyped(m) ==
  /\ Counted(m.account)
  /\ m.audits \in 0..Len(runs)
  /\ m.audit \in 0..Len(runs)
  /\ m.audit # 0 => runs[m.audit].phase = "audit"
  /\ m.head \in 1..head

Statuses == {"working", "ready", "escalated"}
Places == {"none", "bootstrap", "waiting", "settled", "loop", "metrics", "metrics-error", "publish"}

Placed ==
  /\ session \in {"none", "initial", "resumed"} /\ at \in Places
  /\ session = "none" <=> Idle
  /\ at = "waiting" <=> open # NoStage
HeldTyped == mem.exists = TRUE => MemTyped(mem)
StoredTyped ==
  comment.exists = TRUE =>
    MemTyped(comment) /\ StageTyped(comment.stage) /\ comment.status \in Statuses
\* The first comment is written when the bootstrap worker has succeeded.
Uncommented ==
  comment.exists # TRUE => \A i \in 1..Len(runs) : runs[i].phase = "implementation"

TInv ==
  RunsOK /\ Placed /\ HeldTyped /\ StoredTyped /\ Uncommented /\ StageTyped(open)

\* Runs are only added, and the head only advances.
Grows ==
  /\ RunsOK'
  /\ Len(runs') >= Len(runs) /\ \A i \in 1..Len(runs) : runs'[i] = runs[i]
  /\ head' >= head

LEMMA RunAdded ==
  ASSUME RunsOK, Len(runs) < MaxRuns, NEW r \in ProviderRuns, runs' = Append(runs, r),
         head' = head, others' = others
  PROVE  /\ Grows
         /\ Len(runs') = Len(runs) + 1 /\ runs'[Len(runs) + 1] = r
<1>1. runs \in Seq(ProviderRuns) /\ Len(runs) \in Nat
  BY DEF RunsOK
<1>2. /\ runs' \in Seq(ProviderRuns) /\ Len(runs') = Len(runs) + 1
      /\ runs'[Len(runs) + 1] = r /\ \A i \in 1..Len(runs) : runs'[i] = runs[i]
  BY <1>1
<1>3. Len(runs') <= MaxRuns
  BY <1>1, <1>2, BoundsAssumption
<1>4. head' >= head
  BY DEF RunsOK, Heads
<1> QED
  BY <1>1, <1>2, <1>3, <1>4 DEF RunsOK, Grows

LEMMA HeadOnly ==
  ASSUME RunsOK, runs' = runs, head' = head \/ (head < MaxHeads /\ head' = head + 1),
         others' = others \/ (others < MaxOthers /\ others' = others + 1)
  PROVE  Grows
<1>1. head' \in Heads /\ head' >= head
  BY BoundsAssumption DEF RunsOK, Heads
<1>2. others' \in 0..MaxOthers
  BY BoundsAssumption DEF RunsOK
<1> QED
  BY <1>1, <1>2 DEF RunsOK, Grows

LEMMA CountedLater ==
  ASSUME RunsOK, Grows, NEW a, Counted(a)
  PROVE  Counted(a)'
<1>1. Len(runs) \in Nat /\ Len(runs') \in Nat /\ head \in Nat /\ head' \in Nat
  BY DEF RunsOK, Grows, Heads
<1>2. 1..Len(runs) \subseteq 1..Len(runs') /\ 1..head \subseteq 1..head'
  BY <1>1 DEF Grows
<1>3. Audits(a.observed)' = Audits(a.observed)
  BY DEF Audits, Counted, Grows
<1>4. IsAccount(a)' /\ a.ledger \subseteq Entries
  BY DEF Counted, IsAccount, Readable
<1>5. a.observed \cup a.failed \subseteq 1..Len(runs') /\ a.ci \subseteq 1..head'
  BY <1>2 DEF Counted
<1> QED
  BY <1>3, <1>4, <1>5 DEF Counted

LEMMA MemLater ==
  ASSUME RunsOK, Grows, NEW m, MemTyped(m)
  PROVE  MemTyped(m)'
<1>1. Len(runs) \in Nat /\ Len(runs') \in Nat /\ head \in Nat /\ head' \in Nat
  BY DEF RunsOK, Grows, Heads
<1>2. Counted(m.account)'
  BY CountedLater DEF MemTyped
<1>3. m.audits \in 0..Len(runs') /\ m.audit \in 0..Len(runs') /\ m.head \in 1..head'
  BY <1>1 DEF MemTyped, Grows
<1>4. m.audit # 0 => runs'[m.audit].phase = "audit"
  BY <1>1 DEF MemTyped, Grows
<1> QED
  BY <1>2, <1>3, <1>4 DEF MemTyped

LEMMA StageLater ==
  ASSUME RunsOK, Grows, NEW s, StageTyped(s)
  PROVE  StageTyped(s)'
<1>1. Len(runs) \in Nat /\ Len(runs') \in Nat
  BY DEF RunsOK, Grows
<1>2. \A i, phase : OfPhase(i, phase) => OfPhase(i, phase)'
  BY <1>1 DEF OfPhase, Grows
<1> QED
  BY <1>2 DEF StageTyped

LEMMA StoredLater ==
  ASSUME RunsOK, Grows, StoredTyped, comment' = comment
  PROVE  StoredTyped'
<1>1. CASE comment.exists = TRUE
  <2>1. PICK c : c = comment
    OBVIOUS
  <2>2. MemTyped(c)' /\ StageTyped(c.stage)' /\ c.status \in Statuses
    BY <1>1, <2>1, MemLater, StageLater DEF StoredTyped
  <2>3. comment' = c
    BY <2>1
  <2> QED
    BY <2>2, <2>3 DEF StoredTyped
<1>2. CASE comment.exists # TRUE
  BY <1>2 DEF StoredTyped
<1> QED
  BY <1>1, <1>2

LEMMA OpenLater ==
  ASSUME RunsOK, Grows, StageTyped(open), open' = open
  PROVE  StageTyped(open)'
<1>1. PICK s : s = open
  OBVIOUS
<1>2. StageTyped(s)'
  BY <1>1, StageLater
<1> QED
  BY <1>1, <1>2

LEMMA StoredStageLater ==
  ASSUME RunsOK, Grows, NEW s, StageTyped(s)'
  PROVE  StageTyped(Stored(s))'
<1>1. CASE s = NoStage
  BY <1>1 DEF Stored
<1>2. CASE s # NoStage
  <2>1. PICK i, j : /\ OfPhase(i, s.phase)' /\ OfPhase(j, s.phase)'
                    /\ s.ids = <<i>> \/ (s.ids = <<i, j>> /\ s.retried = TRUE)
    BY <1>2 DEF StageTyped
  <2>2. PICK k : OfPhase(k, s.phase)' /\ s.ids[Len(s.ids)] = k
    <3>1. CASE s.ids = <<i>>
      BY <2>1, <3>1
    <3>2. CASE s.ids = <<i, j>>
      BY <2>1, <3>2
    <3> QED
      BY <2>1, <3>1, <3>2
  <2> DEFINE t == [s EXCEPT !.ids = <<k>>, !.way = "adopted"]
  <2>3. Stored(s) = t
    BY <1>2, <2>2 DEF Stored
  <2>4. /\ DOMAIN t = {"phase", "ids", "way", "retried"}
        /\ t.phase = s.phase /\ t.way = "adopted" /\ t.retried = s.retried /\ t.ids = <<k>>
        /\ s.phase \in Phases /\ s.retried \in BOOLEAN
    BY <1>2 DEF StageTyped
  <2> HIDE DEF t
  <2>5. StageTyped(t)'
    BY <2>2, <2>4 DEF StageTyped, Ways
  <2>6. Stored(s)' = t
    BY <2>3 DEF Stored
  <2> QED
    BY <2>5, <2>6 
<1> QED
  BY <1>1, <1>2

\* What a session writes.
LEMMA SaveTyped ==
  ASSUME RunsOK, Grows, NEW m, MemTyped(m)', NEW stage, StageTyped(stage)',
         NEW status \in Statuses, comment' = Saved(m, stage, status)
  PROVE  StoredTyped' /\ Uncommented' /\ comment'.exists = TRUE
<1> DEFINE c == Saved(m, stage, status)
<1>1. /\ c.exists = TRUE /\ c.account = m.account /\ c.audits = m.audits /\ c.audit = m.audit
      /\ c.head = m.head /\ c.stage = Stored(stage) /\ c.status = status
  BY DEF Saved
<1>2. comment' = c
  OBVIOUS
<1> HIDE DEF c
<1>3. PICK t : t = Stored(stage) /\ StageTyped(t)'
  BY StoredStageLater DEF Stored
<1>4. MemTyped(c)' /\ c.stage = t
  BY <1>1, <1>3 DEF MemTyped, Counted, IsAccount, Readable, Audits
<1> QED
  BY <1>1, <1>2, <1>3, <1>4 DEF StoredTyped, Uncommented

--------------------------------------------------------------------------------
(* Every step keeps the types.                                             *)

LEMMA HeldMem ==
  ASSUME AInv, TInv, ~Idle
  PROVE  IsMemory(mem) /\ MemTyped(mem) /\ Counted(mem.account) /\ mem.audits \in 0..Len(runs)
<1>1. IsMemory(mem)
  BY Held
<1>2. MemTyped(mem)
  BY <1>1 DEF IsMemory, TInv, HeldTyped
<1> QED
  BY <1>1, <1>2 DEF MemTyped

LEMMA WaitedFor ==
  ASSUME TInv, at = "waiting"
  PROVE  /\ open.phase \in Phases
         /\ OfPhase(open.ids[1], open.phase) /\ OfPhase(LastOf(open), open.phase)
         /\ DOMAIN open = {"phase", "ids", "way", "retried"}
         /\ open.way \in Ways /\ open.retried \in BOOLEAN
         /\ ~open.retried => \E i : open.ids = <<i>> /\ OfPhase(i, open.phase)
<1>1. open # NoStage /\ StageTyped(open)
  BY DEF TInv, Placed
<1>2. PICK i, j : /\ OfPhase(i, open.phase) /\ OfPhase(j, open.phase)
                  /\ open.ids = <<i>> \/ (open.ids = <<i, j>> /\ open.retried = TRUE)
  BY <1>1 DEF StageTyped
<1>3. CASE open.ids = <<i>>
  <2>1. Len(open.ids) = 1 /\ open.ids[1] = i
    BY <1>3
  <2> QED
    BY <1>1, <1>2, <1>3, <2>1 DEF StageTyped, LastOf
<1>4. CASE open.ids = <<i, j>> /\ open.retried = TRUE
  <2>1. Len(open.ids) = 2 /\ open.ids[1] = i /\ open.ids[2] = j
    BY <1>4
  <2> QED
    BY <1>1, <1>2, <1>4, <2>1 DEF StageTyped, LastOf
<1> QED
  BY <1>2, <1>3, <1>4

LEMMA ObservedRun ==
  ASSUME RunsOK, NEW a, Counted(a), NEW phase \in Phases, NEW id, OfPhase(id, phase),
         NEW attempt \in 0..Len(runs)
  PROVE  Counted(Observed(a, id, phase, attempt))
<1>1. attempt \in 0..MaxRuns
  BY BoundsAssumption DEF RunsOK
<1> QED
  BY <1>1, ObservedCounted DEF OfPhase

LEMMA ObservedStage ==
  ASSUME AInv, TInv, at = "waiting"
  PROVE  Counted(Observe(LastOf(open), open.phase)) /\ Counted(ObservedAll)
<1>1. Counted(mem.account) /\ mem.audits \in 0..Len(runs) /\ RunsOK
  BY HeldMem DEF Idle, TInv
<1>2. /\ open.phase \in Phases
      /\ OfPhase(open.ids[1], open.phase) /\ OfPhase(LastOf(open), open.phase)
  BY WaitedFor
<1>3. Counted(Observe(LastOf(open), open.phase)) /\ Counted(Observe(open.ids[1], open.phase))
  BY <1>1, <1>2, ObservedRun DEF Observe
<1> QED
  BY <1>1, <1>2, <1>3, ObservedRun DEF ObservedAll

LEMMA MemWith ==
  ASSUME NEW m, IsMemory(m), MemTyped(m), NEW a, Counted(a)
  PROVE  MemTyped([m EXCEPT !.account = a])
<1> DEFINE n == [m EXCEPT !.account = a]
<1>1. n.account = a /\ n.audits = m.audits /\ n.audit = m.audit /\ n.head = m.head
  BY DEF IsMemory
<1> HIDE DEF n
<1>2. MemTyped(n)
  BY <1>1 DEF MemTyped
<1> QED
  BY <1>2 DEF n

LEMMA EndTyped ==
  ASSUME NEW where \in {"none", "metrics-error"}, Over(where)
  PROVE  Placed' /\ HeldTyped' /\ StageTyped(open)'
BY DEF Over, Placed, HeldTyped, StageTyped, NoMemory, Idle, Places

LEMMA BeginInitialTypes ==
  ASSUME AInv, TInv, BeginInitial
  PROVE  TInv'
<1>1. RunsOK /\ Uncommented /\ comment.exists = FALSE /\ Grows
  BY HeadOnly DEF TInv, AInv, BeginInitial
<1> DEFINE m == [exists |-> TRUE, account |-> NewAccount, done |-> {}, audits |-> 0, audit |-> 0,
                 head |-> head]
<1>2. MemTyped(m)
  <2>1. Len(runs) \in Nat /\ head \in 1..head
    BY <1>1 DEF RunsOK, Heads
  <2>2. Counted(NewAccount)
    BY <1>1, NewAccountCounted
  <2> QED
    BY <2>1, <2>2 DEF MemTyped
<1>3. mem' = m
  BY DEF BeginInitial
<1> HIDE DEF m
<1>4. PICK n : n = m
  OBVIOUS
<1>5. HeldTyped'
  <2>1. MemTyped(n)'
    BY <1>1, <1>2, <1>4, MemLater
  <2> QED
    BY <1>3, <1>4, <2>1 DEF HeldTyped
<1>6. StoredTyped' /\ Uncommented'
  BY <1>1 DEF BeginInitial, StoredTyped, Uncommented
<1>7. CASE at' = "bootstrap" /\ open' = NoStage
  BY <1>1, <1>5, <1>6, <1>7 DEF BeginInitial, TInv, Placed, Idle, Places, StageTyped, Grows
<1>8. CASE /\ runs # <<>> /\ at' = "waiting"
           /\ open' = [phase |-> "implementation", ids |-> <<Len(runs)>>, way |-> "adopted",
                       retried |-> FALSE]
  <2>1. PICK i : i = Len(runs) /\ i \in 1..Len(runs)
    BY <1>1, <1>8 DEF RunsOK
  <2>2. OfPhase(i, "implementation")'
    BY <1>1, <2>1 DEF OfPhase, Uncommented, BeginInitial
  <2>3. /\ DOMAIN open' = {"phase", "ids", "way", "retried"} /\ open'.phase = "implementation"
        /\ open'.ids = <<i>> /\ open'.way = "adopted" /\ open'.retried = FALSE
    BY <1>8, <2>1
  <2>4. StageTyped(open)'
    BY <2>2, <2>3 DEF StageTyped, Phases, Ways
  <2>5. open' # NoStage
    BY <2>3 DEF NoStage
  <2> QED
    BY <1>1, <1>5, <1>6, <1>8, <2>4, <2>5 DEF BeginInitial, TInv, Placed, Idle, Places, Grows
<1> QED
  BY <1>7, <1>8 DEF BeginInitial

LEMMA BeginResumedTypes ==
  ASSUME AInv, TInv, BeginResumed
  PROVE  TInv'
<1>1. RunsOK /\ comment.exists = TRUE /\ Grows
  BY HeadOnly DEF TInv, AInv, BeginResumed
<1>2. MemTyped(comment) /\ StageTyped(comment.stage)
  BY <1>1 DEF TInv, StoredTyped
<1> DEFINE stage == IF comment.head = head \/ comment.stage.phase = "remediation"
                    THEN comment.stage ELSE NoStage
           m == [exists |-> TRUE, account |-> comment.account, done |-> comment.done,
                 audits |-> comment.audits, head |-> head,
                 audit |-> IF comment.head = head THEN comment.audit ELSE 0]
<1>3. StageTyped(stage)
  BY <1>2 DEF StageTyped
<1>4. MemTyped(m)
  <2>1. Len(runs) \in Nat /\ head \in 1..head
    BY <1>1 DEF RunsOK, Heads
  <2>2. /\ m.account = comment.account /\ m.audits = comment.audits /\ m.head = head
        /\ m.audit = comment.audit \/ m.audit = 0
    OBVIOUS
  <2> HIDE DEF m
  <2> QED
    BY <1>2, <2>1, <2>2 DEF MemTyped
<1>5. /\ mem' = m /\ open' = stage /\ comment' = Saved(m, stage, "working")
      /\ at' = IF stage = NoStage THEN "loop" ELSE "waiting"
  BY DEF BeginResumed, Loaded, Save
<1> HIDE DEF m, stage
<1>6. PICK n, s : n = m /\ s = stage
  OBVIOUS
<1>7. MemTyped(n)' /\ StageTyped(s)'
  BY <1>1, <1>3, <1>4, <1>6, MemLater, StageLater
<1>8. StoredTyped' /\ Uncommented'
  BY <1>1, <1>5, <1>6, <1>7, SaveTyped DEF Statuses
<1>9. HeldTyped' /\ StageTyped(open)'
  BY <1>5, <1>6, <1>7 DEF HeldTyped
<1>10. Placed'
  BY <1>5 DEF BeginResumed, Placed, Idle, Places
<1> QED
  BY <1>1, <1>8, <1>9, <1>10 DEF TInv, Grows

LEMMA DispatchTypes ==
  ASSUME AInv, TInv, NEW phase \in Phases, NEW outcome \in {"ok", "red", "dead"},
         NEW calls \in {0, 1}, Dispatch(phase, outcome, calls)
  PROVE  TInv'
<1> DEFINE r == [phase |-> phase, outcome |-> outcome, calls |-> calls]
<1>1. RunsOK /\ ~Idle
  BY DEF TInv, Dispatch, Idle
<1>2. r \in ProviderRuns
  BY DEF ProviderRuns
<1>3. PICK i : /\ i = Len(runs) + 1 /\ Grows /\ Len(runs') = i /\ runs'[i] = r
               /\ Len(runs) \in Nat
  BY <1>1, <1>2, RunAdded DEF Dispatch, RunsOK
<1>4. r.phase = phase
  OBVIOUS
<1>5. OfPhase(i, phase)'
  BY <1>3, <1>4 DEF OfPhase
<1> HIDE DEF r
<1>6. IsMemory(mem) /\ MemTyped(mem)
  BY <1>1, HeldMem
<1>7. PICK m : m = mem' /\ MemTyped(m)'
  <2>1. PICK n : n = mem /\ MemTyped(n)'
    <3>1. PICK n : n = mem
      OBVIOUS
    <3> QED
      BY <1>1, <1>3, <1>6, <3>1, MemLater
  <2>2. CASE phase = "audit"
    <3> DEFINE more == [n EXCEPT !.audits = @ + 1]
    <3>1. mem' = more
      BY <2>1, <2>2 DEF Dispatch
    <3>2. /\ more.account = n.account /\ more.audits = n.audits + 1
          /\ more.audit = n.audit /\ more.head = n.head
      BY <1>6, <2>1 DEF IsMemory
    <3> HIDE DEF more
    <3>3. more.audits \in 0..Len(runs')
      BY <1>3, <1>6, <2>1, <3>2 DEF MemTyped
    <3>4. MemTyped(more)'
      BY <2>1, <3>2, <3>3 DEF MemTyped
    <3> QED
      BY <3>1, <3>4
  <2>3. CASE phase # "audit"
    BY <2>1, <2>3 DEF Dispatch
  <2> QED
    BY <2>2, <2>3
<1> DEFINE t == [phase |-> phase, ids |-> <<i>>, way |-> "fresh", retried |-> FALSE]
<1>8. open' = t
  BY <1>3 DEF Dispatch
<1>9. /\ DOMAIN t = {"phase", "ids", "way", "retried"} /\ t.phase = phase
      /\ t.ids = <<i>> /\ t.way = "fresh" /\ t.retried = FALSE
  OBVIOUS
<1> HIDE DEF t
<1>10. PICK s : s = t /\ StageTyped(s)'
  BY <1>5, <1>9 DEF StageTyped, Ways
<1>11. open' # NoStage
  BY <1>8, <1>9 DEF NoStage, Phases
<1>12. StoredTyped' /\ Uncommented'
  <2>1. CASE phase = "implementation"
    <3>1. comment' = comment
      BY <2>1 DEF Dispatch
    <3>2. Uncommented'
      BY <1>3, <1>4, <2>1, <3>1 DEF TInv, Uncommented, Grows
    <3> QED
      BY <1>1, <1>3, <3>1, <3>2, StoredLater DEF TInv
  <2>2. CASE phase # "implementation"
    <3>1. comment' = Saved(m, s, "working")
      BY <1>7, <1>8, <1>10, <2>2 DEF Dispatch, Save
    <3> QED
      BY <1>1, <1>3, <1>7, <1>10, <3>1, SaveTyped DEF Statuses
  <2> QED
    BY <2>1, <2>2
<1>13. Placed'
  BY <1>1, <1>11 DEF TInv, Dispatch, Placed, Idle, Places
<1> QED
  BY <1>3, <1>7, <1>8, <1>10, <1>12, <1>13 DEF TInv, HeldTyped, Grows

\* Two runs make a pair.
LEMMA PairOfRuns ==
  ASSUME NEW i \in Nat, NEW j \in Nat
  PROVE  Append(<<j>>, i) = <<j, i>>
<1> DEFINE s == Append(<<j>>, i)
           t == <<j, i>>
<1>1. <<j>> \in Seq(Nat) /\ t \in Seq(Nat)
  OBVIOUS
<1>2. Len(<<j>>) = 1 /\ Len(t) = 2 /\ t[1] = j /\ t[2] = i
  OBVIOUS
<1>3. Len(s) = 2 /\ s \in Seq(Nat) /\ s[1] = j /\ s[2] = i
  BY <1>1, <1>2
<1> HIDE DEF s, t
<1>4. \A k \in 1..Len(s) : s[k] = t[k]
  BY <1>2, <1>3
<1>5. s = t
  BY <1>1, <1>2, <1>3, <1>4, SeqEqual
<1> QED
  BY <1>5 DEF s, t

LEMMA RetryTypes ==
  ASSUME AInv, TInv, NEW outcome \in {"ok", "red", "dead"}, NEW calls \in {0, 1},
         Retry(outcome, calls)
  PROVE  TInv'
<1> DEFINE r == [phase |-> open.phase, outcome |-> outcome, calls |-> calls]
<1>1. RunsOK /\ ~Idle /\ at = "waiting"
  BY DEF TInv, Retry, Idle
<1>2. PICK j : /\ open.phase \in Phases /\ open.ids = <<j>> /\ OfPhase(j, open.phase)
               /\ DOMAIN open = {"phase", "ids", "way", "retried"}
               /\ open.way \in Ways
  BY <1>1, WaitedFor DEF Retry
<1>3. r \in ProviderRuns
  BY <1>2 DEF ProviderRuns
<1>4. PICK i : /\ i = Len(runs) + 1 /\ Grows /\ Len(runs') = i /\ runs'[i] = r
               /\ Len(runs) \in Nat
  BY <1>1, <1>3, RunAdded DEF Retry, RunsOK
<1>5. PICK phase : phase = open.phase /\ r.phase = phase
  OBVIOUS
<1>6. OfPhase(i, phase)' /\ OfPhase(j, phase)'
  BY <1>2, <1>4, <1>5 DEF OfPhase, Grows
<1>7. PICK m : m = mem' /\ MemTyped(m)'
  <2> DEFINE a == Observe(LastOf(open), open.phase)
             grown == [mem EXCEPT !.account = a]
  <2>1. Counted(a) /\ IsMemory(mem) /\ MemTyped(mem)
    BY <1>1, ObservedStage, HeldMem
  <2> HIDE DEF a
  <2>2. MemTyped(grown)
    BY <2>1, MemWith
  <2>3. mem' = mem \/ mem' = grown
    BY DEF Retry, a
  <2> HIDE DEF grown
  <2>4. PICK n : n = mem' /\ MemTyped(n)
    BY <2>1, <2>2, <2>3
  <2> QED
    BY <1>1, <1>4, <2>4, MemLater
<1> DEFINE t == [open EXCEPT !.ids = Append(@, Len(runs) + 1), !.retried = TRUE]
<1>8. open' = t
  BY DEF Retry
<1>9. /\ DOMAIN t = {"phase", "ids", "way", "retried"} /\ t.phase = phase
      /\ t.ids = <<j, i>> /\ t.way = open.way /\ t.retried = TRUE
  <2>1. /\ DOMAIN t = {"phase", "ids", "way", "retried"} /\ t.phase = phase
        /\ t.ids = Append(open.ids, i) /\ t.way = open.way /\ t.retried = TRUE
    BY <1>2, <1>4, <1>5
  <2>2. Append(<<j>>, i) = <<j, i>>
    BY <1>2, <1>4, PairOfRuns DEF OfPhase
  <2> QED
    BY <1>2, <2>1, <2>2
<1> HIDE DEF t
<1>10. PICK s : s = t /\ StageTyped(s)'
  BY <1>2, <1>5, <1>6, <1>9 DEF StageTyped
<1>11. open' # NoStage
  BY <1>2, <1>5, <1>8, <1>9 DEF NoStage, Phases
<1>12. StoredTyped' /\ Uncommented'
  <2>1. comment' = Saved(m, s, "working")
    BY <1>7, <1>8, <1>10 DEF Retry, Save
  <2> QED
    BY <1>1, <1>4, <1>7, <1>10, <2>1, SaveTyped DEF Statuses
<1>13. Placed'
  BY <1>1, <1>11 DEF TInv, Retry, Placed, Idle, Places
<1> QED
  BY <1>4, <1>7, <1>8, <1>10, <1>12, <1>13 DEF TInv, HeldTyped, Grows

\* The run that replaces an adopted one.
LEMMA RearmTypes ==
  ASSUME AInv, TInv, NEW outcome \in {"ok", "red", "dead"}, NEW calls \in {0, 1},
         Rearm(outcome, calls)
  PROVE  TInv'
<1> DEFINE r == [phase |-> open.phase, outcome |-> outcome, calls |-> calls]
<1>1. RunsOK /\ ~Idle /\ at = "waiting"
  BY DEF TInv, Rearm, CanRearm, Idle
<1>2. /\ open.phase \in Phases /\ DOMAIN open = {"phase", "ids", "way", "retried"}
      /\ open.way \in Ways /\ open.retried \in BOOLEAN
  BY <1>1, WaitedFor
<1>3. r \in ProviderRuns
  BY <1>2 DEF ProviderRuns
<1>4. PICK i : /\ i = Len(runs) + 1 /\ Grows /\ Len(runs') = i /\ runs'[i] = r
               /\ Len(runs) \in Nat
  BY <1>1, <1>3, RunAdded DEF Rearm, RunsOK
<1>5. PICK phase : phase = open.phase /\ r.phase = phase
  OBVIOUS
<1>6. OfPhase(i, phase)'
  BY <1>4, <1>5 DEF OfPhase, Grows
<1>7. PICK m : m = mem' /\ MemTyped(m)'
  <2> DEFINE grown == [mem EXCEPT !.account = ObservedAll]
  <2>1. Counted(ObservedAll) /\ IsMemory(mem) /\ MemTyped(mem)
    BY <1>1, ObservedStage, HeldMem
  <2>2. MemTyped(grown)
    BY <2>1, MemWith
  <2>3. mem' = mem \/ mem' = grown
    BY DEF Rearm
  <2> HIDE DEF grown
  <2>4. PICK n : n = mem' /\ MemTyped(n)
    BY <2>1, <2>2, <2>3
  <2> QED
    BY <1>1, <1>4, <2>4, MemLater
<1>8. PICK t : /\ t = open' /\ DOMAIN t = {"phase", "ids", "way", "retried"} /\ t.phase = phase
               /\ t.ids = <<i>> /\ t.way \in Ways /\ t.retried \in BOOLEAN
  <2>1. CASE open.phase = "technical-hygiene"
    <3> DEFINE u == [open EXCEPT !.ids = <<Len(runs) + 1>>, !.way = "fresh", !.retried = FALSE]
    <3>1. open' = u
      BY <2>1 DEF Rearm
    <3>2. /\ DOMAIN u = {"phase", "ids", "way", "retried"} /\ u.phase = phase
          /\ u.ids = <<i>> /\ u.way = "fresh" /\ u.retried = FALSE
      BY <1>2, <1>4, <1>5
    <3> HIDE DEF u
    <3> QED
      BY <3>1, <3>2 DEF Ways
  <2>2. CASE open.phase # "technical-hygiene"
    <3> DEFINE u == [open EXCEPT !.ids = <<Len(runs) + 1>>, !.way = "rearmed"]
    <3>1. open' = u
      BY <2>2 DEF Rearm
    <3>2. /\ DOMAIN u = {"phase", "ids", "way", "retried"} /\ u.phase = phase
          /\ u.ids = <<i>> /\ u.way = "rearmed" /\ u.retried \in BOOLEAN
      BY <1>2, <1>4, <1>5
    <3> HIDE DEF u
    <3> QED
      BY <3>1, <3>2 DEF Ways
  <2> QED
    BY <2>1, <2>2
<1>9. PICK s : s = t /\ StageTyped(s)'
  BY <1>2, <1>5, <1>6, <1>8 DEF StageTyped
<1>10. open' # NoStage
  BY <1>2, <1>5, <1>8 DEF NoStage, Phases
<1>11. StoredTyped' /\ Uncommented'
  <2>1. comment' = Saved(m, s, "working")
    BY <1>7, <1>8, <1>9 DEF Rearm, Save
  <2> QED
    BY <1>1, <1>4, <1>7, <1>9, <2>1, SaveTyped DEF Statuses
<1>12. Placed'
  BY <1>1, <1>10 DEF TInv, Rearm, Placed, Idle, Places
<1> QED
  BY <1>4, <1>7, <1>8, <1>9, <1>11, <1>12 DEF TInv, HeldTyped, Grows

LEMMA AcceptedTypes ==
  ASSUME AInv, TInv, at = "waiting", Grows, runs' = runs, NEW a, Counted(a), Accepted(a)
  PROVE  TInv'
<1>1. RunsOK /\ IsMemory(mem) /\ MemTyped(mem)
  BY HeldMem DEF TInv, Idle
<1>2. OfPhase(LastOf(open), open.phase)
  BY WaitedFor
<1>3. PICK h, u : /\ mem' = [mem EXCEPT !.account = a, !.done = @ \cup {LastOf(open)},
                                        !.head = h, !.audit = u]
                  /\ h = head'
                  /\ u = IF open.phase = "audit" THEN LastOf(open)
                         ELSE IF head' # head THEN 0 ELSE mem.audit
  BY <1>1 DEF Accepted, IsMemory
<1> DEFINE m == [mem EXCEPT !.account = a, !.done = @ \cup {LastOf(open)}, !.head = h, !.audit = u]
<1>4. m.account = a /\ m.audits = mem.audits /\ m.head = h /\ m.audit = u
  BY <1>1 DEF IsMemory
<1>5. mem' = m
  BY <1>3
<1> HIDE DEF m
<1>6. PICK n : n = m
  OBVIOUS
<1>7. u \in 0..Len(runs) /\ (u # 0 => runs[u].phase = "audit") /\ h \in 1..head'
  BY <1>1, <1>2, <1>3 DEF OfPhase, MemTyped, RunsOK, Grows, Heads
<1>8. Counted(a)'
  BY <1>1, CountedLater
<1>9. MemTyped(n)'
  BY <1>1, <1>4, <1>6, <1>7, <1>8 DEF MemTyped
<1>10. HeldTyped'
  BY <1>5, <1>6, <1>9 DEF HeldTyped
<1>11. StoredTyped' /\ Uncommented'
  BY <1>1, StoredLater DEF Accepted, TInv, Uncommented
<1>12. Placed' /\ StageTyped(open)'
  BY DEF TInv, Placed, Accepted, Idle, Places, StageTyped
<1> QED
  BY <1>10, <1>11, <1>12 DEF TInv, Grows

\* The session ends, perhaps after a last write.
LEMMA EndingTypes ==
  ASSUME AInv, TInv, ~Idle, Grows, runs' = runs,
         NEW where \in {"none", "metrics-error"}, Over(where),
         \/ comment' = comment
         \/ \E m, stage, status : /\ MemTyped(m) /\ StageTyped(stage) /\ status \in Statuses
                                  /\ comment' = Saved(m, stage, status)
  PROVE  TInv'
<1>1. RunsOK
  BY DEF TInv
<1>2. Placed' /\ HeldTyped' /\ StageTyped(open)'
  BY EndTyped
<1>3. CASE comment' = comment
  BY <1>1, <1>2, <1>3, StoredLater DEF TInv, Uncommented, Grows
<1>4. ASSUME NEW m, NEW stage, NEW status, MemTyped(m), StageTyped(stage), status \in Statuses,
             comment' = Saved(m, stage, status)
      PROVE  TInv'
  <2>1. MemTyped(m)' /\ StageTyped(stage)'
    BY <1>1, <1>4, MemLater, StageLater
  <2>2. StoredTyped' /\ Uncommented'
    BY <1>1, <1>4, <2>1, SaveTyped
  <2> QED
    BY <1>2, <2>2 DEF TInv, Grows
<1> QED
  BY <1>3, <1>4

LEMMA SettleBootstrapTypes ==
  ASSUME AInv, TInv, SettleBootstrap
  PROVE  TInv'
<1>1. /\ RunsOK /\ ~Idle /\ at = "waiting" /\ open.phase = "implementation"
      /\ head' = head /\ runs' = runs /\ others' = others
  BY DEF TInv, SettleBootstrap, Idle, Accepted
<1>2. Grows
  BY <1>1, HeadOnly
<1>3. IsMemory(mem) /\ MemTyped(mem) /\ Counted(mem.account)
  BY <1>1, HeldMem
<1> DEFINE a == Observed(mem.account, LastOf(open), "implementation", 0)
<1>4. Counted(a)
  <2>1. OfPhase(LastOf(open), "implementation") /\ "implementation" \in Phases
    BY <1>1, WaitedFor
  <2>2. 0 \in 0..Len(runs)
    BY <1>1 DEF RunsOK
  <2> QED
    BY <1>1, <1>3, <2>1, <2>2, ObservedRun
<1>5. \/ Accepted(a)
      \/ /\ at' = "bootstrap" /\ open' = NoStage /\ mem' = [mem EXCEPT !.account = a]
         /\ comment' = comment /\ session' = session
      \/ Over("none") /\ comment' = comment
  BY DEF SettleBootstrap
<1> HIDE DEF a
<1>6. CASE Accepted(a)
  BY <1>1, <1>2, <1>4, <1>6, AcceptedTypes
<1>7. CASE /\ at' = "bootstrap" /\ open' = NoStage /\ mem' = [mem EXCEPT !.account = a]
           /\ comment' = comment /\ session' = session
  <2>1. PICK n : n = [mem EXCEPT !.account = a] /\ MemTyped(n)
    BY <1>3, <1>4, MemWith
  <2>2. MemTyped(n)' /\ mem' = n
    BY <1>1, <1>2, <1>7, <2>1, MemLater
  <2>3. StoredTyped' /\ Uncommented'
    BY <1>1, <1>2, <1>7, StoredLater DEF TInv, Uncommented
  <2>4. Placed' /\ StageTyped(open)'
    BY <1>1, <1>7 DEF TInv, Placed, Idle, Places, StageTyped
  <2> QED
    BY <1>2, <2>2, <2>3, <2>4 DEF TInv, HeldTyped, Grows
<1>8. CASE Over("none") /\ comment' = comment
  BY <1>1, <1>2, <1>8, EndingTypes
<1> QED
  BY <1>5, <1>6, <1>7, <1>8

LEMMA SettleRemediationTypes ==
  ASSUME AInv, TInv, SettleRemediation
  PROVE  TInv'
<1>1. RunsOK /\ ~Idle /\ at = "waiting" /\ runs' = runs /\ others' = others
  BY DEF TInv, SettleRemediation, Idle, Accepted
<1>2. Grows
  BY <1>1, HeadOnly DEF SettleRemediation
<1>3. Counted(ObservedAll) /\ StageTyped(open)
  BY <1>1, ObservedStage DEF TInv
<1>4. CASE Accepted(ObservedAll)
  BY <1>1, <1>2, <1>3, <1>4, AcceptedTypes
<1>5. CASE /\ comment' = comment \/ Save([mem EXCEPT !.account = ObservedAll], open, "working")
           /\ Over("none")
  <2>1. PICK n : n = [mem EXCEPT !.account = ObservedAll] /\ MemTyped(n)
    BY <1>1, <1>3, HeldMem, MemWith
  <2>2. comment' = comment \/ comment' = Saved(n, open, "working")
    BY <1>5, <2>1 DEF Save
  <2>3. "working" \in Statuses
    BY DEF Statuses
  <2> QED
    BY <1>1, <1>2, <1>3, <1>5, <2>1, <2>2, <2>3, EndingTypes
<1> QED
  BY <1>4, <1>5 DEF SettleRemediation

LEMMA SettleHygieneTypes ==
  ASSUME AInv, TInv, SettleHygiene
  PROVE  TInv'
<1>1. /\ RunsOK /\ ~Idle /\ at = "waiting" /\ runs' = runs /\ head' = head /\ others' = others
  BY DEF TInv, SettleHygiene, Idle, Accepted
<1>2. Grows
  BY <1>1, HeadOnly
<1>3. PICK a : /\ Counted(a)
               /\ Accepted(a) \/ (Over("none") /\ comment' = comment)
  BY <1>1, ObservedStage DEF SettleHygiene
<1> QED
  BY <1>1, <1>2, <1>3, AcceptedTypes, EndingTypes

LEMMA SettleAuditTypes ==
  ASSUME AInv, TInv, SettleAudit
  PROVE  TInv'
<1>1. /\ RunsOK /\ ~Idle /\ at = "waiting" /\ open.phase = "audit"
      /\ runs' = runs /\ head' = head /\ others' = others
  BY DEF TInv, SettleAudit, Idle, Accepted
<1>2. Grows
  BY <1>1, HeadOnly
<1>3. Counted(mem.account) /\ mem.audits \in 0..Len(runs)
  BY <1>1, HeldMem
<1>4. OfPhase(LastOf(open), "audit") /\ OfPhase(open.ids[1], "audit") /\ "audit" \in Phases
  BY <1>1, WaitedFor
<1> DEFINE last == LastOf(open)
           before == IF session = "initial" /\ open.ids[1] # last
                     THEN AuditFailed(mem.account, open.ids[1]) ELSE mem.account
           counted == Observed(before, last, "audit", mem.audits)
           lost == AuditFailed(before, last)
<1>5. Counted(before)
  BY <1>1, <1>3, <1>4, AuditFailedCounted DEF OfPhase
<1>6. \/ Accepted(counted)
      \/ Save([mem EXCEPT !.account = lost], open, "working") /\ Over("none")
  BY DEF SettleAudit
<1> HIDE DEF before, last
<1>7. Counted(counted) /\ Counted(lost)
  BY <1>1, <1>3, <1>4, <1>5, ObservedRun, AuditFailedCounted DEF OfPhase, last
<1> HIDE DEF counted, lost
<1>8. CASE Accepted(counted)
  BY <1>1, <1>2, <1>7, <1>8, AcceptedTypes
<1>9. CASE Save([mem EXCEPT !.account = lost], open, "working") /\ Over("none")
  <2>1. PICK n : n = [mem EXCEPT !.account = lost] /\ MemTyped(n)
    BY <1>1, <1>7, HeldMem, MemWith
  <2>2. comment' = Saved(n, open, "working")
    BY <1>9, <2>1 DEF Save
  <2>3. "working" \in Statuses /\ StageTyped(open)
    BY DEF Statuses, TInv
  <2> QED
    BY <1>1, <1>2, <1>9, <2>1, <2>2, <2>3, EndingTypes
<1> QED
  BY <1>6, <1>8, <1>9

\* Memory m takes the place of the old one, and the comment stays or takes it.
LEMMA WorkingTypes ==
  ASSUME AInv, TInv, runs' = runs, head' = head, others' = others, NEW m, MemTyped(m), mem' = m,
         Placed', open' = NoStage,
         comment' = comment \/ \E status \in Statuses : comment' = Saved(m, NoStage, status)
  PROVE  TInv'
<1>1. RunsOK /\ Grows
  BY HeadOnly DEF TInv
<1>2. MemTyped(m)' /\ StageTyped(NoStage)'
  BY <1>1, MemLater DEF StageTyped
<1>3. HeldTyped' /\ StageTyped(open)'
  BY <1>2 DEF HeldTyped, StageTyped
<1>4. CASE comment' = comment
  BY <1>1, <1>3, <1>4, StoredLater DEF TInv, Uncommented, Grows
<1>5. ASSUME NEW status \in Statuses, comment' = Saved(m, NoStage, status) PROVE TInv'
  <2>1. PICK s : s = NoStage /\ StageTyped(s)'
    BY DEF StageTyped
  <2>2. StoredTyped' /\ Uncommented'
    BY <1>1, <1>2, <1>5, <2>1, SaveTyped
  <2> QED
    BY <1>1, <1>3, <2>2 DEF TInv, Grows
<1> QED
  BY <1>4, <1>5

LEMMA ObserveCiTypes ==
  ASSUME AInv, TInv, ObserveCi
  PROVE  TInv'
<1>1. ~Idle /\ RunsOK
  BY DEF ObserveCi, Idle, TInv
<1>2. IsMemory(mem) /\ MemTyped(mem) /\ Counted(mem.account)
  BY <1>1, HeldMem
<1> DEFINE a == CiObserved(mem.account, head)
<1>3. Counted(a)
  BY <1>1, <1>2, CiObservedCounted
<1>4. mem' = [mem EXCEPT !.account = a]
  BY DEF ObserveCi
<1> HIDE DEF a
<1>5. PICK m : mem' = m /\ MemTyped(m)
  BY <1>2, <1>3, <1>4, MemWith
<1>6. Placed' /\ open' = NoStage
  BY DEF TInv, ObserveCi, Placed, Idle, Places
<1> QED
  BY <1>5, <1>6, WorkingTypes DEF ObserveCi

LEMMA PersistTypes ==
  ASSUME AInv, TInv, Persist
  PROVE  TInv'
<1>1. ~Idle /\ RunsOK
  BY DEF Persist, Idle, TInv
<1>2. PICK m : m = mem /\ MemTyped(m)
  BY <1>1, HeldMem
<1>3. Placed' /\ open' = NoStage
  BY DEF TInv, Persist, Placed, Idle, Places
<1>4. "working" \in Statuses /\ comment' = Saved(m, NoStage, "working")
  BY <1>2 DEF Persist, Save, Statuses
<1> QED
  BY <1>2, <1>3, <1>4, WorkingTypes DEF Persist

LEMMA DriftTypes ==
  ASSUME AInv, TInv, Drift
  PROVE  TInv'
<1>1. ~Idle /\ RunsOK /\ runs' = runs /\ Over("none") /\ Grows
  BY HeadOnly DEF Drift, Idle, TInv
<1>2. PICK m : m = mem /\ MemTyped(m)
  BY <1>1, HeldMem
<1>3. StageTyped(NoStage) /\ "working" \in Statuses
  BY DEF StageTyped, Statuses
<1>4. comment' = Saved(m, NoStage, "working")
  BY <1>2 DEF Drift, Save
<1> QED
  BY <1>1, <1>2, <1>3, <1>4, EndingTypes

LEMMA FinishTypes ==
  ASSUME AInv, TInv, NEW status \in {"ready", "escalated"}, Finish(status)
  PROVE  TInv'
<1>1. ~Idle /\ RunsOK
  BY DEF Finish, Idle, TInv
<1>2. /\ IsMemory(mem) /\ MemTyped(mem) /\ Counted(mem.account) /\ mem.audits \in 0..Len(runs)
  BY <1>1, HeldMem
<1> DEFINE again == IF mem.audit = 0 THEN mem.account
                    ELSE Observed(mem.account, mem.audit, "audit", mem.audits)
           a == CiObserved(again, head)
           grown == [mem EXCEPT !.account = a]
<1>3. Counted(again)
  <2>1. CASE mem.audit # 0
    <3>1. OfPhase(mem.audit, "audit") /\ "audit" \in Phases
      BY <1>1, <1>2, <2>1 DEF MemTyped, OfPhase, RunsOK, Phases
    <3> QED
      BY <1>1, <1>2, <2>1, <3>1, ObservedRun
  <2> QED
    BY <1>2, <2>1
<1>4. mem' = mem \/ mem' = grown
  BY DEF Finish
<1>5. comment' = Saved(mem', NoStage, status)
  BY DEF Finish, Save
<1> HIDE DEF again
<1>6. Counted(a)
  BY <1>1, <1>3, CiObservedCounted
<1> HIDE DEF a
<1>7. MemTyped(grown)
  BY <1>2, <1>6, MemWith
<1> HIDE DEF grown
<1>8. PICK m : mem' = m /\ MemTyped(m)
  BY <1>2, <1>4, <1>7
<1>9. Placed' /\ open' = NoStage
  BY DEF TInv, Finish, Placed, Idle, Places
<1>10. status \in Statuses /\ comment' = Saved(m, NoStage, status)
  BY <1>5, <1>8 DEF Statuses
<1> QED
  BY <1>8, <1>9, <1>10, WorkingTypes DEF Finish

LEMMA MeasureTypes ==
  ASSUME AInv, TInv, Measure
  PROVE  TInv'
<1>1. /\ ~Idle /\ RunsOK /\ comment' = comment /\ runs' = runs /\ head' = head /\ others' = others
  BY DEF Measure, Idle, TInv
<1>2. CASE at' = "publish" /\ mem' = mem /\ session' = session /\ open' = open
  <2>1. PICK m : m = mem /\ MemTyped(m)
    BY <1>1, HeldMem
  <2>2. Placed' /\ open' = NoStage
    BY <1>2 DEF TInv, Measure, Placed, Idle, Places
  <2> QED
    BY <1>1, <1>2, <2>1, <2>2, WorkingTypes
<1>3. ASSUME NEW where \in {"none", "metrics-error"}, Over(where) PROVE TInv'
  BY <1>1, <1>3, EndingTypes, HeadOnly
<1> QED
  BY <1>2, <1>3 DEF Measure

LEMMA NextTypes ==
  ASSUME AInv, TInv, [Next]_vars
  PROVE  TInv'
<1>1. CASE BeginInitial \/ BeginResumed
  BY <1>1, BeginInitialTypes, BeginResumedTypes
<1>2. CASE \/ \E phase \in Phases, outcome \in {"ok", "red", "dead"}, calls \in {0, 1} :
                Dispatch(phase, outcome, calls)
           \/ \E outcome \in {"ok", "red", "dead"}, calls \in {0, 1} :
                Retry(outcome, calls) \/ Rearm(outcome, calls)
  BY <1>2, DispatchTypes, RetryTypes, RearmTypes
<1>3. CASE SettleBootstrap \/ SettleRemediation \/ SettleHygiene \/ SettleAudit
  BY <1>3, SettleBootstrapTypes, SettleRemediationTypes, SettleHygieneTypes, SettleAuditTypes
<1>4. CASE ObserveCi \/ Persist \/ Drift \/ Measure
  BY <1>4, ObserveCiTypes, PersistTypes, DriftTypes, MeasureTypes
<1>5. CASE \E status \in {"ready", "escalated"} : Finish(status)
  BY <1>5, FinishTypes
<1>6. CASE Publish \/ Kill
  <2>1. /\ ~Idle /\ Over("none") /\ comment' = comment /\ RunsOK
        /\ runs' = runs /\ head' = head /\ others' = others
    BY <1>6 DEF Publish, Kill, Idle, TInv
  <2> QED
    BY <2>1, HeadOnly, EndingTypes
<1>7. CASE ForeignPush \/ OtherPublishes \/ UNCHANGED vars
  <2>1. Grows /\ RunsOK
    BY <1>7, HeadOnly DEF ForeignPush, OtherPublishes, vars, TInv
  <2>2. UNCHANGED <<runs, comment, session, at, mem, open>>
    BY <1>7 DEF ForeignPush, OtherPublishes, vars
  <2>3. HeldTyped'
    <3>1. PICK m : m = mem
      OBVIOUS
    <3>2. mem.exists = TRUE => MemTyped(m)'
      BY <2>1, <3>1, MemLater DEF TInv, HeldTyped
    <3> QED
      BY <2>2, <3>1, <3>2 DEF HeldTyped
  <2>4. StoredTyped' /\ Uncommented' /\ StageTyped(open)'
    BY <2>1, <2>2, StoredLater, OpenLater DEF TInv, Uncommented
  <2>5. Placed'
    BY <2>2 DEF TInv, Placed, Idle
  <2> QED
    BY <2>1, <2>3, <2>4, <2>5 DEF TInv, Grows
<1> QED
  BY <1>1, <1>2, <1>3, <1>4, <1>5, <1>6, <1>7 DEF Next

--------------------------------------------------------------------------------
(* The store, and the theorems.                                            *)

\* A store names every delivery once, and its records can be reported.
StoreTyped(store) ==
  /\ \A r, s \in store : Id(r) = Id(s) => r = s
  /\ \A r \in store : r.audits \in Nat /\ IsFiniteSet(r.ledger) /\ r.accounting \in Accountings

StoresTyped == StoreTyped(origin) /\ StoreTyped(checkout)

LEMMA UpsertedTyped ==
  ASSUME NEW store, StoreTyped(store), NEW record, record.audits \in Nat,
         IsFiniteSet(record.ledger), record.accounting \in Accountings
  PROVE  StoreTyped(Upserted(store, record))
BY DEF StoreTyped, Upserted

LEMMA RebasedTyped ==
  ASSUME NEW store, StoreTyped(store), NEW mine, StoreTyped(mine)
  PROVE  StoreTyped(Rebased(store, mine))
<1>1. \A r, s : Id(r) = Id(s) => r.pr = s.pr
  BY DEF Id
<1> QED
  BY <1>1 DEF StoreTyped, Rebased

LEMMA FinitePair ==
  ASSUME NEW d, NEW e
  PROVE  IsFiniteSet({d, e})
<1>1. IsFiniteSet({d})
  BY FS_Singleton
<1>2. IsFiniteSet({d} \cup {e})
  BY <1>1, FS_AddElement
<1>3. {d, e} = {d} \cup {e}
  OBVIOUS
<1> QED
  BY <1>2, <1>3

LEMMA OtherRecordTyped ==
  ASSUME NEW n
  PROVE  /\ OtherRecord(n).audits \in Nat /\ IsFiniteSet(OtherRecord(n).ledger)
         /\ OtherRecord(n).accounting \in Accountings
<1> DEFINE d == [run |-> 1, phase |-> "implementation", attempt |-> 0]
           e == [run |-> 2, phase |-> "audit", attempt |-> 1]
<1>1. IsFiniteSet({d, e})
  BY FinitePair
<1>2. /\ OtherRecord(n).audits = 1 /\ OtherRecord(n).ledger = {d, e}
      /\ OtherRecord(n).accounting = "complete"
  BY DEF OtherRecord
<1> QED
  BY <1>1, <1>2 DEF Accountings

LEMMA OldRecordsTyped ==
  /\ \A r \in OldRecords : r.audits \in Nat /\ IsFiniteSet(r.ledger) /\ r.accounting \in Accountings
  /\ IsFiniteSet(OldRecords)
<1> DEFINE d == [run |-> 1, phase |-> "implementation", attempt |-> 0]
           e == [run |-> 2, phase |-> "audit", attempt |-> 0]
           first == [OtherRecord(0) EXCEPT !.ledger = {}, !.accounting = "legacy"]
           second == [OtherRecord(0) EXCEPT !.ledger = {d, e}]
<1>1. IsFiniteSet({d, e}) /\ IsFiniteSet({first, second}) /\ IsFiniteSet({})
  BY FinitePair, FS_EmptySet
<1>2. OldRecords = {first, second}
  BY DEF OldRecords
<1>3. /\ first.audits = 1 /\ first.ledger = {} /\ first.accounting = "legacy"
      /\ second.audits = 1 /\ second.ledger = {d, e} /\ second.accounting = "complete"
  BY DEF OtherRecord
<1> HIDE DEF first, second, d, e
<1> QED
  BY <1>1, <1>2, <1>3 DEF Accountings

LEMMA InitStores == Init => StoresTyped
<1> SUFFICES ASSUME Init PROVE StoresTyped
  OBVIOUS
<1>1. PICK old \in SUBSET OldRecords : Cardinality(old) <= 1 /\ origin = old
  BY DEF Init
<1>2. IsFiniteSet(old)
  BY OldRecordsTyped, FS_Subset
<1>3. ASSUME NEW r \in old, NEW s \in old, r # s PROVE FALSE
  <2>1. Cardinality({r}) = 1 /\ IsFiniteSet({r})
    BY FS_Singleton
  <2>2. Cardinality({r} \cup {s}) = 2
    BY <1>3, <2>1, FS_AddElement
  <2>3. Cardinality({r} \cup {s}) <= Cardinality(old)
    BY <1>2, FS_Subset
  <2>4. Cardinality(old) \in Nat
    BY <1>2, FS_CardinalityType
  <2> QED
    BY <1>1, <2>2, <2>3, <2>4
<1>4. StoreTyped(origin)
  BY <1>1, <1>3, OldRecordsTyped DEF StoreTyped
<1> QED
  BY <1>4 DEF Init, StoresTyped, StoreTyped

LEMMA StoresStep ==
  ASSUME AInv, TInv, StoresTyped, [Next]_vars
  PROVE  StoresTyped'
<1>1. CASE Measure
  <2>1. CASE checkout' = Upserted(checkout, RecordOf(mem, head)) /\ origin' = origin
    <3> DEFINE r == RecordOf(mem, head)
    <3>1. ~Idle
      BY <1>1 DEF Measure, Idle
    <3>2. IsMemory(mem) /\ mem.audits \in Nat
      BY <3>1, HeldMem DEF TInv, RunsOK
    <3>3. r.audits = mem.audits /\ r.ledger = mem.account.ledger /\ r.accounting \in Accountings
      BY DEF RecordOf, Accountings
    <3>4. IsFiniteSet(r.ledger)
      BY <3>2, <3>3 DEF IsMemory, IsAccount
    <3> HIDE DEF r
    <3>5. StoreTyped(Upserted(checkout, r))
      BY <3>2, <3>3, <3>4, UpsertedTyped DEF StoresTyped
    <3>6. checkout' = Upserted(checkout, r)
      BY <2>1 DEF r
    <3>7. StoreTyped(checkout')
      BY <3>5, <3>6
    <3> QED
      BY <2>1, <3>7 DEF StoresTyped
  <2>2. CASE checkout' = {} /\ origin' = origin
    BY <2>2 DEF StoresTyped, StoreTyped
  <2> QED
    BY <1>1, <2>1, <2>2 DEF Measure, Over
<1>2. CASE Publish
  <2>1. checkout' = {} /\ (origin' = Rebased(origin, checkout) \/ origin' = origin)
    BY <1>2 DEF Publish, Over
  <2>2. StoreTyped(Rebased(origin, checkout)) /\ StoreTyped({}) /\ StoreTyped(origin)
    BY RebasedTyped DEF StoresTyped, StoreTyped
  <2>3. StoreTyped(origin') /\ StoreTyped(checkout')
    BY <2>1, <2>2
  <2> QED
    BY <2>3 DEF StoresTyped
<1>3. CASE OtherPublishes
  <2> DEFINE r == OtherRecord(others + 1)
  <2>1. r.audits \in Nat /\ IsFiniteSet(r.ledger) /\ r.accounting \in Accountings
    BY OtherRecordTyped
  <2>2. origin' = Upserted(origin, r) /\ checkout' = checkout
    BY <1>3 DEF OtherPublishes
  <2> HIDE DEF r
  <2>3. StoreTyped(Upserted(origin, r)) /\ StoreTyped(checkout)
    BY <2>1, UpsertedTyped DEF StoresTyped
  <2>4. StoreTyped(origin') /\ StoreTyped(checkout')
    BY <2>2, <2>3
  <2> QED
    BY <2>4 DEF StoresTyped
<1>4. CASE origin' = origin /\ (checkout' = checkout \/ checkout' = origin \/ checkout' = {})
  BY <1>4 DEF StoresTyped, StoreTyped
<1> QED
  BY <1>1, <1>2, <1>3, <1>4
     DEF Next, vars, BeginInitial, BeginResumed, Dispatch, Retry, Rearm, SettleBootstrap, Accepted, Over,
         SettleRemediation, SettleHygiene, SettleAudit, ObserveCi, Persist, Drift, Finish,
         Kill, ForeignPush

LEMMA InitTypes == Init => TInv
<1> SUFFICES ASSUME Init PROVE TInv
  OBVIOUS
<1>1. head = 1 /\ others = 0 /\ head \in Heads /\ others \in 0..MaxOthers
  BY BoundsAssumption DEF Init, Heads
<1>2. Placed /\ HeldTyped /\ StageTyped(open)
  BY DEF Init, Placed, HeldTyped, StageTyped, NoMemory, Idle, Places
<1>3. CASE runs = <<>> /\ comment = NoComment
  <2>1. comment.exists = FALSE
    BY <1>3 DEF NoComment
  <2>2. runs \in Seq(ProviderRuns) /\ Len(runs) = 0
    BY <1>3
  <2>3. RunsOK
    BY <1>1, <2>2, BoundsAssumption DEF RunsOK
  <2> QED
    BY <1>2, <2>1, <2>2, <2>3 DEF TInv, StoredTyped, Uncommented
<1>4. ASSUME runs = <<[phase |-> "implementation", outcome |-> "ok", calls |-> 1]>>,
             NEW fields \in BOOLEAN,
             comment = [exists |-> TRUE, account |-> OldAccount(fields), done |-> {1}, audits |-> 0,
                        audit |-> 0, head |-> 1, stage |-> NoStage, status |-> "working"]
      PROVE  TInv
  <2> DEFINE r == [phase |-> "implementation", outcome |-> "ok", calls |-> 1]
  <2>1. r \in ProviderRuns /\ r.phase = "implementation"
    BY DEF ProviderRuns, Phases
  <2> HIDE DEF r
  <2>2. runs = <<r>>
    BY <1>4 DEF r
  <2>3. runs \in Seq(ProviderRuns) /\ Len(runs) = 1 /\ runs[1] = r
    BY <2>1, <2>2
  <2>4. RunsOK
    BY <1>1, <2>3, BoundsAssumption DEF RunsOK
  <2>5. /\ comment.exists = TRUE /\ comment.account = OldAccount(fields) /\ comment.audits = 0
        /\ comment.audit = 0 /\ comment.head = 1 /\ comment.stage = NoStage
        /\ comment.status = "working"
    BY <1>4
  <2>6. Counted(comment.account)
    BY <2>1, <2>3, <2>4, <2>5, OldAccountCounted
  <2>7. MemTyped(comment)
    BY <1>1, <2>3, <2>5, <2>6 DEF MemTyped
  <2> QED
    BY <1>2, <2>4, <2>5, <2>7 DEF TInv, StoredTyped, Uncommented, StageTyped, Statuses
<1> QED
  BY <1>3, <1>4 DEF Init

LEMMA TypeInvariance == Spec => [](TInv /\ StoresTyped)
<1>1. AInv /\ TInv /\ StoresTyped /\ [Next]_vars => (TInv /\ StoresTyped)'
  BY NextTypes, StoresStep
<1>2. Init => TInv /\ StoresTyped
  BY InitTypes, InitStores
<1> QED
  BY <1>1, <1>2, Invariance, PTL DEF Spec

LEMMA AccountTyped ==
  ASSUME RunsOK, NEW a, Counted(a)
  PROVE  AccountOK(a) /\ a.observed \subseteq 1..Len(runs)
<1>1. a.observed \in SUBSET (1..Len(runs)) /\ a.failed \in SUBSET (1..Len(runs))
  BY DEF Counted
<1>2. a.ids \in SUBSET (1..Len(runs)) /\ a.observed \ a.ids \in SUBSET (1..Len(runs))
  BY <1>1 DEF Counted, IsAccount, Readable
<1>3. /\ Cardinality(a.observed) \in 0..Len(runs) /\ Cardinality(a.failed) \in 0..Len(runs)
      /\ Cardinality(a.ids) \in 0..Len(runs) /\ Cardinality(a.observed \ a.ids) \in 0..Len(runs)
  BY <1>1, <1>2, RunSets
<1>4. Len(runs) \in Nat /\ Len(runs) <= MaxRuns /\ MaxRuns \in Nat
  BY BoundsAssumption DEF RunsOK
<1>5. a.calls \in 0..MaxRuns /\ a.zero \in 0..MaxRuns
  BY <1>3, <1>4 DEF Counted, IsAccount, Readable
<1>6. a.audit \in 0..2 * MaxRuns
  BY <1>3, <1>4 DEF Counted
<1>7. DOMAIN a = DOMAIN NewAccount
  BY DEF Counted, IsAccount, NewAccount, Fields
<1>8. a.ids \cup a.observed \cup a.failed \subseteq 1..Len(runs)
  BY <1>1, <1>2
<1>9. /\ a.ledger \subseteq Entries /\ a.ci \subseteq 1..head
      /\ {a.ledgerWhole, a.whole, a.ciWhole} \subseteq BOOLEAN
  BY DEF Counted
<1> QED
  BY <1>1, <1>5, <1>6, <1>7, <1>8, <1>9 DEF AccountOK

LEMMA StageIsOK ==
  ASSUME RunsOK, NEW s, StageTyped(s)
  PROVE  StageOK(s)
<1>1. CASE s = NoStage
  <2>1. s.phase = "none" /\ s.ids = <<>> /\ s.way = "fresh" /\ s.retried = FALSE
    BY <1>1 DEF NoStage
  <2>2. s.way \in Ways /\ s.retried \in BOOLEAN /\ s.phase \in Phases \cup {"none"}
    BY <2>1 DEF Ways
  <2>3. Len(s.ids) = 0 /\ DOMAIN s.ids = {}
    BY <2>1
  <2> QED
    BY <2>1, <2>2, <2>3 DEF StageOK
<1>2. CASE s # NoStage
  <2>1. PICK i, j : /\ OfPhase(i, s.phase) /\ OfPhase(j, s.phase)
                    /\ s.ids = <<i>> \/ (s.ids = <<i, j>> /\ s.retried = TRUE)
    BY <1>2 DEF StageTyped
  <2>2. s.phase \in Phases /\ s.phase # "none" /\ s.way \in Ways /\ s.retried \in BOOLEAN
    BY <1>2 DEF StageTyped, Phases
  <2>3. Len(s.ids) \in {1, 2} /\ \A k \in DOMAIN s.ids : s.ids[k] \in 1..Len(runs)
    <3>1. CASE s.ids = <<i>>
      BY <2>1, <3>1 DEF OfPhase
    <3>2. CASE s.ids = <<i, j>>
      BY <2>1, <3>2 DEF OfPhase
    <3> QED
      BY <2>1, <3>1, <3>2
  <2>4. s.way \in Ways /\ s.retried \in BOOLEAN
    BY <2>2
  <2>5. Len(s.ids) \in (IF s.phase = "none" THEN {0} ELSE {1, 2})
    BY <2>2, <2>3
  <2>6. s.phase \in Phases \cup {"none"}
    BY <2>2
  <2>7. \A k \in DOMAIN s.ids : s.ids[k] \in 1..Len(runs)
    BY <2>3
  <2> QED
    BY <2>4, <2>5, <2>6, <2>7 DEF StageOK, Ways
<1> QED
  BY <1>1, <1>2

LEMMA MemoryTyped ==
  ASSUME RunsOK, NEW m, MemTyped(m), m.done \subseteq m.account.observed
  PROVE  MemoryOK(m)
<1>1. AccountOK(m.account) /\ m.account.observed \subseteq 1..Len(runs)
  BY AccountTyped DEF MemTyped
<1>2. 0..Len(runs) \subseteq 0..MaxRuns
  BY BoundsAssumption DEF RunsOK
<1> QED
  BY <1>1, <1>2 DEF MemTyped, MemoryOK

\* The types of what the sessions hold, write and publish: every run an accumulator, a stage or a
\* result names is a run of this delivery, every head one that the pull request has had.
THEOREM UsageTypes == Spec => []TypeOK
<1>1. AInv /\ TInv /\ StoresTyped => TypeOK
  <2> SUFFICES ASSUME AInv, TInv, StoresTyped PROVE TypeOK
    OBVIOUS
  <2>1. RunsOK /\ Placed /\ StageOK(open)
    BY StageIsOK DEF TInv
  <2>2. mem.exists => MemoryOK(mem)
    BY MemoryTyped DEF AInv, HeldOK, IsMemory, TInv, HeldTyped
  <2>3. comment.exists => /\ MemoryOK(comment) /\ StageOK(comment.stage)
                          /\ comment.status \in Statuses
    BY MemoryTyped, StageIsOK DEF AInv, StoredOK, AdvanceIsAccounted, TInv, StoredTyped
  <2>4. mem.exists = ~Idle
    BY DEF AInv
  <2>5. \A r \in origin \cup checkout : r.accounting \in Accountings
    BY DEF StoresTyped, StoreTyped
  <2> QED
    BY <2>1, <2>2, <2>3, <2>4, <2>5 DEF TypeOK, RunsOK, Placed, Places, Statuses
<1> QED
  BY <1>1, Invariance, TypeInvariance, PTL

\* A run is counted once, however many sessions see it, and in a complete accounting every
\* counted audit once (recordControllerProviderObservation, recordControllerAuditWorkflowFailure).
THEOREM RunsCountedOnce == Spec => []CountedOnce
<1>1. AInv /\ TInv => CountedOnce
  <2> SUFFICES ASSUME AInv, TInv, NEW state \in {mem, comment}, state.exists
               PROVE  /\ state.account.zero
                           = Cardinality(state.account.observed \ state.account.ids)
                      /\ state.account.whole =>
                           state.account.audit = Cardinality(
                             {id \in state.account.observed : runs[id].phase = "audit"})
    BY DEF CountedOnce
  <2>1. MemTyped(state)
    BY DEF AInv, HeldOK, IsMemory, TInv, HeldTyped, StoredTyped
  <2>2. Counted(state.account)
    BY <2>1 DEF MemTyped
  <2> QED
    BY <2>2 DEF Counted, Audits
<1> QED
  BY <1>1, Invariance, TypeInvariance, PTL

--------------------------------------------------------------------------------
(* What the report says of the audits of a delivery.  The sums of the      *)
(* report are folds; each is unfolded here by the function that it is.     *)

LEMMA SumOfOne ==
  ASSUME NEW scope, NEW store, NEW r, RecordsIn(scope, store) = {r},
         AuditAttemptsIn(scope, r) \in Nat
  PROVE  ReportedAudits(scope, store) = AuditAttemptsIn(scope, r)
<1> DEFINE S == {r}
           f(x) == AuditAttemptsIn(scope, x)
           pick(s) == CHOOSE x \in s : TRUE
           Rec(h) == h = [s \in SUBSET S |-> IF s = {} THEN 0 ELSE f(pick(s)) + h[s \ {pick(s)}]]
           iter == CHOOSE h : Rec(h)
           g == [s \in SUBSET S |-> IF r \in s THEN f(r) ELSE 0]
<1>1. ReportedAudits(scope, store) = iter[S]
  BY DEF ReportedAudits, MapThenSumSet, MapThenFoldSet
<1>2. \A s \in SUBSET S : s # {} => pick(s) = r /\ s = {r}
  OBVIOUS
<1>3. Rec(g)
  BY <1>2
<1>4. Rec(iter)
  BY <1>3
<1> HIDE DEF pick, f, iter, g
<1>5. iter = [s \in SUBSET S |-> IF s = {} THEN 0 ELSE f(pick(s)) + iter[s \ {pick(s)}]]
  BY <1>4
<1>6. iter[{}] = 0
  BY <1>5
<1>7. pick(S) = r /\ S \ {r} = {} /\ S # {} /\ S \in SUBSET S
  BY <1>2
<1>8. iter[S] = f(r) + iter[{}]
  <2>1. iter[S] = f(pick(S)) + iter[S \ {pick(S)}]
    BY <1>5, <1>7
  <2> QED
    BY <1>7, <2>1
<1> QED
  BY <1>1, <1>6, <1>8 DEF f

LEMMA SumOfNone ==
  ASSUME NEW scope, NEW store, RecordsIn(scope, store) = {}
  PROVE  ReportedAudits(scope, store) = 0
<1> DEFINE f(x) == AuditAttemptsIn(scope, x)
           pick(s) == CHOOSE x \in s : TRUE
           Rec(h) == h = [s \in SUBSET {} |-> IF s = {} THEN 0 ELSE f(pick(s)) + h[s \ {pick(s)}]]
           iter == CHOOSE h : Rec(h)
           g == [s \in SUBSET {} |-> 0]
<1>1. ReportedAudits(scope, store) = iter[{}]
  BY DEF ReportedAudits, MapThenSumSet, MapThenFoldSet
<1>2. Rec(g)
  OBVIOUS
<1>3. Rec(iter)
  BY <1>2
<1> HIDE DEF pick, f, iter, g
<1>4. iter = [s \in SUBSET {} |-> IF s = {} THEN 0 ELSE f(pick(s)) + iter[s \ {pick(s)}]]
  BY <1>3
<1> QED
  BY <1>1, <1>4

\* When only the group of the audit phase has audits, the groups add up to it.
LEMMA SumOverPhases ==
  ASSUME NEW rows, NEW store, NEW n \in Nat,
         \A phase \in Phases :
           ReportedAudits(GroupOf(rows, phase), store) = IF phase = "audit" THEN n ELSE 0
  PROVE  MapThenSumSet(LAMBDA phase : ReportedAudits(GroupOf(rows, phase), store), Phases) = n
<1> DEFINE f(phase) == ReportedAudits(GroupOf(rows, phase), store)
           pick(s) == CHOOSE x \in s : TRUE
           Rec(h) == h = [s \in SUBSET Phases |->
                            IF s = {} THEN 0 ELSE f(pick(s)) + h[s \ {pick(s)}]]
           iter == CHOOSE h : Rec(h)
           sum(s) == IF "audit" \in s THEN n ELSE 0
           g == [s \in SUBSET Phases |-> sum(s)]
<1>1. MapThenSumSet(LAMBDA phase : ReportedAudits(GroupOf(rows, phase), store), Phases)
        = iter[Phases]
  BY DEF MapThenSumSet, MapThenFoldSet
<1>2. \A phase \in Phases : f(phase) = IF phase = "audit" THEN n ELSE 0
  OBVIOUS
<1>3. \A s \in SUBSET Phases : s # {} => pick(s) \in s /\ s \ {pick(s)} \in SUBSET Phases
  OBVIOUS
<1> HIDE DEF f, pick
<1>4. \A s \in SUBSET Phases : s # {} => sum(s) = f(pick(s)) + sum(s \ {pick(s)})
  BY <1>2, <1>3
<1>5. Rec(g)
  <2>1. \A s \in SUBSET Phases : g[s] = IF s = {} THEN 0 ELSE f(pick(s)) + g[s \ {pick(s)}]
    BY <1>3, <1>4
  <2> QED
    BY <2>1
<1>6. Rec(iter)
  BY <1>5
<1> HIDE DEF iter, g
<1>7. \A s \in SUBSET Phases : iter[s] = IF s = {} THEN 0 ELSE f(pick(s)) + iter[s \ {pick(s)}]
  BY <1>6
<1> DEFINE Level(k) == \A s \in SUBSET Phases : Cardinality(s) = k => iter[s] = sum(s)
<1>8. /\ Cardinality(Phases) = 4
      /\ \A s \in SUBSET Phases : IsFiniteSet(s)
  <2>1. /\ IsFiniteSet({"audit"}) /\ Cardinality({"audit"}) = 1
    BY FS_Singleton
  <2>2. /\ IsFiniteSet({"audit"} \cup {"implementation"})
        /\ Cardinality({"audit"} \cup {"implementation"}) = 2
    BY <2>1, FS_AddElement
  <2>3. /\ IsFiniteSet(({"audit"} \cup {"implementation"}) \cup {"remediation"})
        /\ Cardinality(({"audit"} \cup {"implementation"}) \cup {"remediation"}) = 3
    BY <2>2, FS_AddElement
  <2> DEFINE three == ({"audit"} \cup {"implementation"}) \cup {"remediation"}
  <2>4. "technical-hygiene" \notin three
    OBVIOUS
  <2>5. Phases = three \cup {"technical-hygiene"}
    BY DEF Phases
  <2> HIDE DEF three
  <2>6. IsFiniteSet(Phases) /\ Cardinality(Phases) = 4
    BY <2>3, <2>4, <2>5, FS_AddElement DEF three
  <2> QED
    BY <2>6, FS_Subset
<1>9. Level(0)
  BY <1>7, <1>8, FS_EmptySet
<1>10. ASSUME NEW k \in Nat, Level(k) PROVE Level(k + 1)
  <2> SUFFICES ASSUME NEW s \in SUBSET Phases, Cardinality(s) = k + 1 PROVE iter[s] = sum(s)
    OBVIOUS
  <2>1. s # {}
    BY FS_EmptySet
  <2>2. pick(s) \in s /\ s \ {pick(s)} \in SUBSET Phases
    BY <1>3, <2>1
  <2>3. Cardinality(s \ {pick(s)}) = k
    BY <1>8, <2>2, FS_RemoveElement
  <2>4. iter[s \ {pick(s)}] = sum(s \ {pick(s)})
    BY <1>10, <2>2, <2>3
  <2> HIDE DEF sum
  <2> QED
    BY <1>4, <1>7, <2>1, <2>4
<1>11. Level(4)
  <2> HIDE DEF Level
  <2> QED
    BY <1>9, <1>10
<1>12. "audit" \in Phases
  BY DEF Phases
<1> QED
  BY <1>1, <1>8, <1>11, <1>12

LEMMA RowsOfDelivery ==
  ASSUME NEW record
  PROVE  \A row \in RowsOf(record) : row.delivery = Id(record)
BY DEF RowsOf

LEMMA ScopeOfOne ==
  ASSUME NEW store, StoreTyped(store), NEW record \in store, NEW scope \in SUBSET RowsOf(record)
  PROVE  RecordsIn(scope, store) = IF scope = {} THEN {} ELSE {record}
BY RowsOfDelivery DEF RecordsIn, StoreTyped

LEMMA AttemptsAreNat ==
  ASSUME NEW record, record.audits \in Nat, IsFiniteSet(record.ledger), NEW scope
  PROVE  AuditAttemptsIn(scope, record) \in Nat
<1> DEFINE whole == AuditRows(RowsOf(record))
           held == AuditRows(scope) \cap whole
           attempts == {row.attempt : row \in held}
<1>1. IsFiniteSet(attempts)
  <2>1. attempts \subseteq {e.attempt : e \in record.ledger} \cup {0}
    BY DEF RowsOf, AuditRows
  <2>2. IsFiniteSet({e.attempt : e \in record.ledger})
    <3> DEFINE f == [e \in record.ledger |-> e.attempt]
               T == {e.attempt : e \in record.ledger}
    <3>1. f \in Surjection(record.ledger, T)
      BY DEF Surjection
    <3> HIDE DEF f, T
    <3>2. IsFiniteSet(T)
      BY <3>1, FS_Surjection
    <3> QED
      BY <3>2 DEF T
  <2>3. IsFiniteSet({e.attempt : e \in record.ledger} \cup {0})
    BY <2>2, FS_AddElement
  <2> QED
    BY <2>1, <2>3, FS_Subset
<1>2. Cardinality(attempts) \in Nat
  BY <1>1, FS_CardinalityType
<1> QED
  BY <1>2 DEF AuditAttemptsIn

\* No group of other rows inherits the audits of the delivery.
LEMMA GroupsOfRecord ==
  ASSUME NEW store, StoreTyped(store), NEW record \in store, AuditRows(RowsOf(record)) # {}
  PROVE  LET rows == RowsOf(record)
         IN  MapThenSumSet(LAMBDA phase : ReportedAudits(GroupOf(rows, phase), store), Phases)
               = ReportedAudits(rows, store)
<1> DEFINE rows == RowsOf(record)
           n == AuditAttemptsIn(rows, record)
<1>1. record.audits \in Nat /\ IsFiniteSet(record.ledger)
  BY DEF StoreTyped
<1>2. n \in Nat
  BY <1>1, AttemptsAreNat
<1>3. rows # {} /\ rows \in SUBSET rows
  BY DEF AuditRows
<1>4. ReportedAudits(rows, store) = n
  <2>1. RecordsIn(rows, store) = {record}
    BY <1>3, ScopeOfOne
  <2> QED
    BY <1>2, <2>1, SumOfOne
<1>5. ASSUME NEW phase \in Phases
      PROVE  ReportedAudits(GroupOf(rows, phase), store) = IF phase = "audit" THEN n ELSE 0
  <2> DEFINE group == GroupOf(rows, phase)
  <2>1. group \in SUBSET RowsOf(record)
    BY DEF GroupOf
  <2>2. CASE phase = "audit"
    <3>1. group = AuditRows(rows) /\ group # {} /\ AuditRows(group) = AuditRows(rows)
      BY <2>2 DEF GroupOf, AuditRows
    <3>2. AuditAttemptsIn(group, record) = n
      BY <3>1 DEF AuditAttemptsIn
    <3>3. RecordsIn(group, store) = {record}
      BY <2>1, <3>1, ScopeOfOne
    <3> QED
      BY <1>2, <2>2, <3>2, <3>3, SumOfOne
  <2>3. CASE phase # "audit" /\ group = {}
    <3>1. RecordsIn(group, store) = {}
      BY <2>1, <2>3, ScopeOfOne
    <3> QED
      BY <2>3, <3>1, SumOfNone
  <2>4. CASE phase # "audit" /\ group # {}
    <3>1. AuditRows(group) = {}
      BY <2>4 DEF GroupOf, AuditRows
    <3>2. AuditAttemptsIn(group, record) = 0
      <4>1. AuditRows(group) \cap AuditRows(RowsOf(record)) = {}
        BY <3>1
      <4>2. {row.attempt : row \in {}} = {} /\ Cardinality({}) = 0
        BY FS_EmptySet
      <4> HIDE DEF group
      <4> QED
        BY <4>1, <4>2 DEF AuditAttemptsIn
    <3>3. RecordsIn(group, store) = {record}
      BY <2>1, <2>4, ScopeOfOne
    <3>4. ReportedAudits(group, store) = 0
      BY <3>2, <3>3, SumOfOne
    <3> QED
      BY <2>4, <3>4
  <2> QED
    BY <2>2, <2>3, <2>4
<1> HIDE DEF n, rows
<1>6. MapThenSumSet(LAMBDA phase : ReportedAudits(GroupOf(rows, phase), store), Phases) = n
  BY <1>2, <1>5, SumOverPhases
<1> QED
  BY <1>4, <1>6 DEF rows

\* What the phase groups of the report say of the audits of a delivery adds up to what it says
\* of the whole delivery (auditAttemptsForScope, groupLedgerEntries).
THEOREM ReportAddsUp == Spec => []GroupsAddUp
<1>1. StoresTyped => GroupsAddUp
  BY GroupsOfRecord DEF StoresTyped, GroupsAddUp
<1> QED
  BY <1>1, TypeInvariance, PTL
================================================================================
