---------------------------- MODULE UsageAccounting ----------------------------
(***************************************************************************)
(* How the provider runs of one delivery are counted over the sessions     *)
(* that serve it, and how its record reaches the metrics store that every  *)
(* delivery shares (src/v2/controller-observability.mjs, metrics.mjs,      *)
(* metrics-store.mjs, their callers in the two controllers, and the        *)
(* publication step of .github/workflows/delivery-v2-dispatch.yml).        *)
(*                                                                         *)
(* The accumulator lives in the memory of a session and is written to the  *)
(* state comment together with the rest of the state; a session may end at *)
(* any point and the next one starts from the comment.  Which stage comes  *)
(* next is DeliveryController's subject: here any stage may.  A dispatch    *)
(* and the comment that names the run are one step, since the next session *)
(* finds a run that the comment does not name yet by its nonce             *)
(* (StageRecovery).                                                        *)
(***************************************************************************)
EXTENDS Naturals, Sequences, FiniteSets, UsageReport

CONSTANTS
  MaxRuns,     \* bound on the provider runs of the delivery
  MaxHeads,    \* bound on the material heads of the pull request
  MaxOthers    \* bound on the records that other deliveries publish meanwhile

ASSUME BoundsAssumption ==
  MaxRuns \in Nat \ {0} /\ MaxHeads \in Nat \ {0} /\ MaxOthers \in Nat

VARIABLES
  runs,       \* the provider runs of the delivery, in the order of their dispatch
  head,       \* the material head of the pull request
  comment,    \* the state comment
  session,    \* which controller runs: "none", "initial", "resumed"
  at,         \* where it is
  mem,        \* what it holds in memory
  open,       \* the stage it waits for
  checkout,   \* the store in its working copy
  origin,     \* the store on the default branch
  others      \* how many records other deliveries have published

vars == <<runs, head, comment, session, at, mem, open, checkout, origin, others>>

Heads == 1..MaxHeads
RunIds == 1..MaxRuns

\* ok: succeeded; red: failed after it had delivered a verdict; dead: failed with
\* nothing to read.  An audit that rejects the context makes no provider call.
ProviderRuns == [phase : Phases, outcome : {"ok", "red", "dead"}, calls : {0, 1}]

Entries == [run : RunIds, phase : Phases, attempt : 0..MaxRuns]

NoComment == [exists |-> FALSE]
NoStage == [phase |-> "none", ids |-> <<>>, way |-> "fresh", retried |-> FALSE]
NoMemory == [exists |-> FALSE]

--------------------------------------------------------------------------------
(* The accumulator.                                                        *)

\* createControllerObservability
NewAccount ==
  [calls |-> 0, ids |-> {}, observed |-> {}, ledger |-> {}, ledgerWhole |-> TRUE, zero |-> 0,
   whole |-> TRUE, failed |-> {}, audit |-> 0, ciWhole |-> TRUE, ci |-> {}]

\* What a controller that had no ledger left in the comment: one call that no
\* entry describes, and perhaps no provider accounting and no CI timing either.
OldAccount(fields) ==
  [NewAccount EXCEPT !.calls = 1, !.ids = {1}, !.observed = {1}, !.ledgerWhole = FALSE,
                     !.whole = fields, !.ciWhole = fields]

\* The conditions under which normalizeControllerObservability does not throw.
Readable(account) ==
  /\ account.ids \subseteq account.observed
  /\ account.calls = Cardinality(account.ids)
  /\ Cardinality(account.ledger) <= account.calls
  /\ \A d, e \in account.ledger : d.run = e.run => d = e
  /\ \A e \in account.ledger : e.run \in account.ids
  /\ account.ledgerWhole => Cardinality(account.ledger) = account.calls
  /\ account.whole => account.failed = {}

SeenByLedger(account, id) == id \in account.ids
Seen(account, id) == id \in account.observed

LedgerPhase(phase) ==
  IF session = "initial" \/ phase = "audit" THEN phase ELSE "implementation"

\* recordControllerProviderObservation
Observed(account, id, phase, attempt) ==
  IF Seen(account, id) THEN account
  ELSE LET timed == [account EXCEPT !.observed = @ \cup {id},
                                    !.audit = IF phase = "audit" THEN @ + 1 ELSE @]
       IN  IF runs[id].calls = 0
           THEN [timed EXCEPT !.zero = @ + 1]
           ELSE [timed EXCEPT !.calls = @ + 1, !.ids = @ \cup {id},
                   !.ledger = @ \cup {[run |-> id, phase |-> LedgerPhase(phase), attempt |-> attempt]}]

AuditFailedSilently(account, id) ==
  IF id \in account.observed \cup account.failed THEN account
  ELSE [account EXCEPT !.failed = @ \cup {id}, !.audit = @ + 1]
AuditFailedAgain(account, id) ==
  IF id \in account.observed THEN account
  ELSE [account EXCEPT !.whole = FALSE, !.failed = @ \cup {id}, !.audit = @ + 1]
\* recordControllerAuditWorkflowFailure
AuditFailed(account, id) ==
  IF id \in account.observed \cup account.failed THEN account
  ELSE [account EXCEPT !.whole = FALSE, !.failed = @ \cup {id}, !.audit = @ + 1]

\* recordControllerCiObservation
CiObserved(account, sha) == [account EXCEPT !.ci = @ \cup {sha}]

LoadedAfresh(state) == IF state.account.ledgerWhole THEN state.account ELSE NewAccount
\* What initializeResumeObservability takes from the comment.
Loaded(state) == state.account

\* The conditions under which createControllerDeliveryMetrics does not throw.
Publishable(account) == account.ciWhole /\ account.whole /\ account.ci # {}

\* createControllerDeliveryMetrics
RecordOf(memory, sha) ==
  [pr |-> 1, head |-> sha, calls |-> memory.account.calls, ledger |-> memory.account.ledger,
   accounting |-> IF memory.account.ledgerWhole THEN "complete" ELSE "partial",
   audits |-> memory.audits]

--------------------------------------------------------------------------------
(* The store.                                                              *)

\* upsertDeliveryMetrics
Upserted(store, record) == {r \in store : Id(r) # Id(record)} \cup {record}

Forced(store, mine) == mine
\* git pull --rebase, when the two changes do not conflict.
Rebased(store, mine) == {r \in store : r.pr # 1} \cup {r \in mine : r.pr = 1}

\* A record that another delivery publishes.
OtherRecord(n) ==
  [pr |-> 2, head |-> n, calls |-> 2, accounting |-> "complete", audits |-> 1,
   ledger |-> {[run |-> 1, phase |-> "implementation", attempt |-> 0],
               [run |-> 2, phase |-> "audit", attempt |-> 1]}]

\* Records of older controllers: before the ledger, and before its entries said
\* which audit attempt they belong to.
OldRecords ==
  {[OtherRecord(0) EXCEPT !.ledger = {}, !.accounting = "legacy"],
   [OtherRecord(0) EXCEPT !.ledger =
      {[run |-> 1, phase |-> "implementation", attempt |-> 0],
       [run |-> 2, phase |-> "audit", attempt |-> 0]}]}

--------------------------------------------------------------------------------
(* Sessions.                                                               *)

\* What the comment keeps of a stage: its last run and its retry.
Stored(stage) ==
  IF stage = NoStage THEN stage
  ELSE [stage EXCEPT !.ids = <<@[Len(@)]>>, !.way = "adopted"]

\* (The accumulator that the comment had when the session began.)
SavedStale(memory, stage, status) ==
  [exists |-> TRUE, account |-> IF comment.exists THEN comment.account ELSE memory.account,
   done |-> memory.done, audits |-> memory.audits, audit |-> memory.audit, head |-> memory.head,
   stage |-> Stored(stage), status |-> status]
\* persist: the state and the accumulator go to the comment together.
Saved(memory, stage, status) ==
  [exists |-> TRUE, account |-> memory.account, done |-> memory.done, audits |-> memory.audits,
   audit |-> memory.audit, head |-> memory.head, stage |-> Stored(stage), status |-> status]

Save(memory, stage, status) == comment' = Saved(memory, stage, status)

Over(where) ==
  /\ session' = "none" /\ at' = where /\ mem' = NoMemory /\ open' = NoStage /\ checkout' = {}

Idle == at \in {"none", "metrics-error"}

Init ==
  /\ head = 1
  /\ \/ runs = <<>> /\ comment = NoComment
     \/ /\ runs = <<[phase |-> "implementation", outcome |-> "ok", calls |-> 1]>>
        /\ \E fields \in BOOLEAN :
             comment = [exists |-> TRUE, account |-> OldAccount(fields), done |-> {1}, audits |-> 0,
                        audit |-> 0, head |-> 1, stage |-> NoStage, status |-> "working"]
  /\ session = "none" /\ at = "none" /\ mem = NoMemory /\ open = NoStage
  /\ checkout = {} /\ others = 0
  /\ \E old \in SUBSET OldRecords : Cardinality(old) <= 1 /\ origin = old

\* The initial controller, with a new attempt or with the worker run that the
\* guard tells it to recover.  The accumulator starts empty.
BeginInitial ==
  /\ Idle /\ ~comment.exists
  /\ session' = "initial"
  /\ mem' = [exists |-> TRUE, account |-> NewAccount, done |-> {}, audits |-> 0, audit |-> 0,
             head |-> head]
  /\ checkout' = origin
  /\ \/ /\ runs # <<>> => runs[Len(runs)].outcome = "dead"
        /\ at' = "bootstrap" /\ open' = NoStage
     \/ /\ runs # <<>>
        /\ at' = "waiting"
        /\ open' = [phase |-> "implementation", ids |-> <<Len(runs)>>, way |-> "adopted",
                    retried |-> FALSE]
  /\ UNCHANGED <<runs, head, comment, origin, others>>

\* The resumed controller takes up the comment, with the stage it names unless
\* the head has left it.  A delivery that ended is resumed only at another head.
BeginResumed ==
  /\ Idle /\ comment.exists
  /\ comment.status = "working" \/ comment.head # head
  /\ session' = "resumed"
  /\ LET stage == IF comment.head = head \/ comment.stage.phase = "remediation"
                  THEN comment.stage ELSE NoStage
         memory == [exists |-> TRUE, account |-> Loaded(comment), done |-> comment.done,
                    audits |-> comment.audits, head |-> head,
                    audit |-> IF comment.head = head THEN comment.audit ELSE 0]
     IN  /\ mem' = memory
         /\ open' = stage
         /\ at' = IF stage = NoStage THEN "loop" ELSE "waiting"
         /\ Save(memory, stage, "working")
  /\ checkout' = origin
  /\ UNCHANGED <<runs, head, origin, others>>

\* A remediation that succeeds moves the head; only an audit delivers a verdict in a
\* failed run, or makes no provider call.
MayEnd(phase, outcome, calls) ==
  /\ phase = "remediation" /\ outcome = "ok" => head < MaxHeads
  /\ phase # "audit" => outcome # "red" /\ calls = 1

\* A stage is launched and the comment names its run (the bootstrap worker has
\* no comment yet).  The initial controller has always seen CI at the head first.
Dispatch(phase, outcome, calls) ==
  /\ Len(runs) < MaxRuns
  /\ IF phase = "implementation" THEN at = "bootstrap" ELSE at = "loop" /\ mem.head = head
  /\ session = "initial" /\ phase \in {"remediation", "audit"} => head \in mem.account.ci
  /\ MayEnd(phase, outcome, calls)
  /\ runs' = Append(runs, [phase |-> phase, outcome |-> outcome, calls |-> calls])
  /\ mem' = IF phase = "audit" THEN [mem EXCEPT !.audits = @ + 1] ELSE mem
  /\ open' = [phase |-> phase, ids |-> <<Len(runs) + 1>>, way |-> "fresh", retried |-> FALSE]
  /\ IF phase = "implementation" THEN UNCHANGED comment ELSE Save(mem', open', "working")
  /\ at' = "waiting"
  /\ UNCHANGED <<head, session, checkout, origin, others>>

LastOf(stage) == stage.ids[Len(stage.ids)]
DeadNow == runs[LastOf(open)].outcome = "dead"

Observe(id, phase) == Observed(mem.account, id, phase, mem.audits)

\* The one infrastructure retry of a stage.  A remediation run that the session
\* adopted is counted before; one that replaced it is not retried in this session.
Retry(outcome, calls) ==
  /\ at = "waiting" /\ open.phase # "implementation" /\ ~open.retried
  /\ open.phase = "remediation" => open.way # "rearmed"
  /\ DeadNow /\ Len(runs) < MaxRuns
  /\ MayEnd(open.phase, outcome, calls)
  /\ runs' = Append(runs, [phase |-> open.phase, outcome |-> outcome, calls |-> calls])
  /\ open' = [open EXCEPT !.ids = Append(@, Len(runs) + 1), !.retried = TRUE]
  /\ mem' = IF open.way = "adopted" /\ open.phase = "remediation"
            THEN [mem EXCEPT !.account = Observe(LastOf(open), open.phase)] ELSE mem
  /\ Save(mem', open', "working")
  /\ UNCHANGED <<head, session, at, checkout, origin, others>>

\* Every run of the stage that this session waited for.
ObservedAll == Observed(Observe(open.ids[1], open.phase), LastOf(open), open.phase, mem.audits)

\* An adopted run of an earlier control plane may be replaced by one of the present
\* control plane, whatever was retried: a failed remediation, also after its retry; a
\* failed audit; and a hygiene run that failed or was not consumed.
CanRearm ==
  /\ at = "waiting" /\ session = "resumed" /\ open.way = "adopted"
  /\ DeadNow \/ open.phase = "technical-hygiene"
  /\ open.phase # "remediation" => Len(open.ids) = 1

\* What a remediation has run so far is counted before, an audit or a hygiene run that
\* is replaced never.  A hygiene stage starts over, with a retry of its own.
Rearm(outcome, calls) ==
  /\ CanRearm /\ Len(runs) < MaxRuns
  /\ MayEnd(open.phase, outcome, calls)
  /\ runs' = Append(runs, [phase |-> open.phase, outcome |-> outcome, calls |-> calls])
  /\ open' = IF open.phase = "technical-hygiene"
             THEN [open EXCEPT !.ids = <<Len(runs) + 1>>, !.way = "fresh", !.retried = FALSE]
             ELSE [open EXCEPT !.ids = <<Len(runs) + 1>>, !.way = "rearmed"]
  /\ mem' = IF open.phase = "remediation" THEN [mem EXCEPT !.account = ObservedAll] ELSE mem
  /\ Save(mem', open', "working")
  /\ UNCHANGED <<head, session, at, checkout, origin, others>>

Accepted(account) ==
  /\ mem' = [mem EXCEPT !.account = account, !.done = @ \cup {LastOf(open)}, !.head = head',
                        !.audit = IF open.phase = "audit" THEN LastOf(open)
                                  ELSE IF head' # head THEN 0 ELSE @]
  /\ open' = NoStage
  /\ at' = "settled"
  /\ UNCHANGED <<runs, comment, session, checkout, origin, others>>

\* The bootstrap worker: counted when it ends.  A failed one is followed by
\* another attempt of this session, or ends it.
SettleBootstrap ==
  /\ at = "waiting" /\ open.phase = "implementation"
  /\ head' = head
  /\ LET account == Observed(mem.account, LastOf(open), "implementation", 0)
     IN  \/ ~DeadNow /\ Accepted(account)
         \/ /\ DeadNow
            /\ \/ /\ at' = "bootstrap" /\ open' = NoStage
                  /\ mem' = [mem EXCEPT !.account = account]
                  /\ UNCHANGED <<session, checkout>>
               \/ Over("none")
            /\ UNCHANGED <<runs, comment, origin, others>>

\* A remediation worker: all its runs are counted; an accepted one moved the head.
\* The initial controller throws on a failed one without writing the comment.
SettleRemediation ==
  /\ at = "waiting" /\ open.phase = "remediation"
  /\ \/ /\ ~DeadNow /\ head < MaxHeads /\ head' = head + 1
        /\ Accepted(ObservedAll)
     \/ /\ DeadNow /\ head' = head
        /\ IF session = "initial" THEN UNCHANGED comment
           ELSE Save([mem EXCEPT !.account = ObservedAll], open, "working")
        /\ Over("none")
        /\ UNCHANGED <<runs, origin, others>>

\* The hygiene worker: its runs are counted when it succeeds, all of them where its
\* session promotes the evidence, the last one where a resumed session collects it.
SettleHygiene ==
  /\ at = "waiting" /\ open.phase = "technical-hygiene"
  /\ head' = head
  /\ \/ /\ ~DeadNow /\ open.way = "fresh"
        /\ Accepted(ObservedAll)
     \/ /\ ~DeadNow /\ session = "resumed"
        /\ Accepted(Observe(LastOf(open), open.phase))
     \/ /\ DeadNow
        /\ Over("none")
        /\ UNCHANGED <<runs, comment, origin, others>>

\* The audit.  The initial controller counts an earlier failed run and reads no
\* verdict from a failed one; the resumed one looks at the last run only and
\* takes the verdict of a failed one.
SettleAudit ==
  /\ at = "waiting" /\ open.phase = "audit"
  /\ head' = head
  /\ LET last == LastOf(open)
         before == IF session = "initial" /\ open.ids[1] # last
                   THEN AuditFailed(mem.account, open.ids[1]) ELSE mem.account
         readable == IF session = "initial" THEN {"ok"} ELSE {"ok", "red"}
     IN  \/ /\ runs[last].outcome \in readable
            /\ Accepted(Observed(before, last, "audit", mem.audits))
         \/ /\ runs[last].outcome \notin readable
            /\ Save([mem EXCEPT !.account = AuditFailed(before, last)], open, "working")
            /\ Over("none")
            /\ UNCHANGED <<runs, origin, others>>

\* The exact-head CI run.
ObserveCi ==
  /\ at = "loop" /\ mem.head = head
  /\ mem' = [mem EXCEPT !.account = CiObserved(@, head)]
  /\ at' = "settled"
  /\ UNCHANGED <<runs, head, comment, session, open, checkout, origin, others>>

\* What was accepted reaches the comment.
Persist ==
  /\ at = "settled"
  /\ Save(mem, NoStage, "working")
  /\ at' = "loop"
  /\ UNCHANGED <<runs, head, session, mem, open, checkout, origin, others>>

\* The session finds that the pull request has left its head.
Drift ==
  /\ at = "loop" /\ mem.head # head
  /\ Save(mem, NoStage, "working")
  /\ Over("none")
  /\ UNCHANGED <<runs, head, origin, others>>

\* The delivery ends: the release is published at the exact head (the resumed
\* controller observes CI and the audit once more), or a human takes over.
Finish(status) ==
  /\ at = "loop"
  /\ status = "ready" => mem.head = head /\ head \in mem.account.ci
  /\ LET again == IF mem.audit = 0 THEN mem.account
                  ELSE Observed(mem.account, mem.audit, "audit", mem.audits)
         memory == IF session = "resumed" /\ status = "ready"
                   THEN [mem EXCEPT !.account = CiObserved(again, head)] ELSE mem
     IN  mem' = memory /\ Save(memory, NoStage, status)
  /\ at' = "metrics"
  /\ UNCHANGED <<runs, head, session, open, checkout, origin, others>>

\* The record of the delivery, under the head the pull request has by now.  The
\* initial controller throws when it cannot be made; the resumed one goes without.
Measure ==
  /\ at = "metrics"
  /\ \/ /\ Publishable(mem.account)
        /\ checkout' = Upserted(checkout, RecordOf(mem, head))
        /\ at' = "publish"
        /\ UNCHANGED <<session, mem, open>>
     \/ /\ ~Publishable(mem.account)
        /\ Over(IF session = "initial" THEN "metrics-error" ELSE "none")
  /\ UNCHANGED <<runs, head, comment, origin, others>>

\* The workflow commits the store, rebases it and pushes; the record is lost when
\* that fails three times.
Publish ==
  /\ at = "publish"
  /\ \/ origin' = Rebased(origin, checkout)
     \/ UNCHANGED origin
  /\ Over("none")
  /\ UNCHANGED <<runs, head, comment, others>>

\* The runner is lost.
Kill ==
  /\ ~Idle
  /\ Over("none")
  /\ UNCHANGED <<runs, head, comment, origin, others>>

\* Somebody pushes to the pull request.
ForeignPush ==
  /\ comment.exists /\ head < MaxHeads
  /\ head' = head + 1
  /\ UNCHANGED <<runs, comment, session, at, mem, open, checkout, origin, others>>

\* Another delivery publishes its record.
OtherPublishes ==
  /\ others < MaxOthers
  /\ others' = others + 1
  /\ origin' = Upserted(origin, OtherRecord(others + 1))
  /\ UNCHANGED <<runs, head, comment, session, at, mem, open, checkout>>

Next ==
  \/ BeginInitial
  \/ BeginResumed
  \/ \E phase \in Phases, outcome \in {"ok", "red", "dead"}, calls \in {0, 1} :
       Dispatch(phase, outcome, calls)
  \/ \E outcome \in {"ok", "red", "dead"}, calls \in {0, 1} :
       Retry(outcome, calls) \/ Rearm(outcome, calls)
  \/ SettleBootstrap
  \/ SettleRemediation
  \/ SettleHygiene
  \/ SettleAudit
  \/ ObserveCi
  \/ Persist
  \/ Drift
  \/ \E status \in {"ready", "escalated"} : Finish(status)
  \/ Measure
  \/ Publish
  \/ Kill
  \/ ForeignPush
  \/ OtherPublishes

Spec == Init /\ [][Next]_vars

--------------------------------------------------------------------------------
(* Properties.                                                             *)

AccountOK(account) ==
  /\ DOMAIN account = DOMAIN NewAccount
  /\ account.calls \in 0..MaxRuns /\ account.zero \in 0..MaxRuns
  /\ account.audit \in 0..2 * MaxRuns
  /\ account.ids \cup account.observed \cup account.failed \subseteq 1..Len(runs)
  /\ account.ledger \subseteq Entries /\ account.ci \subseteq 1..head
  /\ {account.ledgerWhole, account.whole, account.ciWhole} \subseteq BOOLEAN
StageOK(stage) ==
  /\ stage.phase \in Phases \cup {"none"}
  /\ Len(stage.ids) \in (IF stage.phase = "none" THEN {0} ELSE {1, 2})
  /\ \A i \in DOMAIN stage.ids : stage.ids[i] \in 1..Len(runs)
  /\ stage.way \in {"fresh", "adopted", "rearmed"} /\ stage.retried \in BOOLEAN
MemoryOK(memory) ==
  /\ AccountOK(memory.account) /\ memory.done \subseteq 1..Len(runs)
  /\ memory.audits \in 0..MaxRuns /\ memory.audit \in 0..Len(runs) /\ memory.head \in 1..head

\* Types: what the sessions hold and write stays within the runs of the delivery
\* and the heads of its pull request.
TypeOK ==
  /\ runs \in Seq(ProviderRuns) /\ Len(runs) <= MaxRuns
  /\ head \in Heads /\ others \in 0..MaxOthers
  /\ session \in {"none", "initial", "resumed"}
  /\ at \in {"none", "bootstrap", "waiting", "settled", "loop", "metrics", "metrics-error", "publish"}
  /\ session = "none" <=> Idle
  /\ mem.exists = ~Idle
  /\ mem.exists => MemoryOK(mem)
  /\ comment.exists => MemoryOK(comment) /\ StageOK(comment.stage)
                       /\ comment.status \in {"working", "ready", "escalated"}
  /\ StageOK(open)
  /\ at = "waiting" <=> open # NoStage
  /\ \A r \in origin \cup checkout : r.accounting \in Accountings

\* What any session left in the comment is accepted by the normalization that the
\* next session starts with: a comment that is not would block the delivery for
\* good (normalizeControllerObservability throws).
StoredReadable == comment.exists => Readable(comment.account)

\* A run is counted once, however often sessions observe it again: as a call or
\* as a proven run without calls; and when the accounting is complete the audit
\* time has the time of every counted audit once.
CountedOnce ==
  \A state \in {s \in {mem, comment} : s.exists} :
    LET account == state.account
    IN  /\ account.zero = Cardinality(account.observed \ account.ids)
        /\ account.whole =>
             account.audit = Cardinality({id \in account.observed : runs[id].phase = "audit"})

\* The state never advances past a run that its own accumulator has not counted:
\* whatever result the comment builds on, its run is observed in the same comment,
\* wherever the sessions before it were cut off.
AdvanceIsAccounted == comment.exists => comment.done \subseteq comment.account.observed

\* Re-entry continues the counters and never restarts them (README.md:107).
CountersNeverRestart ==
  [][comment.exists =>
       /\ comment.account.observed \subseteq comment'.account.observed
       /\ comment.account.failed \subseteq comment'.account.failed
       /\ comment.account.ledger \subseteq comment'.account.ledger
       /\ comment'.account.calls >= comment.account.calls]_vars

\* Publishing the record of this delivery leaves the records that other
\* deliveries published meanwhile.
OthersKept == [][\A r \in origin : r.pr # 1 => r \in origin']_vars

\* For a delivery with audit rows, what the phase groups of the report say of its
\* audit attempts adds up to what the report says of it as a whole: no group of
\* other rows inherits the attempts of the delivery.
GroupsAddUp ==
  \A record \in origin :
    LET rows == RowsOf(record)
    IN  AuditRows(rows) # {} =>
          MapThenSumSet(LAMBDA phase : ReportedAudits(GroupOf(rows, phase), origin), Phases)
            = ReportedAudits(rows, origin)

\* Metrics must not fail a delivery that otherwise succeeded (metrics-store.mjs:32).
MetricsNeverFailADelivery == ~(at = "metrics-error" /\ comment.status = "ready")
================================================================================
