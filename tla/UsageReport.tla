------------------------------ MODULE UsageReport ------------------------------
(***************************************************************************)
(* The projection that the AI usage report computes from the operational   *)
(* metrics store (src/v2/ai-usage-ledger.mjs): the rows of a delivery's    *)
(* record, the groups of rows, and how many provider runs and audit        *)
(* attempts a scope of rows is said to contain.  Costs, tokens, periods    *)
(* and the other filters are left out: they select rows or add up values   *)
(* that no row shares with another.                                        *)
(*                                                                         *)
(* A record of the store has a pull request and a head, which identify it, *)
(* the provider calls, the ledger of provider runs, how complete that      *)
(* ledger is, and the delivery's own count of audit attempts.  The attempt *)
(* of a ledger entry is 0 when the entry does not say it.                  *)
(***************************************************************************)
EXTENDS Naturals, FiniteSets, FiniteSetsExt

Phases == {"implementation", "remediation", "technical-hygiene", "audit"}
Accountings == {"complete", "partial", "legacy"}

Id(record) == <<record.pr, record.head>>

\* The rows of one record: its provider runs; or one row that proves there was
\* no call; or, for a record older than the ledger, one row for each stage.
RowsOf(record) ==
  LET row(kind, run, phase, attempt) ==
        [kind |-> kind, delivery |-> Id(record), run |-> run, phase |-> phase, attempt |-> attempt]
  IN  IF record.ledger # {}
      THEN {row("run", e.run, e.phase, e.attempt) : e \in record.ledger}
      ELSE IF record.accounting = "complete" /\ record.calls = 0
      THEN {row("zero-calls", 0, "unknown", 0)}
      ELSE {row("legacy-aggregate", 0, stage, 0) : stage \in {"implementation", "audit"}}

RowsOfStore(store) == UNION {RowsOf(r) : r \in store}

AuditRows(rows) == {row \in rows : row.phase = "audit"}

\* Every audit row of the delivery names its attempt.
Identified(rows) == AuditRows(rows) # {} /\ \A row \in AuditRows(rows) : row.attempt # 0

AuditAttemptsInherited(scope, record) ==
  LET whole == AuditRows(RowsOf(record))
      held  == AuditRows(scope) \cap whole
  IN  IF Identified(RowsOf(record)) THEN Cardinality({row.attempt : row \in held})
      ELSE record.audits
\* The audit attempts of a delivery that a scope of rows is said to hold: the
\* attempts its rows name; or the delivery's own count when the scope has all
\* of its audit rows; nothing (unknown) otherwise.
AuditAttemptsIn(scope, record) ==
  LET whole == AuditRows(RowsOf(record))
      held  == AuditRows(scope) \cap whole
  IN  IF Identified(RowsOf(record)) THEN Cardinality({row.attempt : row \in held})
      ELSE IF held = whole THEN record.audits
      ELSE 0

RecordsIn(scope, store) == {r \in store : \E row \in scope : row.delivery = Id(r)}

\* What aggregateLedgerEntries says of a scope.
ReportedRuns(scope) == Cardinality({row \in scope : row.kind = "run"})
ReportedAudits(scope, store) ==
  MapThenSumSet(LAMBDA r : AuditAttemptsIn(scope, r), RecordsIn(scope, store))

\* The groups of groupLedgerEntries by phase.
GroupOf(rows, phase) == {row \in rows : row.phase = phase}
================================================================================
