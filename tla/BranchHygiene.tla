----------------------------- MODULE BranchHygiene -----------------------------
(***************************************************************************)
(* The sweep that deletes incorporated branches of a managed repository    *)
(* (src/v2/branch-hygiene.mjs, --apply): an inspection of every branch,    *)
(* then, for each candidate, a second listing, a second evaluation of      *)
(* every gate and the deletion of the ref by name.  Each read is a request *)
(* of its own, and people and bots change the repository between any two.  *)
(*                                                                         *)
(* Several processes sweep: the service does it as a child of the release  *)
(* cycle (VpsRuntime), a person may run the command directly.              *)
(***************************************************************************)
EXTENDS Naturals, Sequences, FiniteSets

CONSTANTS
  Branches,       \* branch names other than the default branch, main and develop
  Sweepers,       \* the processes that may run the command
  LockFiles,      \* values of --lock-file: the service's and the default one
  MaxTips,        \* bound on the commits each branch points at in turn
  MaxEvents       \* bound on what happens around the processes

ASSUME HygieneAssumption == MaxTips \in Nat \ {0} /\ MaxEvents \in Nat /\ LockFiles # {}

VARIABLES
  branches,   \* each branch: its commit, whether it is there, the reasons to keep it
  sweep,      \* each process that sweeps
  runLock,    \* each lock file: who created it
  since,      \* history: the branches that changed since a sweep listed them last
  events      \* how many events of the environment have happened

hygieneVars == <<branches, sweep, runLock, since, events>>

Free == "free"
Stale == "stale"      \* the file was left by a process that is gone

Reasons == {"protected", "ruleset", "recent", "open-pr", "active-ci", "unique-commits"}

\* The reasons each request of evaluateBranch can show, in the order of the requests:
\* the branch itself, its rules, its open pull requests, its runs and checks, and the
\* comparison with the base.  Only the first answer carries the protection and the age.
Gates == << {"protected", "recent"}, {"ruleset"}, {"open-pr"}, {"active-ci"},
            {"unique-commits"} >>

Refs == [name : Branches, sha : 1..MaxTips]
NoRef == [name |-> "none", sha |-> 0]
NoSweep == [pc |-> "off", file |-> CHOOSE f \in LockFiles : TRUE,
            todo |-> {}, found |-> {}, ref |-> NoRef, gate |-> 0]

Branch == [sha : 1..MaxTips, live : BOOLEAN, keep : SUBSET Reasons]
SweepState ==
  [pc : {"off", "list", "inspect", "revalidate", "delete", "done", "failed"},
   file : LockFiles, todo : SUBSET Refs, found : SUBSET Refs,
   ref : Refs \union {NoRef}, gate : 0..(Len(Gates) - 1)]

HygieneTypeOK ==
  /\ branches \in [Branches -> Branch]
  /\ sweep \in [Sweepers -> SweepState]
  /\ \A p \in Sweepers : sweep[p].gate > 0 \/ sweep[p].pc \in {"revalidate", "delete"} =>
       sweep[p].ref \in Refs
  /\ runLock \in [LockFiles -> Sweepers \union {Free, Stale}]
  /\ since \in [Sweepers -> SUBSET Branches]
  /\ events \in 0..MaxEvents

HygieneInit ==
  /\ branches \in [Branches -> [sha : {1}, live : {TRUE}, keep : {{}}]]
  /\ sweep = [p \in Sweepers |-> NoSweep]
  /\ runLock = [f \in LockFiles |-> Free]
  /\ since = [p \in Sweepers |-> {}]
  /\ events = 0

-----------------------------------------------------------------------------
(* The repository around the sweeps.                                         *)

Happens == events < MaxEvents /\ events' = events + 1

Changes(b, now) ==
  /\ Happens
  /\ branches' = [branches EXCEPT ![b] = now]
  /\ since' = [p \in Sweepers |->
                 IF sweep[p].pc \in {"revalidate", "delete"} THEN since[p] \union {b} ELSE since[p]]
  /\ UNCHANGED <<sweep, runLock>>

\* Somebody pushes to the branch, or creates it again after it was deleted.  A pushed
\* commit may be an old one, and may be incorporated already.
Push(b) ==
  /\ branches[b].sha < MaxTips
  /\ \E new \in SUBSET {"recent", "unique-commits"} :
       Changes(b, [sha |-> branches[b].sha + 1, live |-> TRUE,
                   keep |-> (branches[b].keep \ {"recent", "unique-commits"}) \union new])

\* The base incorporates the branch.
Merge(b) ==
  /\ branches[b].live /\ "unique-commits" \in branches[b].keep
  /\ Changes(b, [branches[b] EXCEPT !.keep = @ \ {"unique-commits"}])

\* A protection, a rule, a pull request or a run comes or goes.
Toggle(b) ==
  /\ branches[b].live
  /\ \E r \in Reasons \ {"recent", "unique-commits"} :
       Changes(b, [branches[b] EXCEPT !.keep = IF r \in @ THEN @ \ {r} ELSE @ \union {r}])

-----------------------------------------------------------------------------
(* One process: runBranchHygiene.                                            *)

At(p, pc) == sweep[p].pc = pc

Listed == { [name |-> b, sha |-> branches[b].sha] : b \in {c \in Branches : branches[c].live} }

\* The lock file is created with 'wx'; a process that finds one throws, and nothing asks
\* whether its creator still runs.
TakesRunLock(p, f) ==
  IF runLock[f] = Free
    THEN /\ runLock' = [runLock EXCEPT ![f] = p]
         /\ sweep' = [sweep EXCEPT ![p] = [NoSweep EXCEPT !.pc = "list", !.file = f]]
    ELSE /\ sweep' = [sweep EXCEPT ![p] = [NoSweep EXCEPT !.pc = "failed"]]
         /\ UNCHANGED runLock

\* inspectRepository: the listing that every branch is inspected from.
List(p) ==
  /\ At(p, "list")
  /\ sweep' = [sweep EXCEPT ![p].pc = "inspect", ![p].todo = Listed]
  /\ UNCHANGED <<branches, runLock, since, events>>

\* One request of evaluateBranch.  The first one compares the commit with the listed one;
\* the others address the branch by name, whatever it points at by then, and there is
\* nothing to compare when the branch is gone.
PassesGate(ref, n) ==
  LET b == branches[ref.name] IN
    /\ n = 1 => b.live /\ b.sha = ref.sha
    /\ n = Len(Gates) => b.live
    /\ b.keep \intersect Gates[n] = {}

UnderInspection(p) == IF sweep[p].gate = 0 THEN sweep[p].todo ELSE {sweep[p].ref}

\* The first pass: each listed branch in turn becomes a candidate or is preserved.
Inspect(p) ==
  /\ At(p, "inspect")
  /\ \E ref \in UnderInspection(p) :
       LET n == sweep[p].gate + 1
           next == [sweep[p] EXCEPT !.todo = @ \ {ref}, !.ref = NoRef, !.gate = 0]
       IN sweep' = [sweep EXCEPT ![p] =
            IF ~PassesGate(ref, n) THEN next
            ELSE IF n = Len(Gates) THEN [next EXCEPT !.found = @ \union {ref}]
            ELSE [sweep[p] EXCEPT !.ref = ref, !.gate = n]]
  /\ UNCHANGED <<branches, runLock, since, events>>

Inspected(p) == At(p, "inspect") /\ sweep[p].todo = {}

\* A candidate that the sweep turns to is not looked at again after it is preserved.
Preserved(p) == [sweep[p] EXCEPT !.pc = "inspect", !.ref = NoRef, !.gate = 0]

\* A sweep that trusts its first pass.
RelistTrusting(p) ==
  /\ Inspected(p)
  /\ \E ref \in sweep[p].found :
       sweep' = [sweep EXCEPT ![p].pc = "delete", ![p].found = @ \ {ref}, ![p].ref = ref]
  /\ since' = [since EXCEPT ![p] = {}]
  /\ UNCHANGED <<branches, runLock, events>>

\* The second listing, for one candidate; the sweep turns to its gates only when the
\* branch still points at the commit that was inspected.
Relist(p) ==
  /\ Inspected(p)
  /\ \E ref \in sweep[p].found :
       LET turned == [sweep[p] EXCEPT !.found = @ \ {ref}] IN
         sweep' = [sweep EXCEPT ![p] =
           IF ref \in Listed
             THEN [turned EXCEPT !.pc = "revalidate", !.ref = ref, !.gate = 0]
           ELSE turned]
  /\ since' = [since EXCEPT ![p] = {}]
  /\ UNCHANGED <<branches, runLock, events>>

\* The second pass over the gates.
Revalidate(p) ==
  /\ At(p, "revalidate")
  /\ LET n == sweep[p].gate + 1 IN
       sweep' = [sweep EXCEPT ![p] =
         IF ~PassesGate(sweep[p].ref, n) THEN Preserved(p)
         ELSE IF n = Len(Gates) THEN [sweep[p] EXCEPT !.pc = "delete"]
         ELSE [sweep[p] EXCEPT !.gate = n]]
  /\ UNCHANGED <<branches, runLock, since, events>>

\* The reference is deleted by name, whatever it points at; one that is gone is an error,
\* and an error preserves the branch.
DeleteBranch(p) ==
  /\ At(p, "delete")
  /\ branches' = [branches EXCEPT ![sweep[p].ref.name].live = FALSE]
  /\ sweep' = [sweep EXCEPT ![p] = Preserved(p)]
  /\ UNCHANGED <<runLock, since, events>>

\* The audit is written, the lock file is removed, the process exits with 0.
Finish(p) ==
  /\ Inspected(p)
  /\ sweep[p].found = {}
  /\ sweep' = [sweep EXCEPT ![p] = [NoSweep EXCEPT !.pc = "done"]]
  /\ runLock' = [runLock EXCEPT ![sweep[p].file] = Free]
  /\ since' = [since EXCEPT ![p] = {}]
  /\ UNCHANGED <<branches, events>>

\* A request fails.  A failed listing leaves nothing to look at; any other preserves the
\* branch it was for; a deletion may have happened although its answer was lost.
RequestFails(p) ==
  /\ Happens
  /\ \/ /\ At(p, "list")
        /\ sweep' = [sweep EXCEPT ![p].pc = "inspect"]
        /\ UNCHANGED branches
     \/ /\ At(p, "inspect")
        /\ \E ref \in UnderInspection(p) :
             sweep' = [sweep EXCEPT ![p] = [Preserved(p) EXCEPT !.todo = @ \ {ref}]]
        /\ UNCHANGED branches
     \/ /\ Inspected(p)
        /\ \E ref \in sweep[p].found : sweep' = [sweep EXCEPT ![p].found = @ \ {ref}]
        /\ UNCHANGED branches
     \/ /\ At(p, "revalidate")
        /\ sweep' = [sweep EXCEPT ![p] = Preserved(p)]
        /\ UNCHANGED branches
     \/ /\ At(p, "delete")
        /\ sweep' = [sweep EXCEPT ![p] = Preserved(p)]
        /\ branches' = branches
           \/ branches' = [branches EXCEPT ![sweep[p].ref.name].live = FALSE]
  /\ UNCHANGED <<runLock, since>>

SweepStep(p) ==
  List(p) \/ Inspect(p) \/ Relist(p) \/ Revalidate(p) \/ DeleteBranch(p) \/ Finish(p)

AroundSweeps ==
  \/ \E b \in Branches : Push(b) \/ Merge(b) \/ Toggle(b)
  \/ \E p \in Sweepers : RequestFails(p)

-----------------------------------------------------------------------------

\* A branch disappears only by a sweep that is about to delete it by its name, and only when
\* it has no reason to be kept - no pull request, no run, no rule, no unincorporated commit -
\* or has changed in any way since that sweep listed the repository for the second time (the
\* deletion names no commit, so that window remains).  A reason that was there at the second
\* listing of a branch that has not changed since is never overlooked.
DeletesWhatItReread ==
  [][\A b \in Branches : branches[b].live /\ ~branches'[b].live =>
       \E p \in Sweepers : /\ At(p, "delete") /\ sweep[p].ref.name = b
                           /\ branches[b].keep = {} \/ b \in since[p]]_hygieneVars
=============================================================================
