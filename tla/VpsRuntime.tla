------------------------------- MODULE VpsRuntime -------------------------------
(***************************************************************************)
(* The release runtime of the VPS (src/v2/vps-release-runtime.mjs and      *)
(* scripts/vps-release-hygiene.mjs): a cycle fetches main, validates the   *)
(* commit in a worktree of its own, switches the active link to it, runs   *)
(* the branch sweep of BranchHygiene from it and removes old releases.     *)
(* Cycles are started by the timer and by people; a cycle may be killed    *)
(* between any two effects on the disk, the host may restart, main may be  *)
(* forced to another line, and a person may repoint the link to a          *)
(* validated release at any time (docs/BRANCH_HYGIENE.md, rollback).       *)
(***************************************************************************)
EXTENDS BranchHygiene

CONSTANTS
  Cycles,         \* the starters of cycles, the timer among them
  Timer,
  Cli,            \* a person who runs the sweep directly
  ServiceLock,    \* the lock file that the service names; Cli may use any
  Commits,        \* the commits that main can point at
  Ancestors,      \* the pairs of a commit and a later one that descends from it
  Broken,         \* the commits that fail npm ci, npm test or verify:v2
  Installed,      \* the releases of a host that has followed main for a while
  First,          \* what main points at at first
  Retention       \* releases that are kept, the active one included; at least 2 in the code

ASSUME RuntimeAssumption ==
  /\ Sweepers = Cycles \union {Cli} /\ Cli \notin Cycles /\ Timer \in Cycles
  /\ Cycles \intersect {Free, Stale} = {}
  /\ ServiceLock \in LockFiles
  /\ Commits \subseteq Nat \ {0} /\ Broken \subseteq Commits
  /\ Installed \subseteq Commits \ Broken /\ First \in Installed
  /\ Ancestors \subseteq Commits \X Commits /\ \A c \in Commits : <<c, c>> \notin Ancestors
  /\ Retention \in Nat /\ Retention >= 2

\* A history is finite and goes in no circle: some commit of any of them leads to no other.
ASSUME HistoryAssumption ==
  \A set \in SUBSET Installed :
    set # {} => \E c \in set : \A d \in set : <<c, d>> \notin Ancestors

VARIABLES
  main,        \* what origin/main points at
  active,      \* the release that the link points at, None before the installation
  releases,    \* the commits that have a release directory
  newer,       \* the pairs of releases whose first was made after the second
  marked,      \* the commits that have a validation marker
  dirty,       \* worktrees with changes: commits, and "source"
  processLock, \* the lock file of the cycle: its creator
  cycle,       \* each cycle
  repointed    \* history: a person repointed the link, and no cycle has moved it since
               \* or found it at a validated release

diskVars == <<main, active, releases, newer, marked, dirty>>
vars == <<hygieneVars, diskVars, processLock, cycle, repointed>>

None == 0
Source == 0      \* the source checkout, beside the worktrees of the commits
NoCycle == [pc |-> "off", cand |-> None, only |-> FALSE, boot |-> FALSE, doomed |-> {}]

InCycle(p, pc) == cycle[p].pc = pc

CycleState ==
  [pc : {"off", "look", "fetch", "prepare", "move", "mark", "promote", "verify",
         "hygiene", "sweep", "prune", "remove"},
   cand : Commits \union {None}, only : BOOLEAN, boot : BOOLEAN, doomed : SUBSET Commits]

RuntimeTypeOK ==
  /\ main \in Commits
  /\ active \in Commits \union {None}
  /\ releases \subseteq Commits
  /\ newer \subseteq releases \X releases /\ \A c \in releases : <<c, c>> \notin newer
  /\ marked \subseteq Commits
  /\ dirty \subseteq Commits \union {Source}
  /\ processLock \in Cycles \union {Free, Stale}
  /\ cycle \in [Cycles -> CycleState]
  /\ repointed \in BOOLEAN

TypeOK == HygieneTypeOK /\ RuntimeTypeOK

\* A host that the installer is about to set up, or one that has followed main so far.
Init ==
  /\ HygieneInit
  /\ main = First
  /\ \/ active = None /\ releases = {}
     \/ active = First /\ releases = Installed
  /\ newer = { pair \in releases \X releases : <<pair[2], pair[1]>> \in Ancestors }
  /\ marked = releases
  /\ dirty = {}
  /\ processLock = Free
  /\ cycle = [p \in Cycles |-> NoCycle]
  /\ repointed = FALSE

-----------------------------------------------------------------------------
(* runReleaseCycle.                                                          *)

Goes(p, to) == cycle' = [cycle EXCEPT ![p].pc = to] /\ UNCHANGED processLock

\* A cycle that forgets its lock file when it is blocked at the first look.
ReturnsLocked(p) ==
  /\ cycle' = [cycle EXCEPT ![p] = NoCycle]
  /\ processLock' = IF InCycle(p, "look") THEN processLock ELSE Free

\* Every return and every throw of a cycle that holds the lock passes the finally block.
Returns(p) ==
  /\ cycle' = [cycle EXCEPT ![p] = NoCycle]
  /\ processLock' = Free

\* The service, started by its timer or by a person, runs the full cycle; the command that
\* people run beside it only updates, and so does the installer, with --bootstrap.  A cycle
\* that finds the lock file ends at once.

Start(p) ==
  /\ InCycle(p, "off")
  /\ processLock = Free
  /\ processLock' = p
  /\ \E boot \in IF p = Timer THEN {FALSE} ELSE BOOLEAN :
       cycle' = [cycle EXCEPT ![p] =
                   [NoCycle EXCEPT !.pc = "look", !.only = p # Timer, !.boot = boot]]
  /\ UNCHANGED <<hygieneVars, diskVars, repointed>>

\* A link that leads nowhere reads as no release.
ActiveSha == IF active \in releases THEN active ELSE None

\* The source checkout and the active release, which the cycle reads once: everything up to
\* the switch of the link relies on this reading.
Look(p) ==
  /\ InCycle(p, "look")
  /\ IF \/ ActiveSha = None /\ ~cycle[p].boot
        \/ dirty \intersect {Source, ActiveSha} # {}
       THEN Returns(p) /\ UNCHANGED repointed
       ELSE /\ cycle' = [cycle EXCEPT ![p].pc = "fetch", ![p].cand = ActiveSha]
            /\ repointed' = (repointed /\ active \notin releases \intersect marked)
            /\ UNCHANGED processLock
  /\ UNCHANGED <<hygieneVars, diskVars>>

\* Any commit but the active one is promoted.
DecisionUnrelated(seen, candidate) ==
  IF candidate = seen THEN "already-current" ELSE "promote"

\* decideUpdate for the active commit that was read and the one that was fetched.
Decision(seen, candidate) ==
  IF seen = None THEN "promote"
  ELSE IF candidate = seen THEN "already-current"
  ELSE IF <<seen, candidate>> \notin Ancestors THEN "blocked"
  ELSE "promote"

\* The fetch of main and the decision; a cycle that only updates ends here when there is
\* nothing to update.
Fetch(p) ==
  /\ InCycle(p, "fetch")
  /\ LET decision == Decision(cycle[p].cand, main) IN
       IF decision = "blocked" \/ (decision = "already-current" /\ cycle[p].only)
         THEN Returns(p)
         ELSE /\ cycle' = [cycle EXCEPT
                   ![p].pc = IF decision = "promote" THEN "prepare" ELSE "hygiene",
                   ![p].cand = main]
              /\ UNCHANGED processLock
  /\ UNCHANGED <<hygieneVars, diskVars, repointed>>

\* prepareCandidate: a release that was validated before is used again when its worktree is
\* clean; any other directory of that name is refused; else the gates run in a worktree
\* beside the releases, which is removed when they fail.
ReusableUnmarked(c) == c \in releases /\ c \notin dirty
Reusable(c) == c \in releases /\ c \in marked /\ c \notin dirty

Prepare(p) ==
  /\ InCycle(p, "prepare")
  /\ LET c == cycle[p].cand IN
       IF Reusable(c) THEN Goes(p, "promote")
       ELSE IF c \in releases \/ c \in Broken THEN Returns(p)
       ELSE Goes(p, "move")
  /\ UNCHANGED <<hygieneVars, diskVars, repointed>>

\* The worktree becomes the release, and only then gets its marker.
Move(p) ==
  /\ InCycle(p, "move")
  /\ releases' = releases \union {cycle[p].cand}
  /\ newer' = newer \union ({cycle[p].cand} \X releases)
  /\ Goes(p, "mark")
  /\ UNCHANGED <<hygieneVars, main, active, marked, dirty, repointed>>

Mark(p) ==
  /\ InCycle(p, "mark")
  /\ marked' = marked \union {cycle[p].cand}
  /\ Goes(p, "promote")
  /\ UNCHANGED <<hygieneVars, main, active, releases, newer, dirty, repointed>>

\* The link is switched by a rename, whatever it leads to by then.
Promote(p) ==
  /\ InCycle(p, "promote")
  /\ active' = cycle[p].cand
  /\ repointed' = FALSE
  /\ Goes(p, "verify")
  /\ UNCHANGED <<hygieneVars, main, releases, newer, marked, dirty>>

Verify(p) ==
  /\ InCycle(p, "verify")
  /\ IF ActiveSha # cycle[p].cand \/ cycle[p].only THEN Returns(p) ELSE Goes(p, "hygiene")
  /\ UNCHANGED <<hygieneVars, diskVars, repointed>>

\* The sweep is a child process of the cycle, run from the active release.
Hygiene(p) ==
  /\ InCycle(p, "hygiene")
  /\ IF ActiveSha # cycle[p].cand
       THEN Returns(p) /\ UNCHANGED <<sweep, runLock>>
       ELSE Goes(p, "sweep") /\ TakesRunLock(p, ServiceLock)
  /\ UNCHANGED <<branches, since, events, diskVars, repointed>>

\* The child has ended; the releases are pruned only after a sweep that succeeded.
Swept(p) ==
  /\ InCycle(p, "sweep")
  /\ sweep[p].pc \in {"done", "failed"}
  /\ sweep' = [sweep EXCEPT ![p] = NoSweep]
  /\ IF At(p, "done") THEN Goes(p, "prune") ELSE Returns(p)
  /\ UNCHANGED <<branches, runLock, since, events, diskVars, repointed>>

\* pruneReleases: the release the cycle executed and the newest other directories stay.
Newest(set, n) ==
  { s \in set : Cardinality({ t \in set : <<t, s>> \in newer }) < n }
KeptTooFew(c) == {c} \union Newest(releases \ {c}, Retention - 2)
Kept(c) == {c} \union Newest(releases \ {c}, Retention - 1)

Prune(p) ==
  /\ InCycle(p, "prune")
  /\ cycle' = [cycle EXCEPT ![p].pc = "remove",
                            ![p].doomed = releases \ Kept(cycle[p].cand)]
  /\ UNCHANGED <<hygieneVars, diskVars, processLock, repointed>>

RemovesRelease(s) ==
  /\ releases' = releases \ {s}
  /\ newer' = { pair \in newer : s \notin {pair[1], pair[2]} }
  /\ dirty' = dirty \ {s}

\* A worktree is removed, then its marker, which may stay behind; or it is not removed.
Remove(p) ==
  /\ InCycle(p, "remove")
  /\ \E s \in cycle[p].doomed :
       /\ cycle' = [cycle EXCEPT ![p].doomed = @ \ {s}]
       /\ \/ RemovesRelease(s) /\ marked' = marked \ {s} /\ UNCHANGED events
          \/ RemovesRelease(s) /\ Happens /\ UNCHANGED marked
          \/ Happens /\ UNCHANGED <<releases, newer, dirty, marked>>
  /\ UNCHANGED <<branches, sweep, runLock, since, main, active, processLock, repointed>>

Removed(p) ==
  /\ InCycle(p, "remove")
  /\ cycle[p].doomed = {}
  /\ Returns(p)
  /\ UNCHANGED <<hygieneVars, diskVars, repointed>>

CycleStep(p) ==
  \/ Look(p) \/ Fetch(p) \/ Prepare(p) \/ Move(p) \/ Mark(p) \/ Promote(p) \/ Verify(p)
  \/ Hygiene(p) \/ Swept(p) \/ Prune(p) \/ Remove(p) \/ Removed(p)

-----------------------------------------------------------------------------
(* The host, main and the people around the cycles.                          *)

\* A command of the cycle fails: git, npm, a write to the disk.
CycleFails(p) ==
  /\ Happens
  /\ cycle[p].pc \in {"look", "fetch", "prepare", "move", "mark", "promote", "hygiene", "prune"}
  /\ Returns(p)
  /\ UNCHANGED <<branches, sweep, runLock, since, diskVars, repointed>>

Sweeps(p) == sweep[p].pc \notin {"off", "done", "failed"}

\* The lock file of a killed sweep stays; a cycle sees that its child failed.
LeavesRunLock(p, pc) ==
  /\ sweep' = [sweep EXCEPT ![p] = [NoSweep EXCEPT !.pc = pc]]
  /\ runLock' = IF Sweeps(p) THEN [runLock EXCEPT ![sweep[p].file] = Stale] ELSE runLock

SweepKilled(p) ==
  /\ Happens
  /\ Sweeps(p)
  /\ LeavesRunLock(p, "failed")
  /\ UNCHANGED <<branches, since, diskVars, processLock, cycle, repointed>>

\* The service and its child are killed: both lock files stay.
CycleKilled(p) ==
  /\ Happens
  /\ ~InCycle(p, "off")
  /\ cycle' = [cycle EXCEPT ![p] = NoCycle]
  /\ processLock' = Stale
  /\ LeavesRunLock(p, "off")
  /\ UNCHANGED <<branches, since, diskVars, repointed>>

\* The host restarts, or a person removes a file that was left.
LockRemoved ==
  /\ Happens
  /\ \/ processLock = Stale /\ processLock' = Free /\ UNCHANGED runLock
     \/ /\ \E f \in LockFiles : runLock[f] = Stale /\ runLock' = [runLock EXCEPT ![f] = Free]
        /\ UNCHANGED processLock
  /\ UNCHANGED <<branches, sweep, since, diskVars, cycle, repointed>>

\* A person sweeps without a cycle, and may name any lock file.
CliSweeps ==
  /\ Happens
  /\ ~Sweeps(Cli)
  /\ \E f \in LockFiles : TakesRunLock(Cli, f)
  /\ UNCHANGED <<branches, since, diskVars, processLock, cycle, repointed>>

MainMoves ==
  /\ Happens
  /\ main' \in Commits \ {main}
  /\ UNCHANGED <<branches, sweep, runLock, since, active, releases, newer, marked, dirty,
                 processLock, cycle, repointed>>

\* A worktree gets local changes, or loses them.
Soiled ==
  /\ Happens
  /\ \E x \in releases \union {Source} :
       dirty' = IF x \in dirty THEN dirty \ {x} ELSE dirty \union {x}
  /\ UNCHANGED <<branches, sweep, runLock, since, main, active, releases, newer, marked,
                 processLock, cycle, repointed>>

\* The manual rollback: the link is repointed to a retained release that has its marker.
Repoint ==
  /\ Happens
  /\ active' \in (releases \intersect marked) \ {active}
  /\ repointed' = TRUE
  /\ UNCHANGED <<branches, sweep, runLock, since, main, releases, newer, marked, dirty,
                 processLock, cycle>>

AroundCycles ==
  \/ \E p \in Cycles : CycleFails(p) \/ CycleKilled(p)
  \/ \E p \in Sweepers : SweepKilled(p)
  \/ LockRemoved \/ CliSweeps \/ MainMoves \/ Soiled \/ Repoint

Sweep(p) == SweepStep(p) /\ UNCHANGED <<diskVars, processLock, cycle, repointed>>
Repository == AroundSweeps /\ UNCHANGED <<diskVars, processLock, cycle, repointed>>

Next ==
  \/ \E p \in Cycles : Start(p) \/ CycleStep(p)
  \/ \E p \in Sweepers : Sweep(p)
  \/ Repository \/ AroundCycles

\* A process that runs takes its next step; the timer is persistent, so that it starts its
\* service again and again.
Fairness ==
  /\ \A p \in Cycles : WF_vars(CycleStep(p))
  /\ \A p \in Sweepers : WF_vars(Sweep(p))
  /\ WF_vars(Start(Timer))

Spec == Init /\ [][Next]_vars /\ Fairness

-----------------------------------------------------------------------------

\* The link leads to a release that is there, has its marker and passed the gates, whatever
\* was interrupted between the move, the marker, the switch and the pruning - unless a person
\* repointed it under a running cycle, whose pruning keeps the release it read before.
ActiveIsSound ==
  active # None /\ ~repointed => active \in (releases \intersect marked) \ Broken

\* A cycle never leaves the line of main: the link moves to a descendant of the release it led
\* to, although main may be forced between the look and the switch, and cycles that were killed
\* or failed may have left directories behind.  (The lock keeps other cycles out meanwhile.)
AdvancesAlongMain ==
  [][active' # active /\ active # None /\ ~repointed /\ ~repointed'
       => <<active, active'>> \in Ancestors]_vars

Rollbacks == (releases \intersect marked) \ {active}

\* Pruning never takes the last validated release that the host could be rolled back to; a
\* directory without a marker, left by a killed cycle, is counted as one and may cost it.
RollbackKept ==
  [][Rollbacks # {} /\ Rollbacks' = {} /\ active' = active => releases \ marked # {}]_vars

\* Once nothing else happens the link leads to main, or the host is in one of the states that
\* only a person resolves: a lock file that outlived its cycle, a commit that fails its gates,
\* a line that main left, local changes, a release that never got its marker.
NeedsAPerson ==
  \/ processLock = Stale
  \/ main \in Broken
  \/ ActiveSha = None
  \/ <<ActiveSha, main>> \notin Ancestors
  \/ dirty \intersect {Source, ActiveSha, main} # {}
  \/ main \in releases \ marked

CatchesUp == <>[](active = main \/ NeedsAPerson)
=============================================================================
