----------------------------- MODULE ReleasePromise -----------------------------
(***************************************************************************)
(* What the controller promises to the people who merge, without sessions,  *)
(* comments or runs: a success on the release status means green CI and,    *)
(* where it is owed, an approved audit of exactly that head, which was the  *)
(* head of the pull request when it was last looked at, and no worker is    *)
(* launched that nobody has granted.  Between the look and the publication  *)
(* the pull request may move.                                               *)
(***************************************************************************)
EXTENDS Naturals

CONSTANTS Head, NoHead

VARIABLES
  head,      \* the head of the pull request
  owed,      \* the heads whose changes oblige to an independent audit
  green,     \* the heads that required CI was seen to pass on
  approved,  \* the heads that an audit has approved
  candidate, \* the head that a success is about to be published for, or NoHead
  status,    \* the release status of every head
  granted,   \* worker runs that may be launched
  launched   \* worker runs that were launched

vars == <<head, owed, green, approved, candidate, status, granted, launched>>

Init ==
  /\ head \in Head /\ owed \subseteq Head
  /\ green = {} /\ approved = {}
  /\ candidate = NoHead
  /\ status = [h \in Head |-> "none"]
  /\ granted \in Nat /\ launched \in 0..granted

\* New material arrives; only the obligations of later heads are still open.
Push ==
  /\ head' \in Head /\ head' > head
  /\ owed' \subseteq Head /\ \A h \in Head : h <= head => (h \in owed' <=> h \in owed)
  /\ UNCHANGED <<green, approved, candidate, status, granted, launched>>

SeeGreen ==
  /\ green' = green \cup {head}
  /\ UNCHANGED <<head, owed, approved, candidate, status, granted, launched>>

Approve ==
  /\ approved' = approved \cup {head}
  /\ UNCHANGED <<head, owed, green, candidate, status, granted, launched>>

Withdraw ==
  /\ \E h \in Head, s \in {"pending", "failure"} : status' = [status EXCEPT ![h] = s]
  /\ granted' >= granted
  /\ UNCHANGED <<head, owed, green, approved, candidate, launched>>

\* The last look: the evidence is there for the head that is then current.
Confirm ==
  /\ head \in green /\ (head \in owed => head \in approved)
  /\ candidate' = head
  /\ UNCHANGED <<head, owed, green, approved, status, granted, launched>>

Abandon ==
  /\ candidate' = NoHead
  /\ UNCHANGED <<head, owed, green, approved, status, granted, launched>>

\* One publication for each look.
Publish ==
  /\ candidate # NoHead
  /\ status' = [status EXCEPT ![candidate] = "success"]
  /\ candidate' = NoHead
  /\ UNCHANGED <<head, owed, green, approved, granted, launched>>

Grant ==
  /\ granted' > granted
  /\ UNCHANGED <<head, owed, green, approved, candidate, status, launched>>

Launch ==
  /\ launched < granted /\ launched' = launched + 1
  /\ UNCHANGED <<head, owed, green, approved, candidate, status, granted>>

Next ==
  \/ Push \/ SeeGreen \/ Approve
  \/ Withdraw \/ Confirm \/ Abandon \/ Publish
  \/ Grant \/ Launch

Spec == Init /\ [][Next]_vars
=============================================================================
