------------------------------ MODULE StagePromise ------------------------------
(***************************************************************************)
(* What a stage promises to those who pay for its runs, without sessions,   *)
(* nonces or comments: one run at a time, none after a result, and after a  *)
(* failure one retry at most and one more run at most for every control     *)
(* plane that was released since the stage began.                           *)
(***************************************************************************)
EXTENDS Naturals

VARIABLES
  last,        \* how the last run of the stage stands, "none" before the first
  retried,     \* the retry was made
  rearmed,     \* runs that replaced a failed one under a new control plane
  released     \* control planes released since the stage began

vars == <<last, retried, rearmed, released>>

Init == last = "none" /\ retried = FALSE /\ rearmed = 0 /\ released = 0

First ==
  /\ last = "none" /\ last' = "running"
  /\ UNCHANGED <<retried, rearmed, released>>

Retry ==
  /\ last = "failed" /\ last' = "running"
  /\ ~retried /\ retried' = TRUE
  /\ UNCHANGED <<rearmed, released>>

Rearm ==
  /\ last = "failed" /\ last' = "running"
  /\ rearmed < released /\ rearmed' = rearmed + 1
  /\ UNCHANGED <<retried, released>>

End ==
  /\ last = "running" /\ last' \in {"failed", "result"}
  /\ UNCHANGED <<retried, rearmed, released>>

Release ==
  /\ released' = released + 1
  /\ UNCHANGED <<last, retried, rearmed>>

Next == First \/ Retry \/ Rearm \/ End \/ Release

Spec == Init /\ [][Next]_vars
=============================================================================
