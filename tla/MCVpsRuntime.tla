------------------------------ MODULE MCVpsRuntime ------------------------------
(* VpsRuntime for TLC.  The commits are numbered in the order they were made, and *)
(* each descends from all earlier ones, but for two that have the same parent:    *)
(* main goes on with the first of these, and the gates fail on the second.        *)
EXTENDS VpsRuntime

SameParent == {3, 4}

Line ==
  { pair \in Commits \X Commits :
      pair[1] < pair[2] /\ {pair[1], pair[2]} # SameParent }
===============================================================================
