------------------------- MODULE MCAssignmentStore -------------------------
(* An instance of AssignmentStore for TLC: two processes, two facts.         *)
EXTENDS AssignmentStore
===========================================================================
