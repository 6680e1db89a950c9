------------------------------- MODULE MCWatch -------------------------------
(* Instances of Watch for TLC. *)
EXTENDS Watch, TLC

CONSTANTS f_a, f_b

TwoPaths  == {f_a, f_b}
OneEach   == [p \in Paths |-> 1]
=============================================================================
