----------------------------- MODULE MCDispatch -----------------------------
(* Instances of Dispatch for TLC. *)
EXTENDS Dispatch, TLC

CONSTANTS s1, s2

OneEvent  == {1}
TwoEvents == {1, 2}
OneSink   == <<s1>>
TwoSinks  == <<s1, s2>>
NoAlerts  == {}
OneAlert  == {2}
=============================================================================
