--------------------------- MODULE MCDurableOutbox ---------------------------
(* Instances of DurableOutbox for TLC. *)
EXTENDS DurableOutbox, TLC

CONSTANTS p1, p2, g1, g2, g3, s1

OneProc    == {p1}
TwoProcs   == {p1, p2}
ThreeFiles == {g1, g2, g3}
OneSink    == {s1}
NoAlerts   == {}
AllAlerts  == Events
AllButOne  == Events \ {2}

Identities == Permutations(Procs) \cup Permutations(Gens)
=============================================================================
