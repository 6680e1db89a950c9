--------------------------- MODULE MCScanCommit ---------------------------
(* Three installations for ScanCommit: a one-shot scanner that inherited     *)
(* legacy keys, a watch with a heartbeat, and a watch with sinks.            *)
EXTENDS ScanCommit

Setup(save, legacy, interval, sinks, changing, maxChanges, maxTime) ==
    [save |-> save, legacy |-> legacy, interval |-> interval, sinks |-> sinks,
     changing |-> changing, maxChanges |-> maxChanges, maxTime |-> maxTime]

MCSetups == {Setup("always", Postures, 0, {}, Clients, 4, 4),
             Setup("on_change", {}, 2, {}, Clients, 3, 4),
             Setup("on_change", {}, 0, Sinks, {}, 1, 3)}
LegacyWatch == {Setup("on_change", Postures, 0, {}, Clients, 4, 4)}
===========================================================================
