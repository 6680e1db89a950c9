CONSTANTS
    Clients = {c1}
    Postures = {p1}
    Classes = {k1, k2}
    Sinks = {s1}
    DurableSinks = {s1}
    Identities = {"auth"}
    MaxFails = 1
    MaxErrors = 0
    Setups <- MCSetups
    MaxStops = 1
SPECIFICATION Spec
INVARIANTS
    TypeOK
    RememberedIsWritten
    OutageAlerts
    HeartbeatNotSilent
PROPERTY SilentOnlyInEpisode
CHECK_DEADLOCK FALSE
