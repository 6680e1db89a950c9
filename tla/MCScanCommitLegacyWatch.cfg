CONSTANTS
    Clients = {c1}
    Postures = {p1}
    Classes = {k1, k2}
    Sinks = {s1}
    DurableSinks = {s1}
    Identities = {"auth"}
    MaxFails = 1
    MaxErrors = 1
    Setups <- LegacyWatch
    MaxStops = 1
SPECIFICATION Spec
INVARIANTS
    OutageAlerts
CHECK_DEADLOCK FALSE
