CONSTANTS
    Procs = {p1, p2}
    NoProc = none
    Facts = {f1, f2}
    Contents = {c1, c2}
    Ids = {i1, i2}
    KeyRefs = {k1, k2}
    FirstKey = k1
    MaxEpochs = 2
    MaxFails = 2
SPECIFICATION Spec
INVARIANTS
    TypeOK
    OneIdentity
    AlwaysRecoverable
PROPERTY NothingTakenBack
