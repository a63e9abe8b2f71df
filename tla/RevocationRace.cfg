CONSTANTS
    Devices = {d1, d2}
    Keys = {k1, k2}
    kU = kU
    Tokens = {t1, t2}
    Hosts <- MCHosts
    Gateway <- MCGateway
    Threads = {r1}
    Shells = {a1}
    Procs <- MCProcs
    None = None
    Unmanaged = {}
    Serial = FALSE
    MaxFailures = 0
    MaxCrashes = 0
SYMMETRY Symmetric
SPECIFICATION Spec
INVARIANTS
    RevokedIsIsolated
CHECK_DEADLOCK FALSE
