CONSTANTS
    Devices = {d1, d2}
    Keys = {kU, k1, k2}
    kU = kU
    Tokens = {t1, t2}
    Hosts <- MCHosts
    Gateway <- MCGateway
    Threads = {r1, r2}
    Shells = {a1}
    Procs <- MCProcs
    None = None
    Unmanaged <- MCUnmanaged
    Serial = FALSE
    MaxFailures = 1
    MaxCrashes = 1
SYMMETRY Symmetric
CONSTRAINT OnlyEnrolmentsOverlap
SPECIFICATION Spec
INVARIANTS
    EnabledIsConnected
    RevokedIsIsolated
    NoOrphanPeer
    HostsAreCurrent
    UniqueIdentity
CHECK_DEADLOCK FALSE
