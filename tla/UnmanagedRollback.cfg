CONSTANTS
    Devices = {d1, d2}
    Keys = {kU, k1}
    kU = kU
    Tokens = {t1, t2}
    Hosts <- MCHosts
    Gateway <- MCGateway
    Threads = {r1}
    Shells = {}
    Procs <- MCProcs
    None = None
    Unmanaged <- MCUnmanaged
    Serial = TRUE
    MaxFailures = 0
    MaxCrashes = 0
SYMMETRY Symmetric
SPECIFICATION Spec
INVARIANTS
    UnmanagedStayConnected
CHECK_DEADLOCK FALSE
