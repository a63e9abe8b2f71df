CONSTANTS
    d1 = d1
    d2 = d2
    d3 = d3
    Devices = {d1, d2}
    Keys = {k1, k2, k3}
    Tokens = {t1}
    Hosts <- MCHosts
    Gateway <- MCGateway
    Names <- MCNames
    Operational <- MCOperational
    Foreign = {f}
    HostName <- MCHostName
    Threads = {r1}
    Shells = {a1, a2}
    Procs <- MCProcs
    None = None
    Serial = FALSE
    MaxFailures = 0
SYMMETRY Symmetric
SPECIFICATION Spec
INVARIANTS
    RevokedIsUnnamed
CHECK_DEADLOCK FALSE
