CONSTANTS
    d1 = d1
    d2 = d2
    d3 = d3
    Devices = {d1, d2}
    Keys = {k1, k2}
    Tokens = {t1, t2}
    Hosts <- MCHosts
    Gateway <- MCGateway
    Names <- MCNames
    Operational <- MCOperational
    Foreign = {}
    HostName <- MCHostName
    Threads = {r1, r2}
    Shells = {a1}
    Procs <- MCProcs
    None = None
    Serial = FALSE
    MaxFailures = 0
SYMMETRY Symmetric
SPECIFICATION Spec
PROPERTIES
    EnrolledIsNamed
CHECK_DEADLOCK FALSE
