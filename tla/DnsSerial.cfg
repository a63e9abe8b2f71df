CONSTANTS
    d1 = d1
    d2 = d2
    d3 = d3
    Devices = {d1, d2, d3}
    Keys = {k1, k2, k3}
    Tokens = {t1, t2}
    Hosts <- MCHosts
    Gateway <- MCGateway
    Names <- MCNames
    Operational <- MCOperational
    Foreign = {f}
    HostName <- MCHostName
    Threads = {r1}
    Shells = {a1}
    Procs <- MCProcs
    None = None
    Serial = TRUE
    MaxFailures = 2
SYMMETRY Symmetric
SPECIFICATION Spec
INVARIANTS
    PublicDnsTypeOK
    RevokedIsUnnamed
    EnabledIsNamed
PROPERTIES
    ChangesAreAtomic
    OperationalNamesStay
CHECK_DEADLOCK FALSE
