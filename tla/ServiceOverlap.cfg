CONSTANTS
    Devices = {d1, d2}
    Keys = {kU, k1}
    kU = kU
    Tokens = {t1, t2}
    Hosts <- MCHosts
    Gateway <- MCGateway
    Threads = {r1}
    Shells = {a1}
    Procs <- MCProcs
    None = None
    Unmanaged <- MCUnmanaged
    Serial = FALSE
    MaxFailures = 1
    MaxCrashes = 0
SYMMETRY Symmetric
SPECIFICATION Spec
INVARIANTS
    TypeOK
    ConfigurationSound
    RangesRespected
    DraftStaysValid
PROPERTIES
    RowsPermanent
CHECK_DEADLOCK FALSE
