CONSTANTS
    Devices = {d1}
    Keys = {kU, k1}
    kU = kU
    Tokens = {t1}
    Hosts <- MCHosts
    Gateway <- MCGateway
    Threads = {r1}
    Shells = {a1}
    Procs <- MCProcs
    None = None
    Unmanaged <- MCUnmanaged
    Serial = FALSE
    MaxFailures = 2
    MaxCrashes = 1
SPECIFICATION FairSpec
PROPERTIES
    UsesRegistry
    UsesPeerManager
    ImplementsLedger
    EveryOperationReturns
CHECK_DEADLOCK FALSE
