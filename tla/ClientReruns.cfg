CONSTANTS
    d1 = d1
    d2 = d2
    c1 = c1
    Devices = {d1, d2}
    Keys = {k1, k2}
    Tokens = {t1, t2}
    Hosts <- MCHosts
    Gateway <- MCGateway
    None = None
    Clients = {c1}
    HostName <- MCHostName
    Manual <- MCManual
    Endpoint = e
    DefaultEndpoint = def
    MaxCuts = 1
SYMMETRY Symmetric
SPECIFICATION Spec
INVARIANTS
    ClientTypeOK
    RegisteredKeyIsHeld
    AddressIsRegistered
    InterfaceIsPersisted
    MachineIsAsRegistered
    OneTokenPerDevice
CHECK_DEADLOCK FALSE
