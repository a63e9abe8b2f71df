CONSTANTS
    a = a
    b = b
    None = None
    Commands = {c1}
    Domains = {a, b}
    Labels <- MCLabels
    Targets <- MCTargets
    DefaultDomain = a
    Keys = {k1, k2}
    ManualKey = manual
    Keyless = keyless
    MaxFailures = 1
    MaxKills = 1
    MaxEdits = 1
SYMMETRY Symmetric
CONSTRAINT FewMishaps
SPECIFICATION Spec
INVARIANTS
    DeploymentTypeOK
    FailedDeployRestores
    SettingsAreKept
    OneGatewayKey
    ReadyIsRunning
    CleanDeployIsReady
    PreflightIsRight
CHECK_DEADLOCK FALSE
