CONSTANTS
    a = a
    b = b
    None = None
    Commands = {c1}
    Domains = {a, b}
    Labels <- MCLabels
    Targets <- MCTargets
    DefaultDomain = a
    Keys = {k1, k2}
    ManualKey = manual
    Keyless = keyless
    MaxFailures = 0
    MaxKills = 0
    MaxEdits = 0
SPECIFICATION Spec
INVARIANT ReadyMeansConnectable
CHECK_DEADLOCK FALSE
