CONSTANTS
    k1 = k1
    k2 = k2
    zbx = zbx
    Request <- MCRequest
    Keys = {k1, k2}
    Threshold = 2
    OwnChain = 1
    Token = {zbx}
    Native = zbx
    DefaultMainnet <- MCDefault
    Configs <- MCConfigs
    MinBridgeAmount = 50
    RequestExpiry = 2
    DaySecs = 2
    MaxTime = 4
    MaxCrashes = 1
SPECIFICATION Spec
INVARIANTS ExecutedOnce OutflowWithinLimits
SYMMETRY KeySymmetry
