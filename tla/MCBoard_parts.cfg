SPECIFICATION MCSpec
CONSTANTS
    LgWeb = {w1, w2}
    LgMaxFails = 2
    LgRevokedCap = 2
    MaxLgReqs = 7
    HidKeys = {a}
    KeySlots = 2
    HidCapacity = 1
    MaxHidSteps = 4
    MaxBackends = 2
    NoEvent = NoEvent
    GtConfigs <- MCConfigs
    MaxGtApplies = 3
    MaxGtFaults = 2
    NbUplinks = {u1, u2}
    NbNone = NbNone
    MaxTxns = 2
    MaxNbFaults = 2
    AtxSetups <- MCSetups
    AtxPresses = {p1, p2, p3}
    MaxReloads = 3
    MaxAtxFaults = 2
    WolMacs = {m1, m2, m3, m4}
    WolKept = 2
    MaxWolTime = 3
    WdTimeout = 6
    MaxWdFails = 1
    MaxWdReqs = 3
    MaxRestarts = 2
    MaxUpgrades = 2
    MaxPlFaults = 2
    MsJobs = {j1, j2}
    MsNames = {n1}
    MsLuns = {0, 1}
    MsNothing = MsNothing
    MsLimit = 2
    MsSizes = {2, 3}
    MaxMsOps = 2
    MaxMsFaults = 1
INVARIANTS HidPromise UsbPromise PowerPromise LifePromise
PROPERTIES
    LoginPromise StorePromise
CHECK_DEADLOCK FALSE
