\* One image and the drive over at most two LUNs, everything may fail.
SPECIFICATION Spec
CONSTANTS
    i1 = i1
    net = net
    none = none
    d1 = d1
    d2 = d2
    Images = {i1}
    Drive = Drive
    Capacity = 2
    Others = {none, net}
    NoOthers = none
    Dirs = {d1, d2}
    Configs <- MCConfigs
    None = None
INVARIANTS ModeAgrees ListIsTrue
           HealthyMeansApplied ReenumerationEnds
