SPECIFICATION MCSpec
CONSTANTS
    RegInterval = 2
    MaxRegTimeout = 2
    OfflineAfter = 2
    MaxRsFaults = 1
    MaxRsOps = 4
    MaxCuStarts = 2
    MaxCuStops = 1
    MaxCuShots = 2
    RetryLimit = 3
    MaxLostKeys = 2
    MaxPsEvents = 2
    MaxNews = 2
    c1 = c1
    c2 = c2
    MjConns = {c1, c2}
    MjIds = {"browser"}
    MjId <- MCId
    NoConn = NoConn
    MjPics = {"p", "q"}
    NoPic = "none"
    Bad = "bad"
    MjBell = 1
    MjDropLimit = 1
    MaxMjEvents = 2
    u1 = u1
    u2 = u2
    w1 = w1
    EhSockets = {w1}
    EhPublishers = {u1, u2}
    EhTopicSets = {{"stream.*", "stream.state_changed"}, {"system.*"}, {"stream.stats_update"}}
    EhCapacity = 1
    MaxEhChanges = 2
    MaxEhAsks = 2
INVARIANT SessionsSafe
PROPERTIES
    PlaceIsKept SessionsPromise
CHECK_DEADLOCK FALSE
