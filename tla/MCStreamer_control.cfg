SPECIFICATION FairSpec
CONSTANTS
    Starters = {u}
    Stoppers = {u}
    Appliers = {u}
    Recoveries = {}
    Threads = {t1, t2}
    SourceFollowing = TRUE
    RetryLimit = 2
    Nobody = Nobody
PROPERTY StopReleasesDevice
PROPERTY StopReturns
