SPECIFICATION Spec
CONSTANTS
    Starters = {u1}
    Stoppers = {x1}
    Appliers = {}
    Recoveries = {}
    Threads = {t1, t2, t3}
    SourceFollowing = FALSE
    RetryLimit = 2
    Nobody = Nobody
INVARIANT AtMostOneCapture
SYMMETRY Symmetry
