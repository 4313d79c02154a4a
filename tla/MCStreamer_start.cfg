SPECIFICATION Spec
CONSTANTS
    Starters = {u1, u2}
    Stoppers = {}
    Appliers = {}
    Recoveries = {r1, r2}
    Threads = {t1, t2, t3}
    SourceFollowing = FALSE
    RetryLimit = 2
    Nobody = Nobody
INVARIANT AtMostOneCapture
INVARIANT CaptureIsJoinable
INVARIANT RecoveryExclusive
SYMMETRY Symmetry
