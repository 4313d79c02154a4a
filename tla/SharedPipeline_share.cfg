\* A browser whose connection may die and a task the monitor spawns, with fairness.
SPECIFICATION FairSpec
CONSTANTS
    Clients = {c1}
    Externals = {}
    Controllers = {}
    Helpers = {h1}
    Pipelines = {p1, p2}
    SourceFollowing = FALSE
    Nobody = Nobody
INVARIANTS DeviceExclusive
PROPERTIES UnusedStops
