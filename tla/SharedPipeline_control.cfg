\* A controller and an external consumer, with fairness.
SPECIFICATION FairSpec
CONSTANTS
    Clients = {}
    Externals = {x1}
    Controllers = {k1}
    Helpers = {}
    Pipelines = {p1, p2}
    SourceFollowing = FALSE
    Nobody = Nobody
PROPERTIES ReleaseFreesDevice DeviceSpec ControlReturns
