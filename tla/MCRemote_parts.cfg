SPECIFICATION MCSpec
CONSTANTS
    d = d
    f = f
    h = h
    w1 = w1
    None = None
    Writers = {w1}
    Names = {d, f, h}
    N = 7
    S = 3
    MaxDirectory = 3
    MaxRepeats = 1
    Width <- MCWidth
    Requests <- MCRequests
    TpServices = {"rustdesk", "vnc"}
    TpCodecs <- MCCodecs
    MaxTpReqs = 3
    MaxTpFaults = 1
    PeKeys = {k1, k2}
    NoKey = NoKey
    FrameSlots = 1
    MaxPeerSends = 3
    MaxFrames = 1
    VnSizes = {s1, s2}
    VnButtons = {b1}
    MaxVnMsgs = 3
    MaxVnFrames = 3
    MaxVnFaults = 1
    SlClients = {c1, c2}
    NoClient = NoClient
    StampWidth = 3
    MaxPts = 3
    MaxSlRuns = 2
    UacSessions = {c1, c2}
    NoSession = NoSession
    UacBuffer = 2
    MaxRebuilds = 1
    MaxUacFrames = 4
    BgEntities = {1, 2, 3, 4}
    BgBridges = {3, 4}
    BgVideo = 1
    BsNals <- MCNals
    BsMaxNals = 3
    HpMtu = 20
    HpLengths = {18, 34, 35}
    HpSetLen = 2
    HpSeqWidth = 16
    MaxHpUnits = 4
INVARIANTS DrivePromise ThirdPartyPromise UacPromise VideoDataPromise
PROPERTIES
    RustDeskPeerPromise ClientsPromise
CHECK_DEADLOCK FALSE
