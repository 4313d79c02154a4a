SPECIFICATION MCSpec
CONSTANTS
    ChKeys = {a}
    ChRequests = {r1}
    MaxPackets = 2
    MaxFaults = 1
    CdFactory <- MCFactory
    CdStored <- MCStored
    CdUpdates <- MCUpdates
    CdUnasked = CdUnasked
    MaxCdUpdates = 2
    MaxCdFaults = 1
    AuStreamers = {u1, u2, u3}
    NoStreamer = NoStreamer
    MaxAuOps = 2
    MaxAuFaults = 2
    CvModes = {"m1", "m2", "m3"}
    CvSize <- MCSize
    NoMode = "no"
    FakeMode = "vga"
    CvBuffers = 2
    MaxCvChanges = 3
    MaxCvFaults = 1
    DpDevices = {"usb", "usb2", "rx"}
    DpTraits <- MCTraits
    DpPaths = {0, 1, 2}
    Unplugged = Unplugged
    DpNone = DpNone
    MaxDpMoves = 1
    MaxDpListings = 2
    VeHosts <- MCHosts
    VeAsked <- MCAsked
    VeFormats = {"MJPEG", "JPEG", "YUYV", "NV12", "UYVY"}
    VePipes = {p1, p2}
    Automatic = Automatic
    NoEncoder = NoEncoder
    ExIds = {x1}
    ExWeb = {w1, w2}
    ExHealth = h
    DsSizes = {0, 1, 4, 7}
    DsBlock = 2
    DsChunk = 2
    DsSlots = 2
INVARIANTS
    SerialSafe AudioSafe VideoInputSafe TasksSafe BytesSafe
PROPERTIES
    DevicesPromise
CHECK_DEADLOCK FALSE
