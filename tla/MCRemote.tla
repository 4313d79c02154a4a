------------------------------ MODULE MCRemote ------------------------------
(***************************************************************************)
(* The parts through which others reach the board: the RustDesk, VNC and   *)
(* RTSP clients, the streams they are sent, the audio they play and the    *)
(* files they bring to the virtual drive.  One run checks them all: a      *)
(* behaviour chooses a part and runs that part alone.                      *)
(***************************************************************************)
EXTENDS ThirdParty, RustDeskPeer, RfbSession, RemoteSlots, UacPlayback,
        DriveVolume, VideoData

CONSTANTS d, f, h, w1   \* names on the virtual drive, and its writer

VARIABLE part   \* the part that runs

MCCodecs == [s \in TpServices |-> IF s = "vnc" THEN {"h264", "mjpeg"} ELSE {"h264", "h265"}]

\* Units that end in bytes of a start code or hold some, of every kind.
MCNals == {<<7, 3>>, <<8, 0, 3>>, <<5, 0, 0, 3, 1>>, <<9, 1>>, <<5>>, <<1, 0, 5>>}

\* The entries of f and h fill a cluster.
MCWidth == [n \in Names |-> IF n = d THEN 1 ELSE S]

Up(path, size, over) == [op |-> "upload", path |-> path, size |-> size,
                         create |-> TRUE, overwrite |-> over]
Other(op, path, create) == [op |-> op, path |-> path, size |-> 0,
                            create |-> create, overwrite |-> FALSE]
\* As VentoyDrive asks, and as other users of the library may.
MCRequests ==
    {Up(<<f>>, 1, TRUE), Up(<<d, f>>, 2, TRUE), Up(<<d>>, 0, FALSE),
     Other("mkdir", <<d>>, TRUE), Other("mkdir", <<d, f>>, FALSE),
     Other("remove", <<d>>, FALSE), Other("delete", <<d>>, FALSE)}

vars == <<part, dvVars, tpVars, peVars, vnVars, slVars, uaVars, bgVars, bsVars, hpVars>>

\* The parts that do not run have one initial state.
MCInit ==
    /\ part \in {"drive", "third", "rustdesk", "vnc", "slots", "uac", "search", "bits", "h265"}
    /\ IF part = "rustdesk" THEN TRUE ELSE pePassword = TRUE
    /\ IF part = "vnc" THEN TRUE
       ELSE /\ vnCfg = "jpeg"
            /\ vnSrc = [size |-> CHOOSE s \in VnSizes : TRUE, want |-> FALSE, seq |-> 0, made |-> 0, open |-> TRUE]
    /\ IF part = "slots" THEN TRUE ELSE slKind = "rtsp" /\ slOne = TRUE
    /\ IF part = "uac" THEN TRUE ELSE uaHost = FALSE
    /\ IF part = "search" THEN TRUE ELSE bgLinks = {}
    /\ IF part = "bits" THEN TRUE ELSE bsUnits = <<[sc |-> 3, nal |-> <<5>>]>> /\ bsMode = "strip"
    /\ IF part = "h265" THEN TRUE ELSE hpSeq = 0
    /\ IF part = "drive" THEN TRUE
       ELSE bitmap = Formatted.bitmap /\ fat = Formatted.fat /\ content = Formatted.content
    /\ DvInit /\ TpInit /\ PeInit /\ VnInit /\ SlInit /\ UaInit /\ BgInit /\ BsInit /\ HpInit

\* Only the part that was chosen steps.
Alone ==
    /\ UNCHANGED part
    /\ part # "drive" => UNCHANGED dvVars
    /\ part # "third" => UNCHANGED tpVars
    /\ part # "rustdesk" => UNCHANGED peVars
    /\ part # "vnc" => UNCHANGED vnVars
    /\ part # "slots" => UNCHANGED slVars
    /\ part # "uac" => UNCHANGED uaVars
    /\ part # "search" => UNCHANGED bgVars
    /\ part # "bits" => UNCHANGED bsVars
    /\ part # "h265" => UNCHANGED hpVars

MCNext ==
    /\ Alone
    /\ \/ part = "drive" /\ DvNext
       \/ part = "third" /\ TpNext
       \/ part = "rustdesk" /\ PeNext
       \/ part = "vnc" /\ VnNext
       \/ part = "slots" /\ SlNext
       \/ part = "uac" /\ UaNext
       \/ part = "search" /\ BgNext
       \/ part = "bits" /\ BsNext
       \/ part = "h265" /\ HpNext

\* What the virtual drive promises: a volume that is marked clean is sound, and
\* an operation that succeeds did what was asked and nothing else
\* (finish_write_transaction).
DrivePromise == part = "drive" => TypeOK /\ CleanIsSound /\ DoesWhatIsAsked

\* What a VNC or RTSP client may rely on: updates fit what it asked for and the
\* size it knows, its buttons reach the host, one client is served where one is
\* allowed, its place comes back when it leaves, and time stamps never repeat.
ClientsPromise ==
    /\ [](VnTypeOK /\ AnswersFit /\ FullMeansKey /\ ButtonsFollow)
    /\ [](OneClientServed /\ VncPlaceComesBack)
    /\ StampsDiffer

\* What is promised of video data on its way: the bridge that is chosen feeds the
\* node, is the nearest and is found if there is one; all scanners of a stream
\* agree on its units; and the units of H.265 come back from packets that fit
\* and are numbered without a gap.
VideoDataPromise ==
    /\ part = "search" => BridgeFeedsNode /\ BridgeIsNearest /\ NoBridgeMissed
    /\ part = "bits" => ScannersAgree
    /\ part = "h265" => UnitsComeBack /\ PacketsFit /\ NumbersFollow

MCSpec == MCInit /\ [][MCNext]_vars
=============================================================================
