----------------------------- MODULE MCDevices ------------------------------
(***************************************************************************)
(* The parts that follow a device or a process which comes and goes:       *)
(* serial input, audio, capture, device listings, encoders, extensions and *)
(* file streams.  They must come back, or come to rest, by themselves.     *)
(* One run checks them all: a behaviour chooses a part and runs that part  *)
(* alone, under the fairness of that part.                                 *)
(***************************************************************************)
EXTENDS Ch9329Worker, AudioRecovery, CaptureV4l2, DeviceProbe, VideoEncoder, Extensions, DriveStream

VARIABLE part   \* the part that runs

MCSize == [m \in CvModes \cup {NoMode, FakeMode} |-> IF m = "m3" THEN 2 ELSE 1]

\* A UVC card that offers a format it does not deliver, another one of the same
\* name, and the receiver of the board.
MCTraits ==
    [usb |-> [driver |-> "uvc", bus |-> "u1", card |-> "c", formats |-> {"MJPG", "YUYV"},
              works |-> {"MJPG"}, active |-> "MJPG", sizes |-> "unsupported"],
     usb2 |-> [driver |-> "uvc", bus |-> "u2", card |-> "c", formats |-> {"MJPG", "YUYV"},
               works |-> {"MJPG", "YUYV"}, active |-> "YUYV", sizes |-> "discrete"],
     rx |-> [driver |-> "hdmirx", bus |-> "p1", card |-> "rx", formats |-> {"NV12", "BGR3"},
             works |-> {}, active |-> "NV12", sizes |-> "none"]]

\* A chip as it comes, with no string of its own, and one that was set up before.
Text(ids, man, prod, ser) ==
    [f \in CdFields |-> CASE f = "ids" -> ids [] f = "man" -> man [] f = "prod" -> prod [] f = "ser" -> ser]
MCStored == {Text("i1", "m1", "p1", "s1")}
MCFactory == {[mem |-> Text("i0", "", "", ""), on |-> {}],
              [mem |-> Text("i1", "m1", "p1", "s1"), on |-> CdStrings]}
\* The numbers alone, a name and no serial number, no descriptor.
MCUpdates == {[f \in {"ids"} |-> "i2"], [f \in {"man", "ser"} |-> IF f = "man" THEN "m2" ELSE ""], << >>}

\* Machines: drivers that answer, drivers that swallow frames, one with RKMPP, and
\* an Amlogic board.  What is asked of VP9 is what is asked of VP8.
VeHost(gpu, late, aml, arm) ==
    [gpu |-> gpu, delay |-> [b \in gpu |-> IF b \in late THEN 2 ELSE 0], aml |-> aml, arm |-> arm]
MCHosts ==
    {VeHost({"qsv", "vaapi"}, {}, {}, FALSE), VeHost({"amf", "vaapi"}, {"amf", "vaapi"}, {}, FALSE),
     VeHost({"rkmpp"}, {}, {}, TRUE), VeHost({"v4l2m2m"}, {"v4l2m2m"}, {"h264", "h265"}, TRUE)}
Asked(c, b, f) == [codec |-> c, backend |-> b, input |-> f]
MCAsked ==
    {Asked(c, Automatic, f) : c \in {"h264", "h265"}, f \in {"MJPEG", "YUYV"}}
      \cup {Asked("h264", "software", "YUYV"), Asked("vp8", Automatic, "YUYV"), Asked("vp8", "software", "MJPEG")}

vars == <<part, chVars, cdVars, auVars, cvVars, dpVars, veVars, exVars, dsVars>>

\* The parts that do not run have one initial state.
MCInit ==
    /\ part \in {"serial", "descriptor", "audio", "capture", "probe", "encoder", "extensions", "drive"}
    /\ IF part = "serial" THEN TRUE ELSE portAlive = TRUE
    /\ IF part = "descriptor" THEN TRUE
       ELSE cdPin = TRUE /\ cdChip = CHOOSE c \in CdFactory : TRUE
    /\ IF part = "descriptor" THEN TRUE
       ELSE cdConfig = [serial |-> TRUE, desc |-> CHOOSE d \in CdStored : TRUE]
    /\ IF part = "audio" THEN TRUE ELSE auDev = TRUE
    /\ IF part = "capture" THEN TRUE ELSE cvKind = "usb" /\ cvSrc = "m1"
    /\ IF part = "probe" THEN TRUE
       ELSE /\ dpAt = [d \in DpDevices |-> Unplugged] /\ dpSignal = FALSE
            /\ dpWire = CHOOSE w \in Wires : TRUE
    /\ IF part = "encoder" THEN TRUE ELSE veHost = CHOOSE h \in VeHosts : TRUE
    /\ IF part = "extensions" THEN TRUE ELSE exCfg = [i \in ExIds |-> CHOOSE c \in ExConfigs : ExSound(c)]
    /\ IF part = "drive" THEN TRUE ELSE dsSize = 0
    /\ ChInit /\ CdInit /\ AuInit /\ CvInit /\ DpInit /\ VeInit /\ ExInit /\ DsInit

\* Only the part that was chosen steps.
Alone ==
    /\ UNCHANGED part
    /\ part # "serial" => UNCHANGED chVars
    /\ part # "descriptor" => UNCHANGED cdVars
    /\ part # "audio" => UNCHANGED auVars
    /\ part # "capture" => UNCHANGED cvVars
    /\ part # "probe" => UNCHANGED dpVars
    /\ part # "encoder" => UNCHANGED veVars
    /\ part # "extensions" => UNCHANGED exVars
    /\ part # "drive" => UNCHANGED dsVars

MCNext ==
    /\ Alone
    /\ \/ part = "serial" /\ ChNext
       \/ part = "descriptor" /\ CdNext
       \/ part = "audio" /\ AuNext
       \/ part = "capture" /\ CvNext
       \/ part = "probe" /\ DpNext
       \/ part = "encoder" /\ VeNext
       \/ part = "extensions" /\ ExNext
       \/ part = "drive" /\ DsNext

\* The fairness of the part that runs.
MCFairness ==
    /\ \A i \in 1..2 : WF_chVars(part = "serial" /\ ChTurn(i))
    /\ \A i \in 1..2 : WF_cdVars(part = "descriptor" /\ CdTurn(i))
    /\ \A i \in 1..9 : WF_auVars(part = "audio" /\ AuTurn(i))
    /\ \A i \in 1..3 : WF_cvVars(part = "capture" /\ CvTurn(i))
    /\ \A i \in 1..1 : SF_cvVars(part = "capture" /\ CvPatient(i))
    /\ \A i \in 1..2 : WF_dpVars(part = "probe" /\ DpTurn(i))
    /\ \A i \in 1..1 : WF_exVars(part = "extensions" /\ ExTurn(i))
    /\ \A i \in 1..2 : SF_exVars(part = "extensions" /\ ExPatient(i))
    /\ \A i \in 1..1 : WF_dsVars(part = "drive" /\ DsTurn(i))

\* What the serial backend keeps: stopped it is offline and holds no key; the
\* descriptor is on the chip as it is stored, or the update that changes it fails
\* as a whole.
SerialSafe ==
    /\ ChTypeOK /\ StoppedIsOffline /\ StoppedHoldsNoKey
    /\ StoredIsOnChip /\ FailedUpdateUndone /\ ShownIsStored

\* What the audio controller keeps: no two captures have the device, none is
\* outside its reach but one whose opening its client gave up, none streams after
\* a stop, and no failure shows while audio streams.
AudioSafe == NoOrphanCapture /\ StoppedStaysStopped /\ HealthyWhileStreaming

\* What video input keeps: a stream opens on a signal only, hands out frames of the
\* mode it announced and survives a failing check; a lost device is found again and
\* not mistaken for another, a receiver is asked for the format on its wire, a
\* format that is offered works; an encoder that is chosen exists, gets what it was
\* opened for and begins with a key.
VideoInputSafe ==
    /\ NoStreamWithoutSignal /\ FramesFit /\ HealthyStreamKept
    /\ RecoveryFindsDevice /\ WireFormatAsked /\ OfferedWorks
    /\ AutomaticWorks /\ FedAsTaken /\ KeyComesFirst /\ OneChip

\* What is done to bytes: the answer of the chip is found on the line, a damaged one
\* is not taken, and a frame is made tight without losing or repeating a byte.
BytesSafe ==
    /\ part = "serial" => AnswerFound /\ DamagedNotTaken
    /\ part = "encoder" => RowsTile

\* Every process and file of an extension is one the manager knows of, and a
\* browser that was served a file has all of it.
TasksSafe == NoStrayProcess /\ NoStrayConfig /\ StreamIsWhole

\* What comes and goes comes back, or comes to rest, by itself: serial requests and
\* updates end and a silent chip shows, audio follows a device that no abandoned
\* capture keeps, a receiver's new mode is noticed, a driver that hangs does not
\* hold the listing, an extension that died comes back, and no thread outlasts the
\* browser it served.
DevicesPromise ==
    /\ RequestsAnswered /\ UpdateEnds /\ DeadPortShows
    /\ AudioComesBack
    /\ StaleModeNoticed /\ ListingEnds
    /\ EnabledComesBack
    /\ ThreadGoesToo

MCSpec == MCInit /\ [][MCNext]_vars /\ MCFairness
=============================================================================
