---- MODULE DeviceProbe ----
(***************************************************************************)
(* Finding video devices (src/video/device/linux.rs, mod.rs): the nodes    *)
(* under /dev are filtered by their sysfs names, probed in parallel, each  *)
(* with a time limit, sorted and listed; a lost device is looked for in a  *)
(* new list by path, bus and names; a configuration is resolved against    *)
(* what the list says.  Devices come, go and move while that happens.      *)
(*                                                                         *)
(* A device is a record [driver, bus, card, formats, works, sizes,       *)
(* active]: the formats it enumerates, those it takes at the current mode, *)
(* how it enumerates sizes, and the format it is set to.                   *)
(***************************************************************************)
EXTENDS Naturals, Sequences, SequencesExt

CONSTANTS
    DpDevices,     \* the devices there are, by name
    DpTraits,      \* function: name to the record above
    DpPaths,       \* numbers N of /dev/videoN, below ten: names sort as numbers
    Unplugged,     \* no path
    DpNone,        \* no device, no format
    MaxDpMoves,    \* bound: devices plugged or unplugged, sources changed
    MaxDpListings  \* bound: enumerations

\* PixelFormat::priority, the order of the list of formats.
FormatRank == <<"MJPG", "NV12", "YUYV", "BGR3">>

\* There is one native receiver; sizes that a driver lists one by one it takes.
ASSUME DpAssumption ==
    /\ Unplugged \notin DpPaths /\ DpPaths \subseteq 0..9 /\ MaxDpMoves \in Nat
    /\ DpNone \notin DpDevices
    /\ \A d \in DpDevices :
          /\ DpTraits[d].formats \subseteq Range(FormatRank)
          /\ DpTraits[d].sizes = "discrete" => DpTraits[d].formats \subseteq DpTraits[d].works
          /\ \A e \in DpDevices : DpTraits[d].driver = "hdmirx" /\ DpTraits[e].driver = "hdmirx" => d = e

VARIABLES
    dpAt,       \* external: the path each device has
    dpWire,     \* external: the encoding G_FMT reports, the source's while there is one
    dpSignal,   \* external: the HDMI source sends something
    dpJob,      \* enumerate_devices: [pc, probes, infos]
    dpList,     \* the devices listed last; their order is that of Ahead
    dpHint,     \* VideoDeviceRecoveryHint: the device that was lost, and its path
    dpChosen,   \* select_recovery_device: its result
    dpMoves,
    dpListings

dpVars == <<dpAt, dpWire, dpSignal, dpJob, dpList, dpHint, dpChosen, dpMoves, dpListings>>

Wires == UNION {DpTraits[d].formats : d \in {e \in DpDevices : DpTraits[e].driver = "hdmirx"}}

DpInit ==
    /\ dpAt \in [DpDevices -> DpPaths \cup {Unplugged}]
    /\ \A d, e \in DpDevices : dpAt[d] = dpAt[e] /\ dpAt[d] # Unplugged => d = e
    /\ dpWire \in Wires /\ dpSignal \in BOOLEAN
    /\ dpJob = [pc |-> "idle", probes |-> {}, infos |-> {}]
    /\ dpList = {}
    /\ dpHint = [dev |-> DpNone, path |-> Unplugged]
    /\ dpChosen = DpNone /\ dpMoves = 0 /\ dpListings = 0

-----------------------------------------------------------------------------
(* What a probe finds *)

\* control_mode, is_rkcif_driver, is_rk_hdmirx_driver.
Follows(d) == DpTraits[d].driver \in {"rkcif", "hdmirx"}

\* sysfs_maybe_capture, sysfs_identity_maybe_capture: codecs and the like are
\* never opened.
MaybeCapture(d) == DpTraits[d].driver # "codec"

\* probe_live_input: a device that is configured has its current format; one
\* that follows its source is locked when the source sends something.
LiveInput(d) ==
    IF ~Follows(d) THEN "locked" ELSE IF dpSignal THEN "locked" ELSE "no_signal"

\* format_works_for_resolution: TRY_FMT leaves the format and the current size as
\* they are.
Works(d, f) == f \in DpTraits[d].works

\* enumerate_resolutions, enumerate_fps: sizes the driver lists one by one are
\* believed; when it has ranges or no such call the current mode is offered, in
\* the formats that work in it; any other answer leaves a format without a size.
Sized(d, f) ==
    \/ DpTraits[d].sizes = "discrete"
    \/ DpTraits[d].sizes \in {"stepwise", "unsupported"} /\ Works(d, f)

\* enumerate_formats: a format without a size is left out, unless the device is
\* set to it.
Offered(d) == {f \in DpTraits[d].formats : Sized(d, f) \/ f = DpTraits[d].active}

\* enumerate_bridge_formats: every format of an rkcif node, with the mode of the
\* source; of a native receiver only the one G_FMT reports.
BridgeFormats(d) ==
    IF DpTraits[d].driver = "hdmirx"
    THEN DpTraits[d].formats \cap {dpWire}
    ELSE DpTraits[d].formats

\* VideoDevice::info, with detect_capture_card and calculate_priority.
CaptureCard(d) == DpTraits[d].driver \in {"uvc", "rkcif", "hdmirx"}
Info(d) ==
    LET fs == IF Follows(d) THEN BridgeFormats(d) ELSE Offered(d)
    IN [dev |-> d, path |-> dpAt[d], status |-> LiveInput(d),
        wire |-> IF DpTraits[d].driver = "hdmirx" THEN dpWire ELSE DpTraits[d].active,
        formats |-> fs,
        priority |-> (IF CaptureCard(d) THEN 10 ELSE 0) + (IF "MJPG" \in fs THEN 1 ELSE 0)]

-----------------------------------------------------------------------------
(* enumerate_devices *)

Driver(i) == DpTraits[i.dev].driver
Bus(i) == DpTraits[i.dev].bus

\* collapse_rkcif_probe_candidates: of the many nodes of rkcif the first.
Collapse(ds) ==
    LET rk == {d \in ds : DpTraits[d].driver = "rkcif"}
    IN (ds \ rk) \cup {d \in rk : \A e \in rk : dpAt[d] <= dpAt[e]}

\* The candidates are listed, and a thread is started for each.  The list made
\* before is of no more use.
BeginListing ==
    /\ dpJob.pc = "idle" /\ dpChosen = DpNone /\ dpListings < MaxDpListings
    /\ dpListings' = dpListings + 1
    /\ dpJob' = [pc |-> "probing",
                 probes |-> Collapse({d \in DpDevices : dpAt[d] # Unplugged /\ MaybeCapture(d)}),
                 infos |-> {}]
    /\ dpList' = {}
    /\ UNCHANGED <<dpAt, dpWire, dpSignal, dpHint, dpChosen, dpMoves>>

\* A probe answers; the node may be gone by then.
ProbeAnswers(d) ==
    /\ dpJob.pc = "probing" /\ d \in dpJob.probes
    /\ dpJob' = [dpJob EXCEPT !.probes = @ \ {d},
                              !.infos = IF dpAt[d] = Unplugged THEN @ ELSE @ \cup {Info(d)}]
    /\ UNCHANGED <<dpAt, dpWire, dpSignal, dpList, dpHint, dpChosen, dpMoves, dpListings>>

\* probe_device_with_timeout gives a probe up, and leaves its thread behind.
ProbeTimesOut(d) ==
    /\ dpJob.pc = "probing" /\ d \in dpJob.probes
    /\ dpJob' = [dpJob EXCEPT !.probes = @ \ {d}]
    /\ UNCHANGED <<dpAt, dpWire, dpSignal, dpList, dpHint, dpChosen, dpMoves, dpListings>>

\* Highest priority first, then the lowest path; dedup_platform_subdevices keeps
\* the first of the nodes of rkcif that share a bus.
Ahead(i, j) == i.priority > j.priority \/ (i.priority = j.priority /\ i.path < j.path)
Dedup(is) ==
    {i \in is : Driver(i) = "rkcif" /\ Bus(i) # "" =>
        \A j \in is : Driver(j) = "rkcif" /\ Bus(j) = Bus(i) => ~Ahead(j, i)}

EndListing ==
    /\ dpJob.pc = "probing" /\ dpJob.probes = {}
    /\ dpList' = Dedup(dpJob.infos)
    /\ dpJob' = [pc |-> "idle", probes |-> {}, infos |-> {}]
    /\ UNCHANGED <<dpAt, dpWire, dpSignal, dpHint, dpChosen, dpMoves, dpListings>>

-----------------------------------------------------------------------------
(* Using the list *)

\* The device in use, from the list it was selected from.
UseDevice ==
    /\ dpJob.pc = "idle" /\ dpHint.dev = DpNone
    /\ \E i \in dpList : dpHint' = [dev |-> i.dev, path |-> i.path]
    /\ UNCHANGED <<dpAt, dpWire, dpSignal, dpJob, dpList, dpChosen, dpMoves, dpListings>>

\* The first of those that have a trait.
Earliest(is) == {i.dev : i \in {k \in is : \A j \in is : ~Ahead(j, k)}}

\* Mutant of SelectRecovery: the bus is not looked at.
SelectRecovery_NoBus(h) ==
    LET byPath == {i \in dpList : i.path = h.path}
        byName == {i \in dpList : Driver(i) = DpTraits[h.dev].driver /\ DpTraits[i.dev].card = DpTraits[h.dev].card}
    IN Earliest(IF byPath # {} THEN byPath ELSE IF byName # {} THEN byName ELSE dpList)

\* select_recovery_device: the path, then the bus, then driver and card, then
\* any capture card, then anything.
SelectRecovery(h) ==
    LET byPath == {i \in dpList : i.path = h.path}
        byBus  == {i \in dpList : DpTraits[h.dev].bus # "" /\ Bus(i) = DpTraits[h.dev].bus}
        byName == {i \in dpList : Driver(i) = DpTraits[h.dev].driver /\ DpTraits[i.dev].card = DpTraits[h.dev].card}
        byCard == {i \in dpList : CaptureCard(h.dev) /\ CaptureCard(i.dev)}
    IN Earliest(IF byPath # {} THEN byPath ELSE IF byBus # {} THEN byBus
                ELSE IF byName # {} THEN byName ELSE IF byCard # {} THEN byCard ELSE dpList)

Recover ==
    /\ dpJob.pc = "idle" /\ dpHint.dev # DpNone /\ dpChosen = DpNone
    /\ dpChosen' \in SelectRecovery(dpHint)
    /\ UNCHANGED <<dpAt, dpWire, dpSignal, dpJob, dpList, dpHint, dpMoves, dpListings>>

\* The chosen device is in use from now on, under the path it was listed with.
Adopt ==
    /\ dpChosen # DpNone
    /\ \E i \in dpList : i.dev = dpChosen /\ dpHint' = [dev |-> i.dev, path |-> i.path]
    /\ dpChosen' = DpNone
    /\ UNCHANGED <<dpAt, dpWire, dpSignal, dpJob, dpList, dpMoves, dpListings>>

\* The first of a device's formats.
FirstFormat(fs) ==
    CHOOSE f \in fs : \E n \in DOMAIN FormatRank :
        FormatRank[n] = f /\ \A m \in DOMAIN FormatRank : FormatRank[m] \in fs => n <= m

\* resolve_video_input_config: a device that follows its source gets the
\* format it has while it is locked, and never one it does not offer.
Resolved(i, requested) ==
    IF ~Follows(i.dev) THEN requested
    ELSE LET want == IF i.status = "locked" THEN i.wire ELSE requested
         IN IF i.formats # {} /\ want \notin i.formats THEN FirstFormat(i.formats) ELSE want

\* select_format: of a device that can be told, the format that was asked for, or
\* else the first it offers.
SelectFormat(i, preferred) ==
    IF preferred \in i.formats THEN preferred
    ELSE IF i.formats = {} THEN DpNone ELSE FirstFormat(i.formats)

\* resolve_capture_config
CaptureFormat(i, requested) ==
    IF Follows(i.dev) THEN Resolved(i, requested) ELSE SelectFormat(i, Resolved(i, requested))

\* Devices are plugged, unplugged and come back under another path (external).
Moves ==
    /\ dpMoves < MaxDpMoves /\ dpMoves' = dpMoves + 1
    /\ \E d \in DpDevices, p \in DpPaths \cup {Unplugged} :
          /\ p # dpAt[d] /\ (p = Unplugged \/ \A e \in DpDevices : dpAt[e] # p)
          /\ dpAt' = [dpAt EXCEPT ![d] = p]
    /\ UNCHANGED <<dpWire, dpSignal, dpJob, dpList, dpHint, dpChosen, dpListings>>

\* The HDMI source changes its encoding, goes or comes (external).
WireChanges ==
    /\ dpMoves < MaxDpMoves /\ dpMoves' = dpMoves + 1
    /\ dpSignal' \in BOOLEAN
    /\ IF dpSignal' THEN dpWire' \in Wires ELSE dpWire' = dpWire
    /\ UNCHANGED <<dpAt, dpJob, dpList, dpHint, dpChosen, dpListings>>

DpNext ==
    \/ BeginListing \/ EndListing \/ UseDevice \/ Recover \/ Adopt \/ Moves \/ WireChanges
    \/ \E d \in DpDevices : ProbeAnswers(d) \/ ProbeTimesOut(d)

\* A probe need not answer, its time limit passes all the same.
DpTurn(i) ==
    CASE i = 1 -> EndListing
      [] i = 2 -> \E d \in DpDevices : ProbeTimesOut(d)
      [] OTHER -> FALSE

DpFairness == \A i \in 1..2 : WF_dpVars(DpTurn(i))

DpSpec == DpInit /\ [][DpNext]_dpVars /\ DpFairness

-----------------------------------------------------------------------------

\* A device that moved to another path is found again there, as long as no other
\* device has taken its path or its place on the bus, whatever else was plugged
\* in and whichever probes timed out.
RecoveryFindsDevice ==
    dpChosen # DpNone =>
       \A i \in dpList :
          /\ i.dev = dpHint.dev /\ DpTraits[i.dev].bus # ""
          /\ \A j \in dpList : j.dev # i.dev => j.path # dpHint.path /\ Bus(j) # Bus(i)
          => dpChosen = i.dev

\* Whatever was asked for, a native receiver is told to capture what is on the
\* wire, as it was when it was probed: it takes nothing else.
WireFormatAsked ==
    \A i \in dpList, f \in Range(FormatRank) :
       Driver(i) = "hdmirx" => CaptureFormat(i, f) = i.wire

\* Every format a card offers is one it takes at the size it is offered with, or
\* the one it is set to; so whatever was asked for, it is set to such a format,
\* or to none.
OfferedWorks ==
    \A i \in dpList : ~Follows(i.dev) =>
       LET takes == DpTraits[i.dev].works \cup {DpTraits[i.dev].active}
       IN /\ i.formats \subseteq takes
          /\ \A f \in Range(FormatRank) : CaptureFormat(i, f) \in takes \cup {DpNone}

\* A driver that never answers does not block the listing.
ListingEnds == []<>(dpJob.pc = "idle")

=============================================================================
