---------------------------- MODULE VideoEncoder ----------------------------
(***************************************************************************)
(* Choosing, opening and feeding the encoder of a video pipeline           *)
(* (src/video/codec/registry.rs, libs/hwcodec/src/ffmpeg_ram/encode.rs,    *)
(* src/video/pipeline/encoder_state.rs, encode_frame_sync in shared.rs),   *)
(* and the state the Amlogic encoder keeps of its own                      *)
(* (src/video/codec/amlenc.rs).  A picture is what it is to a decoder that *)
(* starts there: a key with the parameter sets, a bare key, a delta.       *)
(***************************************************************************)
EXTENDS Naturals, Sequences, FiniteSets, SequencesExt

CONSTANTS
    VeHosts,    \* machines: [gpu, delay, aml, arm]
    VeAsked,    \* configurations: [codec, backend, input]
    VeFormats,  \* the formats a capture device may come to
    VePipes,    \* pipelines: one that ends, and the one that follows it
    Automatic,  \* no backend is configured
    NoEncoder   \* none is found, or built

VARIABLES
    veHost,     \* external: the machine
    veFound,    \* EncoderRegistry: the encoders registered, once detected
    vePipe,     \* per pipeline: what was built for it and what it emits
    veInUse     \* AMLENC_INSTANCE_ACTIVE

veVars == <<veHost, veFound, vePipe, veInUse>>

\* EncoderBackend, in the order of the priorities its encoders are given; the
\* software encoders always come last.
Backends == <<"nvenc", "qsv", "amf", "amlogic", "rkmpp", "vaapi", "v4l2m2m", "software">>
\* VideoEncoderType::ordered
Codecs == {"h264", "h265", "vp8", "vp9"}
\* PixelFormat, and is_compressed.
Formats ==
    {"MJPEG", "JPEG", "YUYV", "YVYU", "UYVY", "NV12", "NV21", "NV16", "NV24", "YUV420", "YVU420", "RGB565",
     "RGB24", "BGR24", "GREY"}
Compressed == {"MJPEG", "JPEG"}

\* What a GPU or a media driver may encode with, and what an Amlogic encoder is.
GpuBackends == {"nvenc", "qsv", "amf", "rkmpp", "vaapi", "v4l2m2m"}
VeChips == [handle : BOOLEAN, force : BOOLEAN, rebuild : BOOLEAN, expect : BOOLEAN, behind : BOOLEAN]

\* A board has the video unit of Rockchip or that of Amlogic; the formats are known.
ASSUME VeAssumption ==
    /\ \A h \in VeHosts : /\ h.gpu \subseteq GpuBackends /\ h.aml \subseteq {"h264", "h265"}
                          /\ "rkmpp" \in h.gpu => h.aml = {}
    /\ \A c \in VeAsked : c = [codec |-> c.codec, backend |-> c.backend, input |-> c.input]
                          /\ c.codec \in Codecs /\ c.input \in Formats
    /\ VeFormats \subseteq Formats /\ NoEncoder \notin VeFormats \cup VeChips
    /\ Automatic \notin Range(Backends)

Idle == [pc |-> "off", asked |-> NoEncoder, got |-> NoEncoder, built |-> NoEncoder,
         ask |-> FALSE, chip |-> NoEncoder, out |-> "none"]

VeInit ==
    /\ veHost \in VeHosts
    /\ veFound = {}
    /\ vePipe = [p \in VePipes |-> Idle]
    /\ veInUse = FALSE

-----------------------------------------------------------------------------
(* The encoders there are *)

Encoder(c, b, known) == [codec |-> c, backend |-> b, known |-> known]

\* enumerate_candidate_codecs: what the drivers of the machine could encode.
Candidates(h) ==
    {Encoder(c, b, TRUE) : c \in {"h264", "h265"}, b \in h.gpu}
      \cup {Encoder(c, b, TRUE) : c \in {"vp8", "vp9"}, b \in h.gpu \cap {"vaapi"}}

\* ProbePolicy: encoders that need some frames before they give one get five.
Attempts(b) == IF b \in {"amf", "v4l2m2m"} THEN 5 ELSE 1

\* validate_candidate: a candidate is kept when it answers within its attempts;
\* delay is the number of frames the encoder swallows first.
Validated(h) == {e \in Candidates(h) : h.delay[e.backend] < Attempts(e.backend)}

\* Mutant of AddSoftware: a codec may stay without.
AddSoftware_Some(es) == es \cup {Encoder(c, "software", TRUE) : c \in {"h264", "h265"} \ {e.codec : e \in es}}

\* add_software_fallback: FFmpeg's own encoder of a codec that has none.
AddSoftware(es) == es \cup {Encoder(c, "software", TRUE) : c \in Codecs \ {e.codec : e \in es}}

\* register_software_fallbacks: every codec without a software encoder gets one,
\* libx264, libx265, libvpx_vp8 or libvpx_vp9; FFmpeg knows none of the last two.
Fallbacks(es) ==
    es \cup {Encoder(c, "software", c \in {"h264", "h265"}) :
                c \in {d \in Codecs : ~\E e \in es : e.codec = d /\ e.backend = "software"}}

\* detect_amlenc_candidates: of the codecs the board has a node for, those whose
\* smoke test gave a picture.
Native(passed) == {Encoder(c, "amlogic", TRUE) : c \in passed}

\* detect_encoders; detect_encoders_with_timeout gives an answer up that does not
\* come in time.
Detect ==
    /\ veFound = {}
    /\ \E inTime \in BOOLEAN, passed \in SUBSET veHost.aml :
          veFound' = Fallbacks((IF inTime THEN AddSoftware(Validated(veHost)) ELSE {}) \cup Native(passed))
    /\ UNCHANGED <<veHost, vePipe, veInUse>>

\* encoder_with_backend
WithBackend(c, b) == {e \in veFound : e.codec = c /\ e.backend = b}

\* best_available_encoder: the first of the list, which is sorted by priority.
Best(c) ==
    LET Before(b, o) == \E i, j \in DOMAIN Backends : i <= j /\ Backends[i] = b /\ Backends[j] = o
    IN {e \in veFound : e.codec = c /\ \A o \in veFound : o.codec = c => Before(e.backend, o.backend)}

-----------------------------------------------------------------------------
(* Building an encoder for a configuration *)

\* The formats RKMPP takes as they come.
RkFormats == {"YUYV", "YUV420", "RGB24", "BGR24", "NV12", "NV16", "NV21", "NV24"}
\* Those libx264 takes.
X264Formats == {"NV12", "NV16", "NV21", "YUV420"}

\* use_rkmpp_direct: RKMPP can encode, is not ruled out, and takes the format.
\* use_yuyv_direct is the same for YUYV, whatever the codec.
RkDirect(c) ==
    /\ WithBackend("h264", "rkmpp") # {} /\ c.backend \in {Automatic, "rkmpp"}
    /\ c.input \in RkFormats
YuyvDirect(c) == RkDirect(c) /\ c.input = "YUYV"

\* selected_codec_name: the set is empty when there is none, which is an error.
Select(c) ==
    IF RkDirect(c) /\ c.codec \in {"h264", "h265"} THEN WithBackend(c.codec, "rkmpp")
    ELSE IF c.backend = Automatic THEN Best(c.codec) ELSE WithBackend(c.codec, c.backend)

\* should_parallel_decode_mjpeg: the capture thread decodes for AMLENC.
ParallelDecode(c) ==
    /\ c.input \in Compressed /\ c.codec \in {"h264", "h265"}
    /\ \E e \in IF c.backend = Automatic THEN Best(c.codec) ELSE WithBackend(c.codec, c.backend) :
          e.backend = "amlogic"

\* The format an H.264 encoder is opened for: h264_direct_input_format, or else
\* what its kind takes.
H264Input(b, f) ==
    IF (b = "rkmpp" /\ f \in RkFormats) \/ (b = "software" /\ f \in X264Formats) THEN f
    ELSE IF b = "software" THEN "YUV420" ELSE "NV12"

\* h265_direct_input_format, and with_codec: libx265 gets YUV420.
H265Input(b, f) ==
    IF b = "rkmpp" /\ f \in RkFormats THEN f ELSE IF b = "software" THEN "YUV420" ELSE "NV12"

\* VP8Encoder::with_codec, and the same for VP9
Vp8Input(b) == IF b = "software" THEN "YUV420" ELSE "NV12"
Vp9Input(b) == IF b = "software" THEN "YUV420" ELSE "NV12"

Opened(e, f) ==
    CASE e.codec = "h264" -> H264Input(e.backend, f)
      [] e.codec = "h265" -> H265Input(e.backend, f)
      [] e.codec = "vp8" -> Vp8Input(e.backend)
      [] e.codec = "vp9" -> Vp9Input(e.backend)

\* use_direct_input
DirectInput(e, f) ==
    CASE e.backend = "amlogic" -> f = "NV12"
      [] e.backend = "rkmpp" -> f \in RkFormats
      [] e.backend = "software" /\ e.codec = "h264" -> f \in X264Formats
      [] OTHER -> FALSE

\* needs_yuv420p
NeedsYuv420(e, f) == e.backend = "software" /\ (e.codec = "h264" => f \notin X264Formats)

\* converters_for_pipeline: the format a converter makes, none, or an error for a
\* format it has no converter from.
Converter(e, f, direct) ==
    LET made == IF NeedsYuv420(e, f) THEN "YUV420" ELSE "NV12"
    IN IF direct \/ DirectInput(e, f) THEN "none"
       ELSE IF f \notin RkFormats THEN "error"
       ELSE IF f = made THEN "none" ELSE made

\* build_encoder_state, for the encoder e of the configuration c: hw, the MJPEG
\* pipeline of FFmpeg; decode, a decoder in front.
Building(c, e) ==
    IF veHost.arm /\ c.input \in Compressed /\ e.backend = "rkmpp" /\ c.codec \in {"h264", "h265"}
    THEN [hw |-> TRUE, enc |-> e, decode |-> FALSE, from |-> c.input, opened |-> "MJPEG", conv |-> "none",
          direct |-> FALSE]
    ELSE LET f == IF c.input \in Compressed THEN "NV12" ELSE c.input
         IN [hw |-> FALSE, enc |-> e, decode |-> c.input \in Compressed, from |-> f, opened |-> Opened(e, f),
             conv |-> Converter(e, f, YuyvDirect(c)), direct |-> YuyvDirect(c)]

-----------------------------------------------------------------------------
(* AMLENC: the handle and the flags of the encoder, and behind, which is true   *)
(* while viewers can use no picture but a key with its parameter sets           *)

\* Mutant of Fresh: nothing is expected of the first picture.
Fresh_Any(codec) == [handle |-> TRUE, force |-> codec = "h265", rebuild |-> FALSE, expect |-> FALSE, behind |-> TRUE]

\* create_handle succeeds.
Fresh(codec) == [handle |-> TRUE, force |-> codec = "h265", rebuild |-> FALSE, expect |-> TRUE, behind |-> TRUE]

\* rebuild: the handle is destroyed; when no other can be made the flags stay.
Rebuilt(a, codec) == {Fresh(codec), [a EXCEPT !.handle = FALSE]}

\* AmlencEncoder::request_keyframe
Requested(a, codec) ==
    [a EXCEPT !.behind = TRUE,
              !.force = @ \/ codec = "h265",
              !.rebuild = @ \/ (codec = "h264" /\ ~a.expect)]

\* encode_once: what the vendor's library may answer to one frame, the encoder
\* that is left and what comes out of it.
Once(a, codec) ==
    LET sent == [a EXCEPT !.force = FALSE]
        met == [sent EXCEPT !.expect = FALSE]
        must == a.expect \/ a.force
        refused == {<<a, "error">>, <<sent, "error">>}
        key == <<[met EXCEPT !.behind = FALSE], "key">>
        nothing == IF a.force THEN {<<sent, "error">>} ELSE {<<sent, "none">>}
        stalled == IF a.force THEN {}
                   ELSE {<<r, IF r.handle THEN "none" ELSE "error">> : r \in Rebuilt(sent, codec)}
        other == IF must THEN <<sent, "error">> ELSE <<met, IF a.behind THEN "broken" ELSE "delta">>
    IN IF a.handle THEN refused \cup nothing \cup stalled \cup {key, other} ELSE {<<a, "error">>}

\* encode_raw: a rebuild that is due, then a try, and after an error one rebuild
\* and one more try.
Again(a, codec) ==
    UNION {IF r.handle THEN Once(r, codec) ELSE {<<r, "error">>} : r \in Rebuilt(a, codec)}
Tries(a, codec) ==
    UNION {IF t[2] = "error" THEN Again(t[1], codec) ELSE {t} : t \in Once(a, codec)}
EncodeRaw(a, codec) ==
    IF ~a.rebuild THEN Tries(a, codec)
    ELSE UNION {IF r.handle THEN Tries(r, codec) ELSE {<<r, "error">>} : r \in Rebuilt(a, codec)}

-----------------------------------------------------------------------------
(* Running a pipeline *)

\* start_with_device, of a pipeline that replaces one which was told to stop: the
\* device is opened first and may come to another format than the one asked for;
\* without a signal it is not open, and the encoder is built for what is
\* configured.  An Amlogic encoder is refused while there is another.
Start(p) ==
    /\ veFound # {} /\ vePipe[p].pc = "off" /\ \A o \in VePipes : vePipe[o].pc # "on"
    /\ \E c \in VeAsked, got \in VeFormats \cup {NoEncoder} :
          LET input == IF got = NoEncoder THEN c.input ELSE got
              conf == [c EXCEPT !.input = IF ParallelDecode(c) THEN "NV12" ELSE input]
          IN \E e \in Select(conf) :
                LET b == Building(conf, e)
                    chip == IF e.backend = "amlogic" THEN Fresh(e.codec) ELSE NoEncoder
                IN /\ e.known /\ b.conv # "error"
                   /\ e.backend = "amlogic" => ~veInUse
                   /\ vePipe' = [vePipe EXCEPT ![p] =
                         [pc |-> "on", asked |-> c, got |-> got, built |-> b, ask |-> FALSE, chip |-> chip,
                          out |-> "none"]]
                   /\ veInUse' = (veInUse \/ e.backend = "amlogic")
    /\ UNCHANGED <<veHost, veFound>>

\* request_keyframe of the pipeline.
AskKeyframe(p) ==
    /\ vePipe[p].pc = "on"
    /\ vePipe' = [vePipe EXCEPT ![p].ask = TRUE]
    /\ UNCHANGED <<veHost, veFound, veInUse>>

\* apply_cmd, set_bitrate: the Amlogic encoder is made anew.
SetBitrate(p) ==
    /\ vePipe[p].pc = "on" /\ vePipe[p].chip # NoEncoder
    /\ \E r \in Rebuilt(vePipe[p].chip, vePipe[p].built.enc.codec) :
          vePipe' = [vePipe EXCEPT ![p].chip = r]
    /\ UNCHANGED <<veHost, veFound, veInUse>>

\* compact_strided_frame_for_encoder: the planes of a frame whose lines are
\* stride bytes apart, w columns and h rows: where a plane begins, how far its
\* rows are apart, where it goes, and the rows copied.
Plane(at, step, to, row, rows) == [at |-> at, step |-> step, to |-> to, row |-> row, rows |-> rows]
Planes(f, w, h, stride) ==
    CASE f \in {"NV12", "NV21"} ->
           <<Plane(0, stride, 0, w, h), Plane(stride * h, stride, w * h, w, h \div 2)>>
      [] f \in {"YUV420", "YVU420"} ->
           LET at == stride * h to == w * h
           IN <<Plane(0, stride, 0, w, h), Plane(at, stride \div 2, to, w \div 2, h \div 2),
                Plane(at + (((stride \div 2) * h) \div 2), stride \div 2,
                      to + (((w \div 2) * h) \div 2), w \div 2, h \div 2)>>
      [] f = "NV16" -> <<Plane(0, stride, 0, w, h), Plane(stride * h, stride, w * h, w, h)>>
      [] f = "NV24" -> <<Plane(0, stride, 0, w, h), Plane(stride * h, stride * 2, w * h, w * 2, h)>>
      [] f \in {"YUYV", "YVYU", "UYVY", "RGB565"} -> <<Plane(0, stride, 0, w * 2, h)>>
      [] f \in {"RGB24", "BGR24"} -> <<Plane(0, stride, 0, w * 3, h)>>
      [] OTHER -> <<Plane(0, stride, 0, w, h)>>

\* What require_len asks for.
Required(f, h, stride) ==
    CASE f \in {"NV12", "NV21", "YUV420", "YVU420"} -> (stride * h * 3) \div 2
      [] f = "NV16" -> stride * h * 2
      [] f = "NV24" -> stride * h * 3
      [] OTHER -> stride * h

\* compact_size
CompactSize(f, w, h) ==
    CASE f \in {"NV12", "NV21", "YUV420", "YVU420"} -> (w * h * 3) \div 2
      [] f \in {"NV16", "YUYV", "YVYU", "UYVY", "RGB565"} -> w * h * 2
      [] f \in {"NV24", "RGB24", "BGR24"} -> w * h * 3
      [] OTHER -> w * h

\* A frame of two columns and two rows; a compressed one is smaller than any other.
Bytes(f) == IF f \in Compressed THEN 1 ELSE CompactSize(f, 2, 2)

\* encode_frame_sync, up to the encoder: what a frame is when it is handed over.
\* The MJPEG pipeline refuses other input; a frame that does not decode is dropped;
\* a converter made for another format fails or makes garbage.
Handed(q) ==
    LET b == q.built
        decodes == ParallelDecode(q.asked) \/ b.decode
        inner == IF decodes THEN "NV12" ELSE q.got
    IN IF b.hw THEN IF b.from = "MJPEG" THEN q.got ELSE "refused"
       ELSE IF decodes /\ q.got \notin Compressed THEN "dropped"
       ELSE IF b.conv = "none" THEN inner
       ELSE IF inner = b.from THEN b.conv
       ELSE IF Bytes(inner) < Bytes(b.from) THEN "error" ELSE "garbage"

Reaches(q) == Handed(q) \notin {"refused", "dropped", "error"}

\* The length an encoder wants, for one that was opened for m bytes: AMLENC exactly
\* these, the encoders of FFmpeg at least.
AmlogicTakes(n, m) == n = m
FfmpegTakes(n, m) == n >= m
Fits(q) ==
    LET n == IF q.built.conv = "none" THEN Bytes(Handed(q)) ELSE Bytes(q.built.conv)
        m == Bytes(q.built.opened)
    IN IF q.chip # NoEncoder THEN AmlogicTakes(n, m) ELSE FfmpegTakes(n, m)

\* encode_raw of the encoders of FFmpeg: a frame may be kept for later.
FfmpegAnswers == {"none", "key", "delta", "error"}

\* encode_frame_sync: a request for a key is passed on with the first frame that
\* gets as far as its conversion.
EncodeFrame(p) ==
    LET q == vePipe[p]
        codec == q.built.enc.codec
        chip == IF q.ask /\ q.chip # NoEncoder THEN Requested(q.chip, codec) ELSE q.chip
    IN /\ q.pc = "on" /\ q.got # NoEncoder
       /\ \/ /\ Handed(q) \in {"refused", "dropped"}
             /\ vePipe' = [vePipe EXCEPT ![p].out = Handed(q)]
          \/ /\ Handed(q) = "error"
             /\ vePipe' = [vePipe EXCEPT ![p].out = "error", ![p].ask = FALSE, ![p].chip = chip]
          \/ /\ Reaches(q) /\ ~Fits(q)
             /\ vePipe' = [vePipe EXCEPT ![p].out = "short", ![p].ask = FALSE, ![p].chip = chip]
          \/ /\ Reaches(q) /\ Fits(q) /\ chip = NoEncoder
             /\ \E o \in FfmpegAnswers :
                   vePipe' = [vePipe EXCEPT ![p].out = o, ![p].ask = FALSE]
          \/ /\ Reaches(q) /\ Fits(q) /\ chip # NoEncoder
             /\ \E t \in EncodeRaw(chip, codec) :
                   vePipe' = [vePipe EXCEPT ![p].out = t[2], ![p].ask = FALSE, ![p].chip = t[1]]
       /\ UNCHANGED <<veHost, veFound, veInUse>>

\* stop, and the encoder thread notices at its next frame: it drops the encoder,
\* which releases the chip.
Stop(p) ==
    /\ vePipe[p].pc = "on"
    /\ vePipe' = [vePipe EXCEPT ![p] = [Idle EXCEPT !.pc = "ending", !.chip = vePipe[p].chip]]
    /\ UNCHANGED <<veHost, veFound, veInUse>>
ThreadEnds(p) ==
    /\ vePipe[p].pc = "ending" /\ vePipe' = [vePipe EXCEPT ![p] = Idle]
    /\ veInUse' = (veInUse /\ vePipe[p].chip = NoEncoder)
    /\ UNCHANGED <<veHost, veFound>>

\* The format the encoder was sized for.
ExpectedInput(q) == IF q.got = NoEncoder THEN q.asked.input ELSE q.got

\* Mutant of OpensLater: a device without a signal at the start may come to any.
OpensLater_Any(p) ==
    /\ vePipe[p].pc = "on" /\ vePipe[p].got = NoEncoder
    /\ \E f \in VeFormats : vePipe' = [vePipe EXCEPT ![p].got = f]
    /\ UNCHANGED <<veHost, veFound, veInUse>>

\* The capture thread opens the device again, or for the first time when it had no
\* signal; a format the encoder was not sized for stops the pipeline.
OpensLater(p) ==
    /\ vePipe[p].pc = "on"
    /\ \/ /\ ExpectedInput(vePipe[p]) \in VeFormats
          /\ vePipe' = [vePipe EXCEPT ![p].got = ExpectedInput(vePipe[p])]
          /\ UNCHANGED <<veHost, veFound, veInUse>>
       \/ (\E f \in VeFormats : f # ExpectedInput(vePipe[p])) /\ Stop(p)

VeNext ==
    \/ Detect
    \/ \E p \in VePipes :
          \/ Start(p) \/ OpensLater(p) \/ AskKeyframe(p) \/ SetBitrate(p) \/ EncodeFrame(p) \/ Stop(p) \/ ThreadEnds(p)

VeSpec == VeInit /\ [][VeNext]_veVars

-----------------------------------------------------------------------------

\* A frame that reaches an encoder has the format the encoder was opened for,
\* whether the device was open as the encoder was built or has come to a signal
\* since; but one of YUYV skips its conversion whenever RKMPP could have taken it,
\* whichever encoder was chosen.
FedAsTaken ==
    \A p \in VePipes : LET q == vePipe[p] IN
       q.pc = "on" /\ q.got # NoEncoder /\ Reaches(q) =>
          /\ Handed(q) = q.built.opened \/ (q.built.direct /\ q.built.enc.backend # "rkmpp")
          /\ q.out # "short"

\* Where a hardware encoder answered, the encoder chosen for a codec by itself is
\* one that FFmpeg has; a software encoder it does not have is never the first.
AutomaticWorks ==
    (\E e \in veFound : e.backend \notin {"software", "amlogic"}) =>
       \A c \in Codecs : Best(c) # {} /\ \A e \in Best(c) : e.known

\* Whatever the vendor's library answers, the first picture of a new encoder, and
\* the first after a key was asked for, is a key with its parameter sets.
KeyComesFirst == \A p \in VePipes : vePipe[p].out # "broken"

\* The chip is used by one encoder at a time, and is free when none is there.
OneChip ==
    LET users == {p \in VePipes : vePipe[p].chip # NoEncoder}
    IN Cardinality(users) <= 1 /\ (veInUse <=> users # {})

\* Making a frame tight writes every byte of the new frame once, from inside a row
\* of the frame that came.
RowsTile ==
    \A f \in Formats \ Compressed, w \in {2, 4}, h \in {2, 4}, pad \in {0, 2} :
       LET ps == Planes(f, w, h, Planes(f, w, h, 0)[1].row + pad)
           stride == ps[1].step
           rows == {<<i, r>> : i \in DOMAIN ps, r \in 0..(h - 1)}
           used == {x \in rows : x[2] < ps[x[1]].rows}
           to(x) == ps[x[1]].to + x[2] * ps[x[1]].row
           span(x) == to(x)..(to(x) + ps[x[1]].row - 1)
           from(x) == ps[x[1]].at + x[2] * ps[x[1]].step
       IN /\ \A x \in used : from(x) + ps[x[1]].row <= Required(f, h, stride) /\ ps[x[1]].row <= ps[x[1]].step
          /\ UNION {span(x) : x \in used} = 0..(CompactSize(f, w, h) - 1)
          /\ \A x, y \in used : x # y => span(x) \cap span(y) = {}

=============================================================================
