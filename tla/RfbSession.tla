---- MODULE RfbSession ----
(***************************************************************************)
(* One VNC client: the loop of handle_client (vnc/mod.rs), the RFB state   *)
(* of RfbClient (vnc/rfb.rs), the task that forwards frames through a      *)
(* watch channel, and the viewer at the other end.                         *)
(*                                                                         *)
(* A watch channel keeps only the newest frame.  Capture that starts again *)
(* counts its frames from zero.  Sizes are model values, and a message is  *)
(* what is left of it after parsing.                                       *)
(***************************************************************************)
EXTENDS Naturals, Sequences, FiniteSets

CONSTANTS
    VnSizes,      \* resolutions of the source
    VnButtons,    \* mouse buttons
    MaxVnMsgs,    \* bound: messages of the viewer
    MaxVnFrames,  \* bound: frames of the source
    MaxVnFaults   \* bound: resizes, restarts, failures of the source and of HID

ASSUME VnAssumption ==
    /\ VnSizes # {} /\ VnButtons # {}
    /\ MaxVnMsgs \in Nat /\ MaxVnFrames \in Nat /\ MaxVnFaults \in Nat

VARIABLES
    vnCfg,     \* VncConfig.encoding: "h264" or "jpeg"
    vnC,       \* RfbClient and its task: [pc, on, resize, size, pending, sent, waiting, mask]
    vnSrc,     \* the source: [size, want, seq, made, open]
    vnWatch,   \* the frame in the watch channel, marked when it was not seen
    vnLatest,  \* latest_frame
    vnBuf,     \* the messages that have arrived
    vnViewer,  \* external: [asked, size, needKey, bad]
    vnHost,    \* the buttons the host sees pressed
    vnMsgs,
    vnFaults

vnVars == <<vnCfg, vnC, vnSrc, vnWatch, vnLatest, vnBuf, vnViewer, vnHost, vnMsgs, vnFaults>>

\* RfbFrame; the number 0 stands for None.
VnFrames == [key : BOOLEAN, size : VnSizes, seq : 0..MaxVnFrames]
NoFrame == [key |-> FALSE, size |-> CHOOSE s \in VnSizes : TRUE, seq |-> 0]

VnMessages ==
    [kind : {"encodings"}, on : BOOLEAN, resize : BOOLEAN]
        \cup [kind : {"request"}, inc : BOOLEAN]
        \cup [kind : {"pointer"}, mask : SUBSET VnButtons]
        \cup [kind : {"other"}]              \* key, pixel format, cut text

\* RfbClient::new and set_size.
VnInit ==
    /\ vnCfg \in {"h264", "jpeg"}
    /\ vnSrc \in {[size |-> s, want |-> FALSE, seq |-> 0, made |-> 0, open |-> TRUE] : s \in VnSizes}
    /\ vnC = [pc |-> "auth", on |-> FALSE, resize |-> FALSE, size |-> vnSrc.size, pending |-> "none",
              sent |-> 0, waiting |-> TRUE, mask |-> {}]
    /\ vnWatch = [frame |-> NoFrame, fresh |-> FALSE] /\ vnLatest = NoFrame
    /\ vnBuf = <<>>
    /\ vnViewer = [asked |-> 0, size |-> vnSrc.size, needKey |-> TRUE, bad |-> "no"]
    /\ vnHost = {} /\ vnMsgs = 0 /\ vnFaults = 0

VnFault == vnFaults < MaxVnFaults /\ vnFaults' = vnFaults + 1

-----------------------------------------------------------------------------
(* The start of a session *)

\* handshake up to ServerInit: version, VNCAuth with the configured password.
VnAuth ==
    /\ vnC.pc = "auth"
    /\ \/ vnC' = [vnC EXCEPT !.pc = "negotiate"] /\ UNCHANGED vnFaults
       \/ VnFault /\ vnC' = [vnC EXCEPT !.pc = "ended"]
    /\ UNCHANGED <<vnCfg, vnSrc, vnWatch, vnLatest, vnBuf, vnViewer, vnHost, vnMsgs>>

\* decode_buffered_input: what a message changes before the loop sees it.
DecodeMessage(c, m) ==
    CASE m.kind = "encodings" ->
           [c EXCEPT !.on = m.on, !.resize = m.resize,
                     !.waiting = @ \/ (~c.on /\ m.on /\ vnCfg = "h264")]
      [] m.kind = "request" ->
           [c EXCEPT !.pending = IF m.inc /\ @ # "full" THEN "inc" ELSE "full",
                     !.waiting = @ \/ (~m.inc /\ vnCfg = "h264")]
      [] m.kind = "pointer" -> [c EXCEPT !.mask = m.mask]
      [] OTHER -> c

\* read_until_set_encodings: other messages are decoded, so a request is kept,
\* and then dropped; validate_encoding_policy; subscribe_frames, which asks
\* for a key frame.
Negotiate ==
    /\ vnC.pc = "negotiate" /\ vnBuf # <<>>
    /\ LET m == vnBuf[1]
           c == DecodeMessage(vnC, m)
       IN  \/ m.kind # "encodings" /\ vnC' = c /\ UNCHANGED vnSrc
           \/ m.kind = "encodings" /\ ~c.on /\ vnC' = [c EXCEPT !.pc = "ended"] /\ UNCHANGED vnSrc
           \/ /\ m.kind = "encodings" /\ c.on
              /\ vnC' = [c EXCEPT !.pc = "loop"]
              /\ vnSrc' = IF vnCfg = "h264" THEN [vnSrc EXCEPT !.want = TRUE] ELSE vnSrc
    /\ vnBuf' = Tail(vnBuf)
    /\ UNCHANGED <<vnCfg, vnWatch, vnLatest, vnViewer, vnHost, vnMsgs, vnFaults>>

-----------------------------------------------------------------------------
(* The loop *)

\* Mutant of SendFrame: the announcement of a new size does not start over.
SendFrame_Resize(c, f) ==
    IF c.pending = "none" \/ ~c.on THEN [out |-> "none", c |-> c]
    ELSE IF f.size # c.size
    THEN IF ~c.resize THEN [out |-> "error", c |-> c]
         ELSE [out |-> "size", c |-> [c EXCEPT !.size = f.size, !.sent = 0, !.waiting = TRUE]]
    ELSE IF c.pending = "inc" /\ c.sent # 0 /\ f.seq <= c.sent THEN [out |-> "none", c |-> c]
    ELSE IF vnCfg = "h264" /\ c.waiting /\ ~f.key THEN [out |-> "none", c |-> c]
    ELSE [out |-> "frame", c |-> [c EXCEPT !.pending = "none", !.sent = f.seq, !.waiting = FALSE]]

\* send_frame: nothing without a request or with the encoding switched off; a
\* new size is announced first, which answers the request; an incremental
\* request waits for a higher number, H.264 for a key frame where one is due.
SendFrame(c, f) ==
    IF c.pending = "none" \/ ~c.on THEN [out |-> "none", c |-> c]
    ELSE IF f.size # c.size
    THEN IF ~c.resize THEN [out |-> "error", c |-> c]
         ELSE [out |-> "size", c |-> [c EXCEPT !.size = f.size, !.pending = "none", !.sent = 0, !.waiting = TRUE]]
    ELSE IF c.pending = "inc" /\ c.sent # 0 /\ f.seq <= c.sent THEN [out |-> "none", c |-> c]
    ELSE IF vnCfg = "h264" /\ c.waiting /\ ~f.key THEN [out |-> "none", c |-> c]
    ELSE [out |-> "frame", c |-> [c EXCEPT !.pending = "none", !.sent = f.seq, !.waiting = FALSE]]

\* What the viewer makes of an answer (external).
Viewed(v, out, f) ==
    CASE out = "size"  -> [v EXCEPT !.asked = 0, !.size = f.size, !.needKey = (vnCfg = "h264"),
                                    !.bad = IF v.asked = 0 THEN "unasked" ELSE @]
      [] out = "frame" -> [v EXCEPT !.asked = 0, !.needKey = FALSE,
                                    !.bad = IF v.asked = 0 THEN "unasked"
                                             ELSE IF v.size # f.size THEN "size"
                                             ELSE IF vnCfg = "h264" /\ v.needKey /\ ~f.key THEN "delta" ELSE @]
      [] OTHER -> v

\* The end of a turn of the loop: nothing is sent while a complete message is
\* still in the buffer.  `want' is whether the turn asked for a key frame.
EndOfTurn(c, f, want, buffered) ==
    LET r == IF f.seq = 0 \/ buffered THEN [out |-> "none", c |-> c] ELSE SendFrame(c, f)
    IN  /\ vnC' = IF r.out = "error" THEN [c EXCEPT !.pc = "ended"] ELSE r.c
        /\ vnViewer' = Viewed(vnViewer, r.out, f)
        /\ vnLatest' = f
        /\ vnSrc' = [vnSrc EXCEPT !.want = @ \/ (vnCfg = "h264" /\ (want \/ r.out = "size"))]

\* pointer_event_to_hid: a button whose bit changed goes down or up.
Pressed(host, before, mask) == (host \cup (mask \ before)) \ (before \ mask)

\* read_input_event and the branch of its event; HID that fails ends the client.
InputTurn ==
    /\ vnC.pc = "loop" /\ vnBuf # <<>>
    /\ LET m == vnBuf[1]
           c == DecodeMessage(vnC, m)
           want == \/ m.kind = "encodings" /\ ~vnC.on /\ c.on
                   \/ m.kind = "request" /\ ~m.inc
       IN  /\ vnHost' = IF m.kind = "pointer" THEN Pressed(vnHost, vnC.mask, m.mask) ELSE vnHost
           /\ EndOfTurn(c, vnLatest, want, Len(vnBuf) > 1)
    /\ vnBuf' = Tail(vnBuf)
    /\ UNCHANGED <<vnCfg, vnWatch, vnMsgs, vnFaults>>

HidFails ==
    /\ vnC.pc = "loop" /\ vnBuf # <<>> /\ vnBuf[1].kind \in {"pointer", "other"}
    /\ VnFault
    /\ vnC' = [vnC EXCEPT !.pc = "ended"]
    /\ UNCHANGED <<vnCfg, vnSrc, vnWatch, vnLatest, vnBuf, vnViewer, vnHost, vnMsgs>>

\* frame_rx.changed(), which the biased select takes only without input.
FrameTurn ==
    /\ vnC.pc = "loop" /\ vnBuf = <<>> /\ vnWatch.fresh
    /\ vnWatch' = [vnWatch EXCEPT !.fresh = FALSE]
    /\ EndOfTurn(vnC, vnWatch.frame, vnLatest.seq # 0 /\ vnWatch.frame.size # vnLatest.size, FALSE)
    /\ UNCHANGED <<vnCfg, vnBuf, vnHost, vnMsgs, vnFaults>>

\* The forwarding task ended with its subscription, or the viewer is gone.
VncEnds ==
    /\ vnC.pc = "loop" /\ ~vnSrc.open /\ ~vnWatch.fresh
    /\ vnC' = [vnC EXCEPT !.pc = "ended"]
    /\ UNCHANGED <<vnCfg, vnSrc, vnWatch, vnLatest, vnBuf, vnViewer, vnHost, vnMsgs, vnFaults>>

-----------------------------------------------------------------------------
(* The source *)

\* The task of subscribe_frames puts the next frame into the channel, with the
\* size the encoder has by then.  An encoder that was asked gives a key frame;
\* it also gives one now and then by itself.
Produce ==
    /\ vnC.pc = "loop" /\ vnSrc.open /\ vnSrc.made < MaxVnFrames
    /\ \E key \in IF vnCfg = "jpeg" THEN {FALSE} ELSE IF vnSrc.want THEN {TRUE} ELSE BOOLEAN :
          /\ vnSrc' = [vnSrc EXCEPT !.want = FALSE, !.seq = @ + 1, !.made = @ + 1]
          /\ vnWatch' = [frame |-> [key |-> key, size |-> vnSrc.size, seq |-> vnSrc'.seq], fresh |-> TRUE]
    /\ UNCHANGED <<vnCfg, vnC, vnLatest, vnBuf, vnViewer, vnHost, vnMsgs, vnFaults>>

\* Another resolution; a pipeline that ends (H.264); capture that starts again
\* behind the MJPEG handler (JPEG).
SourceChanges ==
    /\ VnFault /\ vnSrc.open
    /\ \/ \E s \in VnSizes \ {vnSrc.size} : vnSrc' = [vnSrc EXCEPT !.size = s]
       \/ vnCfg = "h264" /\ vnSrc' = [vnSrc EXCEPT !.open = FALSE]
       \/ vnCfg = "jpeg" /\ vnSrc.seq > 0 /\ vnSrc' = [vnSrc EXCEPT !.seq = 0]
    /\ UNCHANGED <<vnCfg, vnC, vnWatch, vnLatest, vnBuf, vnViewer, vnHost, vnMsgs>>

-----------------------------------------------------------------------------
(* The viewer (external) *)

\* A full request makes it expect a picture that stands by itself, and so does
\* switching the encoding on again.
ViewerSends ==
    /\ vnC.pc \in {"negotiate", "loop"} /\ vnMsgs < MaxVnMsgs
    /\ vnMsgs' = vnMsgs + 1
    /\ \E m \in VnMessages :
          /\ vnBuf' = Append(vnBuf, m)
          /\ vnViewer' = IF m.kind = "request" THEN [vnViewer EXCEPT !.asked = 1] ELSE vnViewer
    /\ UNCHANGED <<vnCfg, vnC, vnSrc, vnWatch, vnLatest, vnHost, vnFaults>>

ViewerLeaves ==
    /\ vnC.pc \in {"negotiate", "loop"} /\ vnBuf = <<>> /\ VnFault
    /\ vnC' = [vnC EXCEPT !.pc = "ended"]
    /\ UNCHANGED <<vnCfg, vnSrc, vnWatch, vnLatest, vnBuf, vnViewer, vnHost, vnMsgs>>

VnNext ==
    \/ VnAuth \/ Negotiate \/ InputTurn \/ HidFails \/ FrameTurn \/ VncEnds
    \/ Produce \/ SourceChanges \/ ViewerSends \/ ViewerLeaves

VnSpec == VnInit /\ [][VnNext]_vnVars

-----------------------------------------------------------------------------

VnTypeOK ==
    /\ vnC \in [pc : {"auth", "negotiate", "loop", "ended"}, on : BOOLEAN, resize : BOOLEAN, size : VnSizes,
                pending : {"none", "inc", "full"}, sent : 0..MaxVnFrames, waiting : BOOLEAN,
                mask : SUBSET VnButtons]
    /\ vnSrc \in [size : VnSizes, want : BOOLEAN, seq : 0..MaxVnFrames, made : 0..MaxVnFrames, open : BOOLEAN]
    /\ vnWatch.frame \in VnFrames /\ vnLatest \in VnFrames
    /\ vnHost \subseteq VnButtons
    /\ Len(vnBuf) <= MaxVnMsgs

\* The viewer gets what it can use: an answer only to a request, one for all
\* the requests that are open, a picture of the size it was told last, and an
\* H.264 stream that starts with a key frame, again after every change of the
\* size.
AnswersFit == vnViewer.bad = "no"

\* A full request is never answered with a picture that builds on others: the
\* flag that waits for a key frame is up as long as such a request is open.
FullMeansKey == vnCfg = "h264" /\ vnC.pending = "full" => vnC.waiting

\* The host has no button pressed that the viewer has released, whatever was
\* pressed while the session was still being negotiated.
ButtonsFollow == vnHost \subseteq vnC.mask

====
