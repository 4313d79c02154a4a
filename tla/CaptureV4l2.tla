---- MODULE CaptureV4l2 ----
(***************************************************************************)
(* A V4L2 capture stream on the three kinds of hardware                    *)
(* (src/video/capture/linux.rs, src/video/device/bridge.rs): a USB card, a *)
(* bridge behind a subdevice (RK628), and the native HDMI receiver.        *)
(*                                                                         *)
(* The source may change or vanish between any two system calls.  An RK628 *)
(* without a signal reports a mode all the same, and must not be streamed  *)
(* from; a native receiver may change its mode without an event.           *)
(***************************************************************************)
EXTENDS Naturals

CONSTANTS
    CvModes,      \* modes of the source
    CvSize,       \* bytes of a frame in each mode, and of the synthetic one
    NoMode,       \* no signal
    FakeMode,     \* the 640x480 an RK628 reports without a signal
    CvBuffers,    \* capture buffers
    MaxCvChanges, \* bound: changes of the source
    MaxCvFaults   \* bound: system calls that fail

ASSUME CvAssumption == NoMode \notin CvModes /\ FakeMode \notin CvModes \cup {NoMode} /\ CvBuffers \in Nat \ {0}

VARIABLES
    cvKind,     \* "usb", "rk628" or "hdmirx"
    cvSrc,      \* external: what the source sends
    cvFd,       \* the stream: [pc, mode, queued]
    cvEvents,   \* SOURCE_CHANGE: [sub, pending]
    cvFrame,    \* what the buffer just dequeued holds
    cvOut,      \* the last frame handed out: [got, mode]
    cvEnd,      \* why the last stream was given up: [why, changed]
    cvChanged,  \* history: the source has left the mode of the open stream
    cvChanges,
    cvFaults

cvVars == <<cvKind, cvSrc, cvFd, cvEvents, cvFrame, cvOut, cvEnd, cvChanged, cvChanges, cvFaults>>

CvClosed == [pc |-> "closed", mode |-> NoMode, queued |-> 0]
CvNoEvents == [sub |-> FALSE, pending |-> FALSE]

CvInit ==
    /\ cvKind \in {"usb", "rk628", "hdmirx"}
    /\ cvSrc \in (IF cvKind = "usb" THEN CvModes ELSE CvModes \cup {NoMode})
    /\ cvFd = CvClosed /\ cvEvents = CvNoEvents /\ cvFrame = NoMode
    /\ cvOut = [got |-> NoMode, mode |-> NoMode]
    /\ cvEnd = [why |-> "none", changed |-> FALSE]
    /\ cvChanged = FALSE /\ cvChanges = 0 /\ cvFaults = 0

To(p) == cvFd' = [cvFd EXCEPT !.pc = p]

\* Drop for CaptureStream: STREAMOFF, the events, the mappings, the buffers and
\* the descriptor, in that order, so that the next open finds the device free.
Release(why) ==
    /\ cvFd' = CvClosed /\ cvEvents' = CvNoEvents /\ cvFrame' = NoMode
    /\ cvEnd' = [why |-> why, changed |-> cvChanged]
    /\ cvChanged' = FALSE

CvFault == cvFaults < MaxCvFaults /\ cvFaults' = cvFaults + 1

-----------------------------------------------------------------------------
(* open_with_bridge *)

\* QUERY_DV_TIMINGS, as the hardware answers it.
Reported == IF cvSrc = NoMode /\ cvKind = "rk628" THEN FakeMode ELSE cvSrc

\* probe_signal, classify_timings: the synthetic mode is no signal.
ProbeSignal == IF Reported = FakeMode THEN NoMode ELSE Reported

\* The subdevice is probed before the capture node is opened; without a signal
\* the open ends there.
ProbeSubdev ==
    /\ cvFd.pc = "closed" /\ cvKind = "rk628"
    /\ \/ ProbeSignal # NoMode /\ cvFd' = [CvClosed EXCEPT !.pc = "subscribe", !.mode = ProbeSignal]
       \/ ProbeSignal = NoMode /\ UNCHANGED cvFd
    /\ cvChanged' = FALSE
    /\ UNCHANGED <<cvKind, cvSrc, cvEvents, cvFrame, cvOut, cvEnd, cvChanges, cvFaults>>

\* subscribe_source_change on the subdevice: a failure is only logged.
SubscribeSubdev ==
    /\ cvFd.pc = "subscribe" /\ cvKind = "rk628"
    /\ To("format")
    /\ cvEvents' = [sub |-> TRUE, pending |-> FALSE]
    /\ UNCHANGED <<cvKind, cvSrc, cvFrame, cvOut, cvEnd, cvChanged, cvChanges, cvFaults>>

\* probe_dv_timings: what the node of a native receiver reports.
ProbeNode == cvSrc

\* The capture node of the others: a receiver is probed on the node itself
\* (probe_dv_timings), a USB card takes the size that was asked for.
OpenNode ==
    /\ cvFd.pc = "closed" /\ cvKind # "rk628"
    /\ \/ /\ cvKind = "hdmirx" /\ ProbeNode # NoMode
          /\ cvFd' = [CvClosed EXCEPT !.pc = "format", !.mode = ProbeNode]
       \/ cvKind = "hdmirx" /\ ProbeNode = NoMode /\ UNCHANGED cvFd
       \/ /\ cvKind = "usb"
          /\ cvFd' = [CvClosed EXCEPT !.pc = "format", !.mode = cvSrc]
    /\ cvChanged' = FALSE
    /\ UNCHANGED <<cvKind, cvSrc, cvEvents, cvFrame, cvOut, cvEnd, cvChanges, cvFaults>>

\* S_FMT: a native receiver takes only what is on the wire; the others take what
\* they are told.
SetFormat ==
    /\ cvFd.pc = "format"
    /\ IF cvKind = "hdmirx" /\ cvSrc # cvFd.mode
       THEN Release("refused")
       ELSE To("buffers") /\ UNCHANGED <<cvEvents, cvFrame, cvEnd, cvChanged>>
    /\ UNCHANGED <<cvKind, cvSrc, cvOut, cvChanges, cvFaults>>

\* queue_all_buffers: all of them are the driver's.
QueueAll == CvBuffers

\* REQBUFS, QUERYBUF, mmap; all buffers are queued, then STREAMON.
StreamOn ==
    /\ cvFd.pc = "buffers"
    /\ \/ /\ cvFd' = [cvFd EXCEPT !.pc = IF cvKind = "rk628" THEN "run" ELSE "listen", !.queued = QueueAll]
          /\ UNCHANGED <<cvEvents, cvFrame, cvEnd, cvChanged, cvFaults>>
       \/ CvFault /\ Release("refused")
    /\ UNCHANGED <<cvKind, cvSrc, cvOut, cvChanges>>

\* Without a subdevice the events of the node are subscribed to, last.
SubscribeNode ==
    /\ cvFd.pc = "listen"
    /\ To("run")
    /\ cvEvents' = [sub |-> cvKind = "hdmirx", pending |-> FALSE]
    /\ UNCHANGED <<cvKind, cvSrc, cvFrame, cvOut, cvEnd, cvChanged, cvChanges, cvFaults>>

-----------------------------------------------------------------------------
(* next_into *)

\* wait_ready: an event of the subdevice re-opens the stream; one of a native
\* receiver only when format or timings are not what they were, or cannot be
\* read.
ReadEvent ==
    /\ cvFd.pc = "run" /\ cvEvents.pending
    /\ IF cvKind = "hdmirx" /\ cvSrc = cvFd.mode
       THEN \/ /\ cvEvents' = [cvEvents EXCEPT !.pending = FALSE]
               /\ UNCHANGED <<cvFd, cvFrame, cvEnd, cvChanged, cvFaults>>
            \/ CvFault /\ Release("event")
       ELSE Release("event") /\ UNCHANGED cvFaults
    /\ UNCHANGED <<cvKind, cvSrc, cvOut, cvChanges>>

\* Mutant of CheckState: the mode is looked at only when an event says so.
CheckState_None ==
    /\ cvFd.pc = "run" /\ cvKind = "hdmirx" /\ cvEvents.pending
    /\ cvSrc # NoMode /\ cvSrc # cvFd.mode /\ Release("check")
    /\ UNCHANGED <<cvKind, cvSrc, cvOut, cvChanges, cvFaults>>

\* Once per second a native receiver is asked for its mode: a mode that is
\* known to be another one re-opens the stream, a failure to read it does not.
CheckState ==
    /\ cvFd.pc = "run" /\ cvKind = "hdmirx"
    /\ cvSrc # NoMode /\ cvSrc # cvFd.mode /\ Release("check")
    /\ UNCHANGED <<cvKind, cvSrc, cvOut, cvChanges, cvFaults>>

\* DQBUF of a frame of what the source sends now.
Dequeue ==
    /\ cvFd.pc = "run" /\ cvSrc # NoMode /\ cvFd.queued > 0 /\ ~cvEvents.pending
    /\ cvFd' = [cvFd EXCEPT !.pc = "copy", !.queued = @ - 1]
    /\ cvFrame' = cvSrc
    /\ UNCHANGED <<cvKind, cvSrc, cvEvents, cvOut, cvEnd, cvChanged, cvChanges, cvFaults>>

\* expected_capture_bytes.
Expected == CvSize[cvFd.mode]

\* The frame is copied and its buffer queued again; a frame of another size
\* re-opens the stream instead of being handed out.
CopyFrame ==
    /\ cvFd.pc = "copy"
    /\ IF CvSize[cvFrame] # Expected
       THEN Release("size") /\ UNCHANGED cvOut
       ELSE /\ cvFd' = [cvFd EXCEPT !.pc = "run", !.queued = @ + 1]
            /\ cvOut' = [got |-> cvFrame, mode |-> cvFd.mode]
            /\ cvFrame' = NoMode
            /\ UNCHANGED <<cvEvents, cvEnd, cvChanged>>
    /\ UNCHANGED <<cvKind, cvSrc, cvChanges, cvFaults>>

\* The deadline of wait_ready passes, or poll reports an error: the caller gives
\* the stream up.
Timeout ==
    /\ cvFd.pc = "run" /\ cvSrc = NoMode
    /\ Release("timeout")
    /\ UNCHANGED <<cvKind, cvSrc, cvOut, cvChanges, cvFaults>>

\* The source changes its mode, goes or comes (external).  The event reaches a
\* subscriber; a native receiver may send none, or one without a change.
SourceChanges ==
    /\ cvChanges < MaxCvChanges /\ cvKind # "usb"
    /\ cvChanges' = cvChanges + 1
    /\ cvSrc' \in CvModes \cup {NoMode}
    /\ cvKind = "rk628" => cvSrc' # cvSrc
    /\ \E tell \in BOOLEAN :
          /\ cvKind = "rk628" => tell
          /\ cvEvents' = [cvEvents EXCEPT !.pending = @ \/ (cvEvents.sub /\ tell)]
    /\ cvChanged' = (cvChanged \/ (cvFd.mode # NoMode /\ cvSrc' # cvFd.mode))
    /\ UNCHANGED <<cvKind, cvFd, cvFrame, cvOut, cvEnd, cvFaults>>

CvNext ==
    \/ ProbeSubdev \/ SubscribeSubdev \/ OpenNode \/ SetFormat \/ StreamOn \/ SubscribeNode
    \/ ReadEvent \/ CheckState \/ Dequeue \/ CopyFrame \/ Timeout \/ SourceChanges

\* The capture thread calls next_into over and over, and looks at the mode once
\* per second.
CvTurn(i) ==
    CASE i = 1 -> SubscribeNode
      [] i = 2 -> ReadEvent
      [] i = 3 -> CopyFrame
      [] OTHER -> FALSE

CvPatient(i) ==
    CASE i = 1 -> CheckState
      [] OTHER -> FALSE

CvFairness == (\A i \in 1..3 : WF_cvVars(CvTurn(i))) /\ \A i \in 1..1 : SF_cvVars(CvPatient(i))

CvSpec == CvInit /\ [][CvNext]_cvVars /\ CvFairness

-----------------------------------------------------------------------------

\* A bridge without a signal is never streamed from, though it reports a mode.
NoStreamWithoutSignal == cvFd.mode # FakeMode

\* Every frame that is handed out has the size its stream announced, whatever
\* the source did since the stream was opened.
FramesFit == cvOut.got # NoMode => CvSize[cvOut.got] = CvSize[cvOut.mode]

\* The check once per second gives up only streams whose source did change: a
\* system call that fails once does not tear down a healthy stream.
HealthyStreamKept == cvEnd.why = "check" => cvEnd.changed

\* A native receiver that settles in another mode, of the same size even, and
\* tells nobody, does not go on feeding a stream with the old geometry.
StaleModeNoticed ==
    cvKind = "hdmirx" /\ cvFd.pc = "run" /\ cvSrc # NoMode /\ cvSrc # cvFd.mode
       ~> cvFd.pc = "closed" \/ cvSrc = cvFd.mode \/ cvSrc = NoMode

=============================================================================
