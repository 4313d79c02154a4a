------------------------------ MODULE ModeSwitch ------------------------------
(***************************************************************************)
(* VideoStreamManager: the switch between MJPEG and WebRTC streaming       *)
(* (src/video/stream_manager.rs), with the callers that race it: the mode, *)
(* start, stop and session handlers (src/web/handlers/stream.rs,           *)
(* webrtc.rs), the codec lock of the remote-access services                *)
(* (src/video/codec_constraints.rs) and the configuration store            *)
(* (src/config/store.rs).                                                  *)
(*                                                                         *)
(* Streamer and SharedPipeline are reduced to whether each of them is      *)
(* capturing and to the recovery task of a device that was lost, which     *)
(* knows nothing of modes (src/video/streamer.rs); their modules show what *)
(* the calls made here do to the device.  Codecs are reduced to whether a  *)
(* call changes the codec.                                                 *)
(***************************************************************************)
EXTENDS TLC

CONSTANTS
    Requests,     \* tasks serving a call of the API, one call at a time
    Transitions,  \* identifiers of mode switch transactions, reused
    Edits,        \* updates of other parts of the configuration
    Calls,        \* which calls the environment makes; "lose": of a device
    None          \* no transition, nothing announced

AllCalls == {"switch", "recode", "start", "stop", "apply", "session",
             "external", "enforce", "edit", "patch", "disconnect", "lose"}

ASSUME ModeAssumption ==
    /\ Calls \subseteq AllCalls
    /\ None \notin Transitions /\ None \notin {"Mjpeg", "WebRTC"}

Modes == {"Mjpeg", "WebRTC"}
Other(m) == IF m = "Mjpeg" THEN "WebRTC" ELSE "Mjpeg"

VARIABLES
    mode,        \* VideoStreamManager::mode
    switching,   \* VideoStreamManager::switching
    transition,  \* VideoStreamManager::transition_id
    lock,        \* the mode runtime_codec_constraints demand, or "any"
    mjpegOn,     \* the Streamer captures
    rtcOn,       \* a SharedVideoPipeline runs
    source,      \* WebRtcStreamer::capture_device is set
    lost,        \* the Streamer's state is DeviceLost or Recovering
    recovery,    \* control point of its recovery task
    overrun,     \* history: the last stop of the Streamer met a recovery task
    saved,       \* stream.mode of the stored configuration
    edits,       \* the updates the stored configuration contains
    made,        \* the updates confirmed to their callers
    pc, want,    \* control point and wanted mode of each request
    step, to,    \* control point and new mode of each switch task
    snap,        \* the configuration a switch task has copied
    shown,       \* the mode the last StreamModeReady event announced
    failed       \* the last transaction ended in an error

\* Requests and transitions are interchangeable: what TLC may take for the same.
Interchanged == Permutations(Requests) \cup Permutations(Transitions)

recover == <<lost, recovery, overrun>>
capture == <<mjpegOn, rtcOn, source, recover>>
config  == <<saved, edits, made>>
task    == <<step, to, snap>>
vars == <<mode, switching, transition, lock, capture, config, pc, want, task,
          shown, failed>>

\* The mode is read from the configuration at start-up (main.rs 456-458),
\* where the capture device has been found or not.
Init ==
    /\ mode \in Modes
    /\ switching = FALSE
    /\ transition = None
    /\ lock = "any"
    /\ mjpegOn = FALSE
    /\ rtcOn = FALSE
    /\ source \in BOOLEAN
    /\ lost = FALSE
    /\ recovery = "none"
    /\ overrun = FALSE
    /\ saved = mode
    /\ edits = {}
    /\ made = {}
    /\ pc = [r \in Requests |-> "idle"]
    /\ want = [r \in Requests |-> "Mjpeg"]
    /\ step = [t \in Transitions |-> "none"]
    /\ to = [t \in Transitions |-> "Mjpeg"]
    /\ snap = [t \in Transitions |-> {}]
    /\ shown = None
    /\ failed = FALSE

Goto(r, p) == pc' = [pc EXCEPT ![r] = p]
Advance(t, s) == step' = [step EXCEPT ![t] = s]
Called(r, c) == pc[r] = "idle" /\ c \in Calls

-----------------------------------------------------------------------------
(***************************************************************************)
(* What the calls into Streamer and WebRtcStreamer do.                     *)
(***************************************************************************)

\* sync_webrtc_capture_source: a changed geometry stops the pipeline, and a
\* known device becomes the capture source.
SyncSource ==
    /\ rtcOn' \in {rtcOn, FALSE}
    /\ source' \in {source, TRUE}
    /\ UNCHANGED <<mjpegOn, recover>>

\* set_video_codec: nothing for the codec in use, nor when the old pipeline
\* is not released in time; otherwise the pipeline is stopped and, given a
\* source, a new one is started.
SetVideoCodec ==
    /\ \/ UNCHANGED rtcOn
       \/ "recode" \in Calls /\ rtcOn' \in {FALSE, source}
    /\ UNCHANGED <<mjpegOn, source, recover>>

\* ensure_video_pipeline, which fails without a source.
EnsurePipeline ==
    /\ rtcOn' \in {rtcOn, rtcOn \/ source}
    /\ UNCHANGED <<mjpegOn, source, recover>>

\* Streamer::start captures and is Streaming, or finds a capture thread, or
\* fails.  Nothing in it asks for the mode.
StartCapture ==
    /\ \/ mjpegOn' = TRUE /\ lost' = FALSE
       \/ UNCHANGED <<mjpegOn, lost>>
    /\ UNCHANGED <<rtcOn, source>>

\* Streamer::stop ends the capture thread and is Ready.  A recovery task is
\* not told; it reads the state before its next attempt.
StopStreamer ==
    /\ mjpegOn' = FALSE
    /\ lost' = FALSE
    /\ overrun' = (recovery # "none")
    /\ UNCHANGED recovery
StopCapture == StopStreamer /\ UNCHANGED <<rtcOn, source>>

\* Each capture path may end by itself: nobody watches, or the pipeline loses
\* its device.
CaptureEnds ==
    /\ mjpegOn \/ rtcOn
    /\ \/ mjpegOn' = FALSE /\ UNCHANGED rtcOn
       \/ rtcOn' = FALSE /\ UNCHANGED mjpegOn
    /\ UNCHANGED <<mode, switching, transition, lock, source, recover, config,
                   pc, want, task, shown, failed>>

-----------------------------------------------------------------------------
(***************************************************************************)
(* The Streamer loses its device: start_device_recovery_internal.          *)
(***************************************************************************)

apart == <<mode, switching, transition, lock, rtcOn, source, config, pc, want,
           task, shown, failed>>

\* The capture thread reports the loss and ends; a recovery task is spawned
\* unless one is under way.
CaptureLost ==
    /\ "lose" \in Calls /\ mjpegOn
    /\ mjpegOn' = FALSE
    /\ lost' = TRUE
    /\ recovery' = IF recovery = "none" THEN "check" ELSE recovery
    /\ UNCHANGED <<overrun, apart>>

\* An attempt begins while the state is still DeviceLost or Recovering ...
RecoveryCheck ==
    /\ recovery = "check"
    /\ recovery' = IF lost THEN "mark" ELSE "none"
    /\ UNCHANGED <<mjpegOn, lost, overrun, apart>>

\* ... and writes Recovering over what the state has become.
RecoveryMark ==
    /\ recovery = "mark"
    /\ lost' = TRUE
    /\ recovery' = "restart"
    /\ UNCHANGED <<mjpegOn, overrun, apart>>

\* After a wait the device is there or not.  restart_capture clears
\* direct_stop and calls start(): neither the state nor the mode is read again.
RecoveryRestart ==
    /\ recovery = "restart"
    /\ \/ UNCHANGED <<mjpegOn, lost>> /\ recovery' = "check"
       \/ StartCapture /\ recovery' \in {"wait", "check"}
    /\ UNCHANGED <<overrun, apart>>

\* restart_capture waits for a capture that streams.
RecoveryWait ==
    /\ recovery = "wait"
    /\ recovery' \in {"none", "check"}
    /\ UNCHANGED <<mjpegOn, lost, overrun, apart>>

Recover == RecoveryCheck \/ RecoveryMark \/ RecoveryRestart \/ RecoveryWait

-----------------------------------------------------------------------------
(***************************************************************************)
(* switch_mode_transaction, called by stream_mode_set and by the codec     *)
(* lock.                                                                   *)
(***************************************************************************)

\* stream_mode_set up to the call of set_video_codec: the lock is checked
\* and the mode is read, to tell a mere codec switch.
StreamModeSet(r, m) ==
    /\ Called(r, "switch")
    /\ lock \in {"any", m}
    /\ want' = [want EXCEPT ![r] = m]
    /\ \/ m = "Mjpeg" /\ Goto(r, "check")
       \/ m = "WebRTC" /\ Goto(r, "codec")
       \/ m = "WebRTC" /\ mode = m /\ "recode" \in Calls /\ Goto(r, "recode")
    /\ UNCHANGED <<mode, switching, transition, lock, capture, config, task,
                   shown, failed>>

\* An error of set_video_codec is only logged.
SetCodec(r) ==
    /\ pc[r] \in {"codec", "recode"}
    /\ SetVideoCodec
    /\ Goto(r, IF pc[r] = "codec" THEN "check" ELSE "notify")
    /\ UNCHANGED <<mode, switching, transition, lock, config, want, task,
                   shown, failed>>

\* notify_codec_switch: the events of a transaction, without `switching`.
NotifyCodecSwitch(r) ==
    /\ pc[r] = "notify"
    /\ shown' = "WebRTC"
    /\ Goto(r, "idle")
    /\ UNCHANGED <<mode, switching, transition, lock, capture, config, want,
                   task, failed>>

\* switch_mode_transaction reads the mode; a switch to the mode in force
\* only ensures that WebRTC has its source.
ReadMode(r) ==
    /\ pc[r] = "check"
    /\ \/ /\ mode = want[r]
          /\ Goto(r, "idle")
          /\ IF mode = "WebRTC" THEN SyncSource ELSE UNCHANGED capture
       \/ /\ mode # want[r]
          /\ Goto(r, "acquire")
          /\ UNCHANGED capture
    /\ UNCHANGED <<mode, switching, transition, lock, config, want, task,
                   shown, failed>>

\* Mutant: the flag is loaded and stored without a compare_exchange.
Acquire_Unchecked(r) ==
    /\ pc[r] = "acquire"
    /\ Goto(r, "begin")
    /\ switching' = TRUE
    /\ UNCHANGED <<mode, transition, lock, capture, config, want, task, shown,
                   failed>>

\* The compare_exchange on `switching`: a second request is not accepted.
Acquire(r) ==
    /\ pc[r] = "acquire"
    /\ Goto(r, IF switching THEN "idle" ELSE "begin")
    /\ switching' = TRUE
    /\ UNCHANGED <<mode, transition, lock, capture, config, want, task, shown,
                   failed>>

\* The transaction gets its identifier, StreamModeSwitching is published and
\* the switch task is spawned.
Begin(r, t) ==
    /\ pc[r] = "begin"
    /\ step[t] = "none"
    /\ transition' = t
    /\ to' = [to EXCEPT ![t] = want[r]]
    /\ Advance(t, "stop")
    /\ Goto(r, "idle")
    /\ failed' = FALSE
    /\ UNCHANGED <<mode, switching, lock, capture, config, want, snap, shown>>

\* The client goes away while its handler awaits something, and the server
\* drops the handler's future; transition_id may have been set by then.
Disconnect(r) ==
    /\ "disconnect" \in Calls
    /\ pc[r] # "idle"
    /\ Goto(r, "idle")
    /\ \/ UNCHANGED transition
       \/ pc[r] = "begin" /\ transition' \in Transitions
    /\ UNCHANGED <<mode, switching, lock, capture, config, want, task, shown,
                   failed>>

-----------------------------------------------------------------------------
(***************************************************************************)
(* The switch task: do_switch_mode and the end of the transaction.  It was *)
(* handed the mode read before the compare_exchange, which differed from   *)
(* the new one: with two modes, Other(to[t]).                              *)
(***************************************************************************)

\* Mutant: only set_offline is called on the way to WebRTC.
StopOld_Offline(t) ==
    /\ step[t] = "stop"
    /\ to[t] = "Mjpeg" => rtcOn' = FALSE
    /\ to[t] = "WebRTC" => UNCHANGED rtcOn
    /\ Advance(t, "mode")
    /\ UNCHANGED <<mode, switching, transition, lock, mjpegOn, source, recover,
                   config, pc, want, to, snap, shown, failed>>

\* Mutant: the error of a release ends the task at once.
StopOld_Return(t) ==
    /\ step[t] = "stop"
    /\ \E s \in {"mode", "none"} : Advance(t, s)
    /\ IF to[t] = "WebRTC" THEN StopCapture
       ELSE rtcOn' = FALSE /\ UNCHANGED <<mjpegOn, source, recover>>
    /\ UNCHANGED <<mode, switching, transition, lock, config, pc, want, to,
                   snap, shown, failed>>

\* Stop the current mode; releasing the pipeline may time out.
StopOld(t) ==
    /\ step[t] = "stop"
    /\ \/ /\ Other(to[t]) = "Mjpeg"
          /\ StopCapture
          /\ Advance(t, "mode")
          /\ UNCHANGED failed
       \/ /\ Other(to[t]) = "WebRTC"
          /\ rtcOn' = FALSE
          /\ Advance(t, "mode")
          /\ UNCHANGED <<mjpegOn, source, recover, failed>>
       \/ /\ Other(to[t]) = "WebRTC"
          /\ Advance(t, "ready")
          /\ failed' = TRUE
          /\ UNCHANGED capture
    /\ UNCHANGED <<mode, switching, transition, lock, config, pc, want, to,
                   snap, shown>>

SetMode(t) ==
    /\ step[t] = "mode"
    /\ mode' = to[t]
    /\ Advance(t, "start")
    /\ UNCHANGED <<switching, transition, lock, capture, config, pc, want, to,
                   snap, shown, failed>>

\* Mutant: the WebRTC arm returns after WebRTCReady.
StartNew_Return(t) ==
    /\ step[t] = "start"
    /\ IF to[t] = "Mjpeg"
       THEN /\ mjpegOn' = TRUE /\ lost' = FALSE /\ Advance(t, "get")
            /\ UNCHANGED <<rtcOn, source, recovery, overrun>>
       ELSE SyncSource /\ Advance(t, "ready")
    /\ UNCHANGED <<mode, switching, transition, lock, config, pc, want, to,
                   snap, shown, failed>>

\* Start the new mode; an error skips the configuration.
StartNew(t) ==
    /\ step[t] = "start"
    /\ \/ /\ to[t] = "Mjpeg"
          /\ mjpegOn' = TRUE
          /\ lost' = FALSE
          /\ Advance(t, "get")
          /\ UNCHANGED <<rtcOn, source, recovery, overrun, failed>>
       \/ /\ to[t] = "WebRTC"
          /\ SyncSource
          /\ Advance(t, "get")
          /\ UNCHANGED failed
       \/ /\ Advance(t, "ready")
          /\ failed' = TRUE
          /\ UNCHANGED capture
    /\ UNCHANGED <<mode, switching, transition, lock, config, pc, want, to,
                   snap, shown>>

\* ConfigStore::get and ConfigStore::set: a copy of the whole configuration
\* is taken before the store's write lock.
GetConfig(t) ==
    /\ step[t] = "get"
    /\ snap' = [snap EXCEPT ![t] = edits]
    /\ Advance(t, "set")
    /\ UNCHANGED <<mode, switching, transition, lock, capture, config, pc,
                   want, to, shown, failed>>

SetConfig(t) ==
    /\ step[t] = "set"
    /\ Advance(t, "ready")
    /\ \/ saved' = to[t] /\ edits' = snap[t] /\ UNCHANGED failed
       \/ failed' = TRUE /\ UNCHANGED <<saved, edits>>
    /\ UNCHANGED <<mode, switching, transition, lock, capture, made, pc, want,
                   to, snap, shown>>

\* Mutant: the event announces the mode that was asked for.
Ready_Wanted(t) ==
    /\ step[t] = "ready"
    /\ shown' = to[t]
    /\ Advance(t, "clear")
    /\ UNCHANGED <<mode, switching, transition, lock, capture, config, pc,
                   want, to, snap, failed>>

\* StreamModeReady with the mode actually in force.
Ready(t) ==
    /\ step[t] = "ready"
    /\ shown' = mode
    /\ Advance(t, "clear")
    /\ UNCHANGED <<mode, switching, transition, lock, capture, config, pc,
                   want, to, snap, failed>>

ClearTransition(t) ==
    /\ step[t] = "clear"
    /\ transition' = None
    /\ Advance(t, "free")
    /\ UNCHANGED <<mode, switching, lock, capture, config, pc, want, to, snap,
                   shown, failed>>

Free(t) ==
    /\ step[t] = "free"
    /\ switching' = FALSE
    /\ Advance(t, "none")
    /\ UNCHANGED <<mode, transition, lock, capture, config, pc, want, to,
                   snap, shown, failed>>

-----------------------------------------------------------------------------
(***************************************************************************)
(* The other callers.                                                      *)
(***************************************************************************)

\* VideoStreamManager::start, also the end of apply_video_config ("restart"):
\* the mode is read, then the streamer is started.
Start(r) ==
    /\ Called(r, "start") \/ pc[r] = "restart"
    /\ \/ mode = "Mjpeg" /\ Goto(r, "start") /\ UNCHANGED capture
       \/ mode = "WebRTC" /\ Goto(r, "idle") /\ SyncSource
    /\ UNCHANGED <<mode, switching, transition, lock, config, want, task,
                   shown, failed>>

StartStreamer(r) ==
    /\ pc[r] = "start"
    /\ StartCapture
    /\ Goto(r, "idle")
    /\ UNCHANGED <<mode, switching, transition, lock, recovery, overrun, config,
                   want, task, shown, failed>>

\* VideoStreamManager::stop: in either mode the streamer is stopped; the
\* pipeline is left to stop by itself.
Stop(r) ==
    /\ Called(r, "stop")
    /\ StopCapture
    /\ UNCHANGED <<mode, switching, transition, lock, config, pc, want, task,
                   shown, failed>>

\* apply_video_config: the streamer's capture is stopped and reconfigured in
\* either mode, and restarted only in MJPEG mode.
ApplyVideoConfig(r) ==
    /\ Called(r, "apply")
    /\ StopStreamer
    /\ \/ mode = "Mjpeg" /\ Goto(r, "restart") /\ UNCHANGED <<rtcOn, source>>
       \/ /\ mode = "WebRTC"
          /\ rtcOn' \in {rtcOn, FALSE}
          /\ source' \in {source, TRUE}
          /\ UNCHANGED pc
    /\ UNCHANGED <<mode, switching, transition, lock, config, want, task,
                   shown, failed>>

\* webrtc_create_session and webrtc_offer: the mode is checked, then the
\* session is created.
CreateSession(r) ==
    /\ Called(r, "session")
    /\ mode = "WebRTC"
    /\ Goto(r, "create")
    /\ UNCHANGED <<mode, switching, transition, lock, capture, config, want,
                   task, shown, failed>>

SessionPipeline(r) ==
    /\ pc[r] = "create"
    /\ EnsurePipeline
    /\ Goto(r, "idle")
    /\ UNCHANGED <<mode, switching, transition, lock, config, want, task,
                   shown, failed>>

\* subscribe_encoded_frames: synchronises the source and ensures a pipeline,
\* whatever the mode.
SubscribeEncodedFrames(r) ==
    /\ Called(r, "external")
    /\ \/ SyncSource
       \/ source' = TRUE /\ rtcOn' = TRUE /\ UNCHANGED <<mjpegOn, recover>>
    /\ UNCHANGED <<mode, switching, transition, lock, config, pc, want, task,
                   shown, failed>>

\* enforce_stream_codec_constraints: the lock of the services now running is
\* stored, then enforced.
EnforceConstraints(r, l) ==
    /\ Called(r, "enforce")
    /\ lock' = l
    /\ \/ l = "any" /\ UNCHANGED <<pc, want>>
       \/ l # "any" /\ want' = [want EXCEPT ![r] = l] /\ Goto(r, "enforce")
    /\ UNCHANGED <<mode, switching, transition, capture, config, task, shown,
                   failed>>

\* enforce_constraints_with_stream_manager: the mode is read; towards WebRTC
\* the codec is set first, and an error ends the call.
EnforceMode(r) ==
    /\ pc[r] = "enforce"
    /\ \/ mode = want[r] /\ Goto(r, "idle")
          /\ IF mode = "WebRTC" THEN SetVideoCodec ELSE UNCHANGED capture
       \/ mode # want[r] /\ want[r] = "Mjpeg" /\ Goto(r, "check")
          /\ UNCHANGED capture
       \/ mode # want[r] /\ want[r] = "WebRTC" /\ SetVideoCodec
          /\ \/ Goto(r, "check")
             \/ "recode" \in Calls /\ Goto(r, "idle")
    /\ UNCHANGED <<mode, switching, transition, lock, config, want, task,
                   shown, failed>>

\* ConfigStore::update of another part of the configuration.
UpdateConfig(r, e) ==
    /\ Called(r, "edit")
    /\ e \notin made
    /\ made' = made \cup {e}
    /\ edits' = edits \cup {e}
    /\ UNCHANGED <<mode, switching, transition, lock, capture, saved, pc,
                   want, task, shown, failed>>

\* update_stream_config may store a mode; it is not applied until a restart.
PatchStreamConfig(r, m) ==
    /\ Called(r, "patch")
    /\ saved' = m
    /\ UNCHANGED <<mode, switching, transition, lock, capture, edits, made,
                   pc, want, task, shown, failed>>

-----------------------------------------------------------------------------
Request(r) ==
    \/ \E m \in Modes : StreamModeSet(r, m) \/ PatchStreamConfig(r, m)
    \/ \E l \in Modes \cup {"any"} : EnforceConstraints(r, l)
    \/ \E e \in Edits : UpdateConfig(r, e)
    \/ Start(r) \/ Stop(r) \/ ApplyVideoConfig(r)
    \/ CreateSession(r) \/ SubscribeEncodedFrames(r)

Continue(r) ==
    \/ SetCodec(r) \/ NotifyCodecSwitch(r) \/ ReadMode(r) \/ Acquire(r)
    \/ \E t \in Transitions : Begin(r, t)
    \/ StartStreamer(r) \/ SessionPipeline(r) \/ EnforceMode(r)

SwitchTask(t) ==
    \/ StopOld(t) \/ SetMode(t) \/ StartNew(t) \/ GetConfig(t) \/ SetConfig(t)
    \/ Ready(t) \/ ClearTransition(t) \/ Free(t)

Next ==
    \/ \E r \in Requests : Request(r) \/ Continue(r) \/ Disconnect(r)
    \/ \E t \in Transitions : SwitchTask(t)
    \/ CaptureEnds \/ CaptureLost \/ Recover

Spec == Init /\ [][Next]_vars

\* The runtime polls every ready task; each await of these calls ends, by its
\* own time-out at the latest.
FairSpec ==
    /\ Spec
    /\ \A r \in Requests : WF_vars(Continue(r))
    /\ \A t \in Transitions : WF_vars(SwitchTask(t))

-----------------------------------------------------------------------------
(***************************************************************************)
(* Properties.                                                             *)
(***************************************************************************)

TypeOK ==
    /\ mode \in Modes /\ saved \in Modes /\ lock \in Modes \cup {"any"}
    /\ switching \in BOOLEAN /\ failed \in BOOLEAN
    /\ mjpegOn \in BOOLEAN /\ rtcOn \in BOOLEAN /\ source \in BOOLEAN
    /\ lost \in BOOLEAN /\ overrun \in BOOLEAN
    /\ recovery \in {"none", "check", "mark", "restart", "wait"}
    /\ transition \in Transitions \cup {None}
    /\ shown \in Modes \cup {None}
    /\ edits \subseteq made /\ made \subseteq Edits
    /\ pc \in [Requests -> {"idle", "codec", "recode", "notify", "check",
                 "acquire", "begin", "start", "restart", "create", "enforce"}]
    /\ want \in [Requests -> Modes]
    /\ step \in [Transitions -> {"none", "stop", "mode", "start", "get",
                   "set", "ready", "clear", "free"}]
    /\ to \in [Transitions -> Modes]
    /\ snap \in [Transitions -> SUBSET made]

Active(t) == step[t] # "none"
Holding(r) == pc[r] = "begin"

\* Two transactions never overlap, whoever asks for them and whatever fails
\* (stream_manager.rs 261-272, 313-314), and transition_id names the one that
\* is running.
SwitchExclusive ==
    /\ \A t, u \in Transitions : Active(t) /\ Active(u) => t = u
    /\ \A r, q \in Requests : Holding(r) /\ Holding(q) => r = q
    /\ \A r \in Requests, t \in Transitions : ~(Holding(r) /\ Active(t))
    /\ \A t \in Transitions :
          Active(t) => switching /\ transition = IF step[t] = "free" THEN None
                                                ELSE t
    /\ transition # None => switching

Changing(t) == step[t] \in {"start", "get", "set", "ready"}

\* Once a transaction is over, and until the next one changes the mode, the
\* mode last announced by StreamModeReady is the mode in force, also when the
\* switch failed half way (stream_manager.rs 303-311, 425).
ReadyTellsMode ==
    shown # None /\ (\A t \in Transitions : ~Changing(t)) => shown = mode

\* Between transactions, unless the last one failed, the stored mode is the
\* one in force: a restart comes back in the same mode (stream_manager.rs
\* 465-471, main.rs 456).
ModePersisted == ~switching /\ ~failed => saved = mode

\* Captures end with the mode: the only MJPEG capture behind WebRTC mode is one
\* brought back by a recovery task that was under way when the switch stopped
\* the streamer, and which asks for no mode (streamer.rs 601-603, 1497).  The
\* mode a transaction stops was read before it had the right to switch
\* (stream_manager.rs 245, 404-411).
NoCaptureBehindWebRTC == mode = "WebRTC" /\ mjpegOn => overrun

\* Every accepted transaction ends and lets the next one in, also when it
\* fails (stream_manager.rs 296-314).
SwitchEnds == switching ~> ~switching

\* stream_manager.rs 4: "At any given time, only one streaming mode (MJPEG or
\* WebRTC) is active".
OneModeActive == ~(mjpegOn /\ rtcOn)

\* config/store.rs 162-170: what update confirmed is in the configuration,
\* and still there after a restart.
UpdatesKept == edits = made
====
