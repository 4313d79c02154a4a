---------------------------- MODULE SharedPipeline ----------------------------
(***************************************************************************)
(* The shared encoding pipeline of the WebRTC path: SharedVideoPipeline    *)
(* with its capture and its encoder thread (src/video/pipeline/shared.rs)  *)
(* and WebRtcStreamer, which creates it on demand, hands it to sessions    *)
(* and to external consumers, stops it and rebuilds it                     *)
(* (src/webrtc/webrtc_streamer.rs).                                        *)
(*                                                                         *)
(* A task is a call in progress: op names the operation, pc the point it   *)
(* has reached.  One action is the code between two points at which a      *)
(* task or a thread can interfere.  Frames, codecs and geometries are left *)
(* out; what they decide (a geometry change, a lost device, no signal) is  *)
(* an outcome of the capture thread's step.  Elapsed time is a step that   *)
(* may happen: the grace period, the five seconds of                       *)
(* PIPELINE_RELEASE_TIMEOUT, the one second between recovery attempts.     *)
(***************************************************************************)
EXTENDS Naturals

CONSTANTS
    Clients,          \* browsers: each opens and closes a WebRTC session
    Externals,        \* RustDesk, VNC and RTSP consumers of encoded frames
    Controllers,      \* callers that reconfigure or release the pipeline
    Helpers,          \* tasks the monitor spawns: reconnection, recovery
    Pipelines,        \* SharedVideoPipeline objects alive at once, at most
    SourceFollowing,  \* VideoControlMode::SourceFollowing (else Configurable)
    Nobody            \* no pipeline, no holder

Tasks     == Clients \cup Externals \cup Controllers \cup Helpers
Consumers == Clients \cup Externals

ASSUME PipelineAssumption ==
    /\ SourceFollowing \in BOOLEAN
    /\ Nobody \notin Tasks /\ Nobody \notin Pipelines
    /\ Clients \cap (Externals \cup Controllers \cup Helpers) = {}
    /\ Externals \cap (Controllers \cup Helpers) = {}
    /\ Controllers \cap Helpers = {}

VARIABLES
    current,     \* WebRtcStreamer::video_pipeline
    guard,       \* holder of its write lock across an await
    flag,        \* pipelines with running_flag set
    cap,         \* capture thread of each pipeline; "none": running is false
    open,        \* pipelines whose capture thread holds the video device
    encoding,    \* pipelines whose encoder_done is false
    geometry,    \* pipelines with pending_sync_geometry
    lost,        \* pipelines with device_lost_reason
    watched,     \* pipelines whose monitor task has not ended
    sessions,    \* WebRtcStreamer::sessions, by client
    subs,        \* the pipeline whose frames a consumer receives
    recovering,  \* recovery_in_progress
    op, pc,      \* operation and control point of each task
    mine,        \* the pipeline a task has got hold of
    todo,        \* sessions a task has still to reconnect
    vacant       \* tasks that counted no session

pipeVars == <<current, guard, flag, cap, open, encoding, geometry, lost,
              watched>>
taskVars == <<op, pc, mine, todo, vacant>>
vars == <<pipeVars, sessions, subs, recovering, taskVars>>

Ops == {"none", "create", "subscribe", "close", "stop", "config", "codec",
        "release", "bitrate", "reconnect", "recover", "rejoin"}
PCs == {"idle", "e_lock", "e_wait", "e_new", "e_store", "subscribe",
        "insert", "x_close", "x_closed", "x_count", "x_read", "x_stop",
        "d_lock", "d_wait", "b_check", "snapshot", "attach", "r_loop"}

TypeOK ==
    /\ current \in Pipelines \cup {Nobody}
    /\ guard \in Tasks \cup {Nobody}
    /\ flag \subseteq Pipelines /\ open \subseteq Pipelines
    /\ encoding \subseteq Pipelines /\ watched \subseteq Pipelines
    /\ geometry \subseteq Pipelines /\ lost \subseteq Pipelines
    /\ cap \in [Pipelines -> {"none", "loop", "busy", "exit"}]
    /\ sessions \subseteq Clients
    /\ subs \in [Consumers -> Pipelines \cup {Nobody}]
    /\ recovering \in BOOLEAN
    /\ op \in [Tasks -> Ops]
    /\ pc \in [Tasks -> PCs]
    /\ mine \in [Tasks -> Pipelines \cup {Nobody}]
    /\ todo \in [Tasks -> SUBSET Clients]
    /\ vacant \subseteq Tasks

Init ==
    /\ current = Nobody /\ guard = Nobody
    /\ flag = {} /\ open = {} /\ encoding = {} /\ watched = {}
    /\ geometry = {} /\ lost = {}
    /\ cap = [p \in Pipelines |-> "none"]
    /\ sessions = {} /\ subs = [c \in Consumers |-> Nobody]
    /\ recovering = FALSE
    /\ op = [t \in Tasks |-> "none"] /\ pc = [t \in Tasks |-> "idle"]
    /\ mine = [t \in Tasks |-> Nobody]
    /\ todo = [t \in Tasks |-> {}] /\ vacant = {}

Goto(t, label) == pc' = [pc EXCEPT ![t] = label]

(* SharedVideoPipeline::lifecycle *)
Lifecycle(p) == IF p \in flag THEN "Running"
                ELSE IF cap[p] # "none" THEN "Stopping" ELSE "Stopped"

(* SharedVideoPipeline::subscriber_count() = 0 *)
Unsubscribed(p) == \A c \in Consumers : subs[c] # p

(* An operation that has nothing more to do, or that has failed. *)
Done(t) == /\ pc' = [pc EXCEPT ![t] = "idle"]
           /\ op' = [op EXCEPT ![t] = "none"]
           /\ mine' = [mine EXCEPT ![t] = Nobody]

(***************************************************************************)
(* ensure_video_pipeline, called by every operation that needs frames.     *)
(***************************************************************************)
(* Where a task goes on with the pipeline p it was given: a session or an  *)
(* external consumer subscribes, a reconnection attaches its sessions, the *)
(* codec switch is over, the recovery task goes on to the sessions.        *)
Given(t, p) ==
    \/ /\ op[t] \in {"create", "subscribe"}
       /\ Goto(t, "subscribe") /\ mine' = [mine EXCEPT ![t] = p]
       /\ UNCHANGED op
    \/ /\ op[t] \in {"bitrate", "reconnect", "rejoin"}
       /\ Goto(t, "attach") /\ mine' = [mine EXCEPT ![t] = p]
       /\ UNCHANGED op
    \/ /\ op[t] = "recover"
       /\ Goto(t, "snapshot") /\ mine' = [mine EXCEPT ![t] = Nobody]
       /\ op' = [op EXCEPT ![t] = "rejoin"]
    \/ op[t] = "codec" /\ Done(t)

(* The early return through `?`; the recovery loop tries again. *)
Refused(t) ==
    IF op[t] \in {"recover", "rejoin"}
    THEN /\ Goto(t, "r_loop") /\ op' = [op EXCEPT ![t] = "recover"]
         /\ mine' = [mine EXCEPT ![t] = Nobody]
    ELSE Done(t)

(* Mutant: a stopping pipeline is replaced like a stopped one. *)
EnsureLock_Impatient(t) ==
    /\ pc[t] = "e_lock" /\ guard = Nobody
    /\ IF current # Nobody /\ Lifecycle(current) = "Running"
       THEN Given(t, current) /\ UNCHANGED <<current, guard>>
       ELSE /\ Goto(t, "e_new") /\ guard' = t /\ current' = Nobody
            /\ UNCHANGED <<op, mine>>
    /\ UNCHANGED <<flag, cap, open, encoding, geometry, lost, watched,
                   sessions, subs, recovering, todo, vacant>>

EnsureLock(t) ==
    /\ pc[t] = "e_lock" /\ guard = Nobody
    /\ \/ /\ current # Nobody /\ Lifecycle(current) = "Running"
          /\ Given(t, current)
          /\ UNCHANGED <<current, guard>>
       \/ /\ current # Nobody /\ Lifecycle(current) = "Stopping"
          /\ Goto(t, "e_wait") /\ guard' = t
          /\ UNCHANGED <<current, op, mine>>
       \/ /\ current # Nobody => Lifecycle(current) = "Stopped"
          /\ Goto(t, "e_new") /\ guard' = t /\ current' = Nobody
          /\ UNCHANGED <<op, mine>>
    /\ UNCHANGED <<flag, cap, open, encoding, geometry, lost, watched,
                   sessions, subs, recovering, todo, vacant>>

(* stop_and_wait: the capture thread, then the encoder thread, has ended. *)
Released(p) == cap[p] = "none" /\ p \notin encoding

EnsureReleased(t) ==
    /\ pc[t] = "e_wait" /\ Released(current)
    /\ current' = Nobody /\ Goto(t, "e_new")
    /\ UNCHANGED <<guard, flag, cap, open, encoding, geometry, lost, watched,
                   sessions, subs, recovering, op, mine, todo, vacant>>

EnsureTimeout(t) ==
    /\ pc[t] = "e_wait" /\ ~Released(current)
    /\ guard' = Nobody /\ Refused(t)
    /\ UNCHANGED <<current, flag, cap, open, encoding, geometry, lost,
                   watched, sessions, subs, recovering, todo, vacant>>

(* A pipeline object nothing refers to any more. *)
Fresh(p) ==
    /\ p # current /\ cap[p] = "none"
    /\ p \notin flag \cup encoding \cup watched \cup open
    /\ \A t \in Tasks : mine[t] # p
    /\ \A c \in Consumers : subs[c] # p

(* start_with_device: the device is opened ahead of the threads unless the *)
(* source has no signal, the encoder is built, both threads start.         *)
EnsureStart(t) ==
    /\ pc[t] = "e_new"
    /\ \E p \in Pipelines :
         /\ Fresh(p)
         /\ flag' = flag \cup {p} /\ encoding' = encoding \cup {p}
         /\ cap' = [cap EXCEPT ![p] = "loop"]
         /\ open' \in {open, open \cup {p}}
         /\ geometry' = geometry \ {p} /\ lost' = lost \ {p}
         /\ mine' = [mine EXCEPT ![t] = p]
    /\ Goto(t, "e_store")
    /\ UNCHANGED <<current, guard, watched, sessions, subs, recovering, op,
                   todo, vacant>>

(* The device cannot be opened or the encoder not be built. *)
EnsureFail(t) ==
    /\ pc[t] = "e_new"
    /\ guard' = Nobody /\ Refused(t)
    /\ UNCHANGED <<current, flag, cap, open, encoding, geometry, lost,
                   watched, sessions, subs, recovering, todo, vacant>>

(* The monitor task is spawned and the pipeline stored. *)
EnsureStore(t) ==
    /\ pc[t] = "e_store"
    /\ current' = mine[t] /\ guard' = Nobody
    /\ watched' = watched \cup {mine[t]}
    /\ Given(t, mine[t])
    /\ UNCHANGED <<flag, cap, open, encoding, geometry, lost, sessions, subs,
                   recovering, todo, vacant>>

(***************************************************************************)
(* Sessions and external consumers.                                        *)
(***************************************************************************)
(* create_session *)
CreateCall(c) ==
    /\ c \in Clients /\ pc[c] = "idle"
    /\ c \notin sessions /\ subs[c] = Nobody
    /\ Goto(c, "e_lock") /\ op' = [op EXCEPT ![c] = "create"]
    /\ UNCHANGED <<pipeVars, sessions, subs, recovering, mine, todo, vacant>>

(* VideoStreamManager::subscribe_encoded_frames, after its source sync *)
ExternalCall(c) ==
    /\ c \in Externals /\ pc[c] = "idle" /\ subs[c] = Nobody
    /\ Goto(c, "e_lock") /\ op' = [op EXCEPT ![c] = "subscribe"]
    /\ UNCHANGED <<pipeVars, sessions, subs, recovering, mine, todo, vacant>>

(* pipeline.subscribe(); between ensure_video_pipeline and this a session  *)
(* has awaited the H.264 profile and the construction of its peer          *)
(* connection.  An external consumer is now done.                          *)
Subscribe(t) ==
    /\ pc[t] = "subscribe"
    /\ subs' = [subs EXCEPT ![t] = mine[t]]
    /\ IF op[t] = "create"
       THEN /\ Goto(t, "insert") /\ UNCHANGED <<op, mine>>
       ELSE Done(t)
    /\ UNCHANGED <<pipeVars, sessions, recovering, todo, vacant>>

(* UniversalSession::new fails: nothing was subscribed. *)
CreateFail(t) ==
    /\ pc[t] = "subscribe" /\ op[t] = "create"
    /\ Done(t)
    /\ UNCHANGED <<pipeVars, sessions, subs, recovering, todo, vacant>>

InsertSession(t) ==
    /\ pc[t] = "insert"
    /\ sessions' = sessions \cup {t}
    /\ Done(t)
    /\ UNCHANGED <<pipeVars, subs, recovering, todo, vacant>>

(* The peer connection fails or the consumer goes away: its receiver ends. *)
ConsumerGone(c) ==
    /\ c \in Consumers /\ subs[c] # Nobody /\ pc[c] = "idle"
    /\ subs' = [subs EXCEPT ![c] = Nobody]
    /\ UNCHANGED <<pipeVars, sessions, recovering, taskVars>>

(* close_session: the session leaves the map and its receiver is aborted, *)
(* the peer connection is closed, then the pipeline is stopped if idle.    *)
CloseCall(c) ==
    /\ c \in sessions /\ pc[c] = "idle"
    /\ sessions' = sessions \ {c}
    /\ subs' = [subs EXCEPT ![c] = Nobody]
    /\ Goto(c, "x_closed") /\ op' = [op EXCEPT ![c] = "close"]
    /\ UNCHANGED <<pipeVars, recovering, mine, todo, vacant>>

(* The state Closed ends a receiver a reconnection started meanwhile, and  *)
(* every later one at once.                                                *)
CloseDone(c) ==
    /\ pc[c] = "x_closed"
    /\ subs' = [subs EXCEPT ![c] = Nobody]
    /\ todo' = [t \in Tasks |-> todo[t] \ {c}]
    /\ Goto(c, "x_count")
    /\ UNCHANGED <<pipeVars, sessions, recovering, op, mine, vacant>>

(* close_all_sessions: the sessions lock is held until all are closed. *)
CloseAll(t) ==
    /\ pc[t] = "x_close"
    /\ sessions' = {}
    /\ subs' = [c \in Consumers |-> IF c \in sessions THEN Nobody
                                    ELSE subs[c]]
    /\ todo' = [h \in Tasks |-> todo[h] \ sessions]
    /\ Goto(t, "x_count")
    /\ UNCHANGED <<pipeVars, recovering, op, mine, vacant>>

(* stop_pipeline_if_idle reads the two counts and stops, without a lock. *)
IdleCount(t) ==
    /\ pc[t] = "x_count"
    /\ vacant' = IF sessions = {} THEN vacant \cup {t} ELSE vacant
    /\ Goto(t, "x_read")
    /\ UNCHANGED <<pipeVars, sessions, subs, recovering, op, mine, todo>>

IdleRead(t) ==
    /\ pc[t] = "x_read" /\ guard = Nobody
    /\ mine' = [mine EXCEPT ![t] = current]
    /\ Goto(t, "x_stop")
    /\ UNCHANGED <<pipeVars, sessions, subs, recovering, op, todo, vacant>>

IdleStop(t) ==
    /\ pc[t] = "x_stop"
    /\ flag' = IF t \in vacant /\ Unsubscribed(mine[t]) THEN flag \ {mine[t]}
               ELSE flag
    /\ vacant' = vacant \ {t}
    /\ IF op[t] \in {"close", "stop"}
       THEN Done(t)
       ELSE /\ Goto(t, "d_lock") /\ mine' = [mine EXCEPT ![t] = Nobody]
            /\ UNCHANGED op
    /\ UNCHANGED <<current, guard, cap, open, encoding, geometry, lost,
                   watched, sessions, subs, recovering, todo>>

(***************************************************************************)
(* Reconfiguration and release.                                            *)
(***************************************************************************)
(* Every one of these closes all sessions first. *)
ControlCall(t, o) ==
    /\ t \in Controllers /\ pc[t] = "idle"
    /\ Goto(t, "x_close") /\ op' = [op EXCEPT ![t] = o]
    /\ UNCHANGED <<pipeVars, sessions, subs, recovering, mine, todo, vacant>>

(* VideoStreamManager::stop in WebRTC mode: the sessions are closed and the *)
(* pipeline is left to stop_pipeline_if_idle.                              *)
StopStream(t) == ControlCall(t, "stop")

(* set_video_codec, with another codec: release, then a new pipeline. *)
SetVideoCodec(t) == ControlCall(t, "codec")

(* update_video_config, with another geometry, and update_encoder_backend: *)
(* release; the next session starts the pipeline.                          *)
UpdateVideoConfig(t) == ControlCall(t, "config")
UpdateEncoderBackend(t) == ControlCall(t, "config")

(* close_all_sessions_and_release_device, for the switch to MJPEG *)
ReleaseDevice(t) == ControlCall(t, "release")

(* set_bitrate_preset: an encoder that takes a new bitrate while it runs   *)
(* is not restarted, nor is a pipeline that does not run.                  *)
SetBitratePreset(t) ==
    /\ t \in Controllers /\ pc[t] = "idle" /\ guard = Nobody
    /\ current # Nobody /\ cap[current] # "none"
    /\ Goto(t, "d_lock") /\ op' = [op EXCEPT ![t] = "bitrate"]
    /\ UNCHANGED <<pipeVars, sessions, subs, recovering, mine, todo, vacant>>

(* What follows a successful stop_video_pipeline_and_release. *)
Freed(t) ==
    \/ op[t] = "codec" /\ Goto(t, "e_lock") /\ UNCHANGED <<op, mine>>
    \/ op[t] = "bitrate" /\ Goto(t, "snapshot") /\ UNCHANGED <<op, mine>>
    \/ op[t] \in {"config", "release"} /\ Done(t)

(* Mutant: the pipeline is stopped and forgotten, not waited for. *)
ReleaseLock_NoWait(t) ==
    /\ pc[t] = "d_lock" /\ guard = Nobody
    /\ flag' = flag \ {current} /\ current' = Nobody /\ Freed(t)
    /\ UNCHANGED <<guard, cap, open, encoding, geometry, lost, watched,
                   sessions, subs, recovering, todo, vacant>>

ReleaseLock(t) ==
    /\ pc[t] = "d_lock" /\ guard = Nobody
    /\ IF current = Nobody
       THEN Freed(t) /\ UNCHANGED <<guard, flag>>
       ELSE /\ guard' = t /\ flag' = flag \ {current}
            /\ Goto(t, "d_wait") /\ UNCHANGED <<op, mine>>
    /\ UNCHANGED <<current, cap, open, encoding, geometry, lost, watched,
                   sessions, subs, recovering, todo, vacant>>

ReleaseDone(t) ==
    /\ pc[t] = "d_wait" /\ Released(current)
    /\ current' = Nobody /\ guard' = Nobody /\ Freed(t)
    /\ UNCHANGED <<flag, cap, open, encoding, geometry, lost, watched,
                   sessions, subs, recovering, todo, vacant>>

(* Mutant: the time-out returns with the write guard still alive. *)
ReleaseTimeout_Held(t) ==
    /\ pc[t] = "d_wait" /\ ~Released(current)
    /\ Done(t)
    /\ UNCHANGED <<pipeVars, sessions, subs, recovering, todo, vacant>>

ReleaseTimeout(t) ==
    /\ pc[t] = "d_wait" /\ ~Released(current)
    /\ guard' = Nobody /\ Done(t)
    /\ UNCHANGED <<current, flag, cap, open, encoding, geometry, lost,
                   watched, sessions, subs, recovering, todo, vacant>>

(***************************************************************************)
(* reconnect_sessions_to_current_pipeline                                  *)
(***************************************************************************)
(* Reconnected: the operation is over, a recovery gives the flag back. *)
Rejoined(t) ==
    /\ Done(t)
    /\ recovering' = IF op[t] = "rejoin" THEN FALSE ELSE recovering

Snapshot(t) ==
    /\ pc[t] = "snapshot"
    /\ todo' = [todo EXCEPT ![t] = sessions]
    /\ IF sessions = {}
       THEN Rejoined(t)
       ELSE Goto(t, "e_lock") /\ UNCHANGED <<op, mine, recovering>>
    /\ UNCHANGED <<pipeVars, sessions, subs, vacant>>

(* One session of the snapshot; one whose connection has failed drops the  *)
(* receiver at once.                                                       *)
Attach(t) ==
    /\ pc[t] = "attach"
    /\ \E c \in todo[t] :
         /\ todo' = [todo EXCEPT ![t] = @ \ {c}]
         /\ subs' \in {[subs EXCEPT ![c] = mine[t]],
                       [subs EXCEPT ![c] = Nobody]}
    /\ UNCHANGED <<pipeVars, sessions, recovering, op, pc, mine, vacant>>

AttachDone(t) ==
    /\ pc[t] = "attach" /\ todo[t] = {}
    /\ Rejoined(t)
    /\ UNCHANGED <<pipeVars, sessions, subs, todo, vacant>>

(* A recovery attempt, a second after the last: enumeration finds a device *)
(* that matches the hint.                                                  *)
RecoveryTry(t) ==
    /\ pc[t] = "r_loop"
    /\ Goto(t, "e_lock")
    /\ UNCHANGED <<pipeVars, sessions, subs, recovering, op, mine, todo,
                   vacant>>

(***************************************************************************)
(* The capture thread, the encoder thread and the monitor of a pipeline.   *)
(***************************************************************************)
threadVars == <<current, guard, watched, sessions, subs, recovering,
                taskVars>>

(* The loop goes round with a subscriber ... *)
CaptureLoop(p) ==
    /\ cap[p] = "loop" /\ p \in flag /\ ~Unsubscribed(p)
    /\ cap' = [cap EXCEPT ![p] = "busy"]
    /\ UNCHANGED <<flag, open, encoding, geometry, lost, threadVars>>

(* Mutant: auto-stop asks for an empty session map too. *)
CaptureIdle_Sessions(p) ==
    /\ cap[p] = "loop" /\ p \in flag /\ Unsubscribed(p) /\ sessions = {}
    /\ flag' = flag \ {p} /\ cap' = [cap EXCEPT ![p] = "exit"]
    /\ open' = open \ {p}
    /\ UNCHANGED <<encoding, geometry, lost, threadVars>>

(* ... or without one for the grace period: auto-stop. *)
CaptureIdle(p) ==
    /\ cap[p] = "loop" /\ p \in flag /\ Unsubscribed(p)
    /\ flag' = flag \ {p} /\ cap' = [cap EXCEPT ![p] = "exit"]
    /\ open' = open \ {p}
    /\ UNCHANGED <<encoding, geometry, lost, threadVars>>

(* A frame, or an error that leaves the stream open. *)
CaptureFrame(p) ==
    /\ cap[p] = "busy" /\ p \in open
    /\ cap' = [cap EXCEPT ![p] = "loop"]
    /\ UNCHANGED <<flag, open, encoding, geometry, lost, threadVars>>

(* Source change, time-outs or a transient error: the stream is dropped. *)
CaptureDrop(p) ==
    /\ cap[p] = "busy" /\ p \in open
    /\ cap' = [cap EXCEPT ![p] = "loop"] /\ open' = open \ {p}
    /\ UNCHANGED <<flag, encoding, geometry, lost, threadVars>>

(* The stream is (re)opened; a frame is read in the same turn. *)
CaptureOpen(p) ==
    /\ cap[p] = "busy" /\ p \notin open
    /\ open' = open \cup {p}
    /\ UNCHANGED <<flag, cap, encoding, geometry, lost, threadVars>>

(* Still no signal: wait and try again ... *)
CaptureRetry(p) ==
    /\ cap[p] = "busy" /\ p \notin open
    /\ cap' = [cap EXCEPT ![p] = "loop"]
    /\ UNCHANGED <<flag, open, encoding, geometry, lost, threadVars>>

(* ... or give up: a geometry the encoder was not built for, a device that *)
(* is gone (at an open or at a read), a fatal error, too many attempts.    *)
CaptureQuit(p, why) ==
    /\ cap[p] = "busy"
    /\ \/ why = "geometry" /\ p \notin open
          /\ geometry' = geometry \cup {p} /\ UNCHANGED lost
       \/ why = "lost" /\ lost' = lost \cup {p} /\ UNCHANGED geometry
       \/ why = "fatal" /\ p \notin open /\ UNCHANGED <<geometry, lost>>
       \/ why = "tired" /\ p \notin open /\ ~SourceFollowing
          /\ UNCHANGED <<geometry, lost>>
    /\ flag' = flag \ {p} /\ cap' = [cap EXCEPT ![p] = "exit"]
    /\ open' = open \ {p}
    /\ UNCHANGED <<encoding, threadVars>>

(* Mutant: running.send(false) comes before the stream is dropped. *)
CaptureLeave_EarlyDone(p) ==
    /\ cap[p] = "loop" /\ p \notin flag
    /\ cap' = [cap EXCEPT ![p] = "none"]
    /\ UNCHANGED <<flag, open, encoding, geometry, lost, threadVars>>

(* running_flag was cleared by stop(): the loop ends, the stream is dropped. *)
CaptureLeave(p) ==
    /\ cap[p] = "loop" /\ p \notin flag
    /\ cap' = [cap EXCEPT ![p] = "exit"] /\ open' = open \ {p}
    /\ UNCHANGED <<flag, encoding, geometry, lost, threadVars>>

(* running.send(false) *)
CaptureDone(p) ==
    /\ cap[p] = "exit"
    /\ cap' = [cap EXCEPT ![p] = "none"]
    /\ UNCHANGED <<flag, open, encoding, geometry, lost, threadVars>>

(* The encoder thread sees the cleared flag, drops its encoder and says so. *)
EncoderDone(p) ==
    /\ p \in encoding /\ p \notin flag
    /\ encoding' = encoding \ {p}
    /\ UNCHANGED <<flag, cap, open, geometry, lost, threadVars>>

(* The monitor clears the reference of the pipeline it watches, unless it  *)
(* was replaced already, and starts the recovery or the reconnection.      *)
Monitor(p) ==
    /\ p \in watched /\ cap[p] = "none" /\ guard = Nobody
    /\ watched' = watched \ {p}
    /\ current' = IF current = p THEN Nobody ELSE current
    /\ geometry' = IF current = p THEN geometry \ {p} ELSE geometry
    /\ lost' = IF current = p THEN lost \ {p} ELSE lost
    /\ \/ /\ current = p /\ p \in lost /\ ~recovering
          /\ recovering' = TRUE
          /\ \E h \in Helpers : /\ pc[h] = "idle" /\ Goto(h, "r_loop")
                                /\ op' = [op EXCEPT ![h] = "recover"]
       \/ /\ current = p /\ p \notin lost /\ p \in geometry
          /\ \E h \in Helpers : /\ pc[h] = "idle" /\ Goto(h, "snapshot")
                                /\ op' = [op EXCEPT ![h] = "reconnect"]
          /\ UNCHANGED recovering
       \/ /\ \/ current # p \/ (p \in lost /\ recovering)
             \/ p \notin lost \cup geometry
          /\ UNCHANGED <<recovering, op, pc>>
    /\ UNCHANGED <<guard, flag, cap, open, encoding, sessions, subs, mine,
                   todo, vacant>>

TaskStep(t) ==
    \/ EnsureLock(t) \/ EnsureReleased(t) \/ EnsureTimeout(t)
    \/ EnsureStart(t) \/ EnsureFail(t) \/ EnsureStore(t)
    \/ Subscribe(t) \/ CreateFail(t) \/ InsertSession(t)
    \/ CloseDone(t) \/ CloseAll(t)
    \/ IdleCount(t) \/ IdleRead(t) \/ IdleStop(t)
    \/ ReleaseLock(t) \/ ReleaseDone(t) \/ ReleaseTimeout(t)
    \/ Snapshot(t) \/ Attach(t) \/ AttachDone(t) \/ RecoveryTry(t)

RequestBy(t) ==
    \/ CreateCall(t) \/ CloseCall(t) \/ ExternalCall(t) \/ ConsumerGone(t)
    \/ StopStream(t) \/ SetVideoCodec(t) \/ UpdateVideoConfig(t)
    \/ UpdateEncoderBackend(t) \/ ReleaseDevice(t) \/ SetBitratePreset(t)

CaptureTurn(p) ==
    \/ CaptureFrame(p) \/ CaptureDrop(p) \/ CaptureOpen(p) \/ CaptureRetry(p)
    \/ \E why \in {"geometry", "lost", "fatal", "tired"} : CaptureQuit(p, why)

ThreadStep(p) ==
    \/ CaptureLoop(p) \/ CaptureIdle(p) \/ CaptureTurn(p)
    \/ CaptureLeave(p) \/ CaptureDone(p) \/ EncoderDone(p) \/ Monitor(p)

Next ==
    \/ \E t \in Tasks : TaskStep(t)
    \/ \E t \in Tasks : RequestBy(t)
    \/ \E p \in Pipelines : ThreadStep(p)

Spec == Init /\ [][Next]_vars

(* Runnable tasks and live threads go on, and tokio's RwLock queues its    *)
(* waiters, so a task that keeps asking for the lock gets it.  Requests,   *)
(* lost devices and the end of a recovery are not promised.                *)
Fairness ==
    /\ \A t \in Tasks : SF_vars(TaskStep(t))
    /\ \A p \in Pipelines :
         /\ WF_vars(CaptureLoop(p)) /\ WF_vars(CaptureTurn(p))
         /\ WF_vars(CaptureIdle(p))
         /\ WF_vars(CaptureLeave(p)) /\ WF_vars(CaptureDone(p))
         /\ WF_vars(EncoderDone(p)) /\ SF_vars(Monitor(p))

FairSpec == Spec /\ Fairness

(***************************************************************************)
(* Properties.                                                             *)
(***************************************************************************)
(* A pipeline that uses the video device or may still open it. *)
UsesDevice(p) == cap[p] # "none" \/ p \in open

(* The video device has one user: however sessions, reconfigurations,      *)
(* time-outs, lost devices and monitors interleave, no pipeline is started *)
(* before its predecessor has closed the device (webrtc_streamer.rs:481).  *)
DeviceExclusive ==
    \A p, q \in Pipelines : UsesDevice(p) /\ UsesDevice(q) => p = q

(* close_all_sessions_and_release_device returns Ok only once no pipeline  *)
(* holds the device or can open it: the MJPEG streamer, started next,      *)
(* needs it at once (webrtc_streamer.rs:1188).                             *)
ReleaseStep ==
    \A t \in Controllers :
        /\ op[t] = "release" /\ op'[t] = "none"
        /\ pc[t] = "d_lock" \/ (pc[t] = "d_wait" /\ current' = Nobody)
        => \A p \in Pipelines : ~UsesDevice(p)'
ReleaseFreesDevice == [][ReleaseStep]_vars

(* The video device as others see it: used by one pipeline after another,  *)
(* never handed over without having been free.                             *)
holder == IF \E p \in Pipelines : UsesDevice(p)
          THEN CHOOSE p \in Pipelines : UsesDevice(p) ELSE Nobody
Device == INSTANCE VideoDevice WITH Users <- Pipelines
DeviceSpec == Device!Spec

(* Reconfigurations come to an end: no lock is kept by an operation that   *)
(* failed, timed out or waits for a thread that waits for it.              *)
ControlReturns ==
    \A t \in Controllers : pc[t] # "idle" ~> pc[t] = "idle"

(* A pipeline nobody receives frames from stops and frees the device, even *)
(* while dead sessions are still listed (shared.rs:823).                   *)
UnusedStops ==
    \A p \in Pipelines :
        cap[p] # "none" /\ Unsubscribed(p)
            ~> cap[p] = "none" \/ ~Unsubscribed(p)
===============================================================================
