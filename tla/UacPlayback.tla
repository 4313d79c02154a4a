---- MODULE UacPlayback ----
(***************************************************************************)
(* The browser's microphone on the USB audio function (src/audio/uac/,     *)
(* src/web/uac_ws.rs): one session at a time, a sink that is driven only   *)
(* when a frame arrives, and the stop that a rebuild of the gadget waits   *)
(* for.  A rebuild makes a new playback; sessions of the old one go on     *)
(* holding it until they notice.                                           *)
(*                                                                         *)
(* The PCM can be open once and holds UacBuffer periods.                   *)
(***************************************************************************)
EXTENDS Naturals

CONSTANTS
    UacSessions,  \* WebSocket sessions
    NoSession,
    UacBuffer,    \* periods the PCM buffer holds
    MaxRebuilds,  \* bound: rebuilds of the gadget
    MaxUacFrames  \* bound: frames the browser sends

ASSUME UacAssumption == NoSession \notin UacSessions /\ UacBuffer \in Nat \ {0} /\ MaxRebuilds \in Nat

VARIABLES
    uaPlay,   \* the playbacks, by generation: [stopped, active]
    uaGen,    \* the generation in AppState.uac_playback, 0 for none
    uaSes,    \* sessions: [pc, gen, sink]
    uaPcm,    \* external: [owner, fill, speech]
    uaHost,   \* external: the target reads the microphone
    uaApply,  \* apply_usb_config: [pc, gen, taken]
    uaFrames

uaVars == <<uaPlay, uaGen, uaSes, uaPcm, uaHost, uaApply, uaFrames>>

UaGens == 1..(MaxRebuilds + 1)
NoPcm == [owner |-> NoSession, fill |-> 0, speech |-> FALSE]
NewPlayback == [stopped |-> FALSE, active |-> NoSession]
NewSession == [pc |-> "none", gen |-> 1, sink |-> "closed"]

UaInit ==
    /\ uaPlay = [g \in UaGens |-> NewPlayback]
    /\ uaGen = 1
    /\ uaSes = [s \in UacSessions |-> NewSession]
    /\ uaPcm = NoPcm /\ uaHost \in BOOLEAN
    /\ uaApply = [pc |-> "idle", gen |-> 1, taken |-> NoSession]
    /\ uaFrames = 0

\* SessionRuntime::close: the handle is dropped with the sink.
PcmWithout(s) == IF uaPcm.owner = s THEN NoPcm ELSE uaPcm

\* uac_audio_ws_handler, acquire_session: refused without a playback, when it
\* is stopping, and when it has a session.
AcquireSession(s) ==
    /\ uaSes[s].pc = "none"
    /\ uaGen # 0 /\ ~uaPlay[uaGen].stopped /\ uaPlay[uaGen].active = NoSession
    /\ uaPlay' = [uaPlay EXCEPT ![uaGen].active = s]
    /\ uaSes' = [uaSes EXCEPT ![s] = [pc |-> "ready", gen |-> uaGen, sink |-> "closed"]]
    /\ UNCHANGED <<uaGen, uaPcm, uaHost, uaApply, uaFrames>>

\* A packet that parses and decodes reaches try_write, whose first look at the
\* flag is without the lock.  A stopped playback ends the session.
CheckStopped(s) ==
    /\ uaSes[s].pc = "ready" /\ uaFrames < MaxUacFrames
    /\ uaFrames' = uaFrames + 1
    /\ uaSes' = [uaSes EXCEPT ![s].pc = IF uaPlay[uaSes[s].gen].stopped THEN "drop" ELSE "write"]
    /\ UNCHANGED <<uaPlay, uaGen, uaPcm, uaHost, uaApply>>

\* The outcomes of drive_sink, each the new sink and PCM.
Sink(s, sink, pcm) ==
    /\ uaSes' = [uaSes EXCEPT ![s] = [@ EXCEPT !.sink = sink, !.pc = "ready"]]
    /\ uaPcm' = pcm

RetryLater(s) == Sink(s, "backoff", PcmWithout(s))

\* open_pcm and prime_pcm_with_silence: the buffer is full of silence.
Primed(s) == [owner |-> s, fill |-> UacBuffer, speech |-> FALSE]

\* reset_pcm_buffer.
Reset(s) == [owner |-> s, fill |-> 0, speech |-> FALSE]

\* write_pcm_nonblocking of one period that fits.
Written(s, pcm) == [owner |-> s, fill |-> pcm.fill + 1, speech |-> TRUE]

\* drive_active: progress; a repaired error, which drops the frame; a full
\* buffer, waited for a while and then taken for a target that stopped reading;
\* an error that cannot be repaired.
DriveActive(s, pcm) ==
    \/ pcm.fill < UacBuffer /\ Sink(s, "active", Written(s, pcm))
    \/ Sink(s, "active", Reset(s))
    \/ pcm.fill = UacBuffer /\ Sink(s, "active", pcm)
    \/ pcm.fill = UacBuffer /\ Sink(s, "stalled", Primed(s))
    \/ RetryLater(s)

\* drive_probe: a primed buffer that has room shows that the target reads.
DriveProbe(s, sink, pcm) ==
    \/ pcm.fill = UacBuffer /\ Sink(s, sink, pcm)
    \/ pcm.fill < UacBuffer /\ DriveActive(s, Reset(s))
    \/ RetryLater(s)

\* drive_sink.
DriveSink(s) ==
    CASE uaSes[s].sink \in {"closed", "backoff"} ->
            \/ uaPcm.owner = NoSession /\ DriveProbe(s, "probing", Primed(s))
            \/ RetryLater(s)
      [] uaSes[s].sink \in {"probing", "stalled"} -> DriveProbe(s, uaSes[s].sink, uaPcm)
      [] OTHER -> DriveActive(s, uaPcm)

\* Mutant of TryWrite: the flag is not looked at again under the lock.
TryWrite_Once(s) ==
    /\ uaSes[s].pc = "write"
    /\ DriveSink(s)
    /\ UNCHANGED <<uaPlay, uaGen, uaHost, uaApply, uaFrames>>

\* try_write under the lock of the session.
TryWrite(s) ==
    /\ uaSes[s].pc = "write"
    /\ IF uaPlay[uaSes[s].gen].stopped
       THEN /\ uaSes' = [uaSes EXCEPT ![s] = [@ EXCEPT !.pc = "drop", !.sink = "closed"]]
            /\ uaPcm' = PcmWithout(s)
       ELSE DriveSink(s)
    /\ UNCHANGED <<uaPlay, uaGen, uaHost, uaApply, uaFrames>>

\* The socket closes, fails or cannot be written to.
SocketCloses(s) ==
    /\ uaSes[s].pc = "ready"
    /\ uaSes' = [uaSes EXCEPT ![s].pc = "drop"]
    /\ UNCHANGED <<uaPlay, uaGen, uaPcm, uaHost, uaApply, uaFrames>>

\* Drop of UacSession: the place is given back, then the sink is closed.
DropPlace(s) ==
    /\ uaSes[s].pc = "drop"
    /\ uaPlay' = [uaPlay EXCEPT ![uaSes[s].gen].active = IF @ = s THEN NoSession ELSE @]
    /\ uaSes' = [uaSes EXCEPT ![s].pc = "close"]
    /\ UNCHANGED <<uaGen, uaPcm, uaHost, uaApply, uaFrames>>

DropSink(s) ==
    /\ uaSes[s].pc = "close"
    /\ uaSes' = [uaSes EXCEPT ![s] = NewSession]
    /\ uaPcm' = PcmWithout(s)
    /\ UNCHANGED <<uaPlay, uaGen, uaHost, uaApply, uaFrames>>

\* apply_usb_config takes the playback out of the state and stops it.
StopFlag ==
    /\ uaApply.pc = "idle" /\ uaGen # 0 /\ uaGen <= MaxRebuilds
    /\ uaApply' = [pc |-> "take", gen |-> uaGen, taken |-> NoSession]
    /\ uaPlay' = [uaPlay EXCEPT ![uaGen].stopped = TRUE]
    /\ uaGen' = 0
    /\ UNCHANGED <<uaSes, uaPcm, uaHost, uaFrames>>

StopTake ==
    /\ uaApply.pc = "take"
    /\ uaApply' = [uaApply EXCEPT !.pc = "close", !.taken = uaPlay[uaApply.gen].active]
    /\ uaPlay' = [uaPlay EXCEPT ![uaApply.gen].active = NoSession]
    /\ UNCHANGED <<uaGen, uaSes, uaPcm, uaHost, uaFrames>>

\* The lock of the session is waited for; a session that is not in the middle
\* of a write has it free.
StopClose ==
    /\ uaApply.pc = "close"
    /\ uaApply' = [uaApply EXCEPT !.pc = "rebuild"]
    /\ uaSes' = IF uaApply.taken = NoSession THEN uaSes ELSE [uaSes EXCEPT ![uaApply.taken].sink = "closed"]
    /\ uaPcm' = IF uaApply.taken = NoSession THEN uaPcm ELSE PcmWithout(uaApply.taken)
    /\ UNCHANGED <<uaPlay, uaGen, uaHost, uaFrames>>

\* The gadget has been rebuilt; with the function still enabled a new playback
\* is published.
StartPlayback ==
    /\ uaApply.pc = "rebuild"
    /\ uaApply' = [uaApply EXCEPT !.pc = "idle", !.taken = NoSession]
    /\ uaGen' = uaApply.gen + 1
    /\ UNCHANGED <<uaPlay, uaSes, uaPcm, uaHost, uaFrames>>

\* The target opens or closes the microphone, and takes a period (external).
HostChanges ==
    /\ uaHost' = ~uaHost
    /\ UNCHANGED <<uaPlay, uaGen, uaSes, uaPcm, uaApply, uaFrames>>

HostReads ==
    /\ uaHost /\ uaPcm.fill > 0
    /\ uaPcm' = [uaPcm EXCEPT !.fill = @ - 1, !.speech = @ /\ uaPcm.fill > 1]
    /\ UNCHANGED <<uaPlay, uaGen, uaSes, uaHost, uaApply, uaFrames>>

UaNext ==
    \/ \E s \in UacSessions :
          \/ AcquireSession(s) \/ CheckStopped(s) \/ TryWrite(s)
          \/ SocketCloses(s) \/ DropPlace(s) \/ DropSink(s)
    \/ StopFlag \/ StopTake \/ StopClose \/ StartPlayback
    \/ HostChanges \/ HostReads

UaSpec == UaInit /\ [][UaNext]_uaVars

-----------------------------------------------------------------------------

\* While the target does not read the microphone, the buffer holds no speech it
\* could play later: the sink was emptied when the stall was noticed.
SilentUntilRead ==
    \A s \in UacSessions :
       uaSes[s].sink \in {"probing", "stalled"} /\ uaPcm.owner = s => ~uaPcm.speech

\* Once stop has returned and the gadget is rebuilt, no session of the stopped
\* playback holds the PCM but one that is just being dropped.
StopLeavesOnlyDrops ==
    uaApply.pc = "rebuild" /\ uaPcm.owner # NoSession => uaSes[uaPcm.owner].pc = "close"

\* What stop promises: "Stop accepting frames and synchronously close an active
\* ALSA handle. This guarantees configfs may rebuild the UAC function after this
\* call" (playback.rs).  A session being dropped has given its place back, so
\* stop does not find it, and closes its handle after stop has returned.
StopReleasesDevice == uaApply.pc = "rebuild" => uaPcm.owner = NoSession

\* What playback promises: no speech reaches the device before the host reads
\* it, and a reconfiguration rebuilds the device when sessions only drop.
UacPromise == SilentUntilRead /\ StopLeavesOnlyDrops
====
