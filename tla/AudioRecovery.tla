---- MODULE AudioRecovery ----
(***************************************************************************)
(* Audio capture (src/audio/): the controller whose operations hold one    *)
(* lock, the streamers it makes and drops, the task that watches each      *)
(* streamer, and the recovery that tries to open a device again after one  *)
(* was lost.                                                               *)
(*                                                                         *)
(* A recovery opens its device outside the lock and commits under it.  Its *)
(* token is the odd number after an even, idle, one; every operation of    *)
(* the user cancels it.  The ALSA device can be open once.                 *)
(*                                                                         *)
(* An operation runs in the request that asked for it and is dropped, lock *)
(* and all, wherever it waits when its client leaves.                      *)
(***************************************************************************)
EXTENDS Naturals, FiniteSets

CONSTANTS
    AuStreamers,  \* AudioStreamer objects
    NoStreamer,   \* the controller has none
    MaxAuOps,     \* bound: operations of the user
    MaxAuFaults   \* bound: times the device goes away or reading it fails

ASSUME AuAssumption == NoStreamer \notin AuStreamers /\ MaxAuOps \in Nat /\ MaxAuFaults \in Nat

AuGens == 1..(MaxAuOps + MaxAuFaults + 1)

VARIABLES
    auCtl,     \* AudioController: [enabled, streamer, error], the error "none", "shown" or, when
               \* the request that would have cleared it was given up, "kept"
    auObj,     \* per streamer: [state, cap, watched]
    auTok,     \* RecoveryControl.state
    auRec,     \* recovery tasks by generation: [pc, s]
    auOp,      \* the operation that holds the lock: [pc, kind, s]
    auDev,     \* external: the device is there
    auWant,    \* history: what the last operation asks for
    auOps,
    auFaults

auVars == <<auCtl, auObj, auTok, auRec, auOp, auDev, auWant, auOps, auFaults>>

\* AudioStreamer: made, started (its capture thread runs) and stopped; one whose
\* opening was given up is "Left".
NewStreamer == [state |-> "Stopped", cap |-> FALSE, watched |-> FALSE]
StartingStreamer(c) == [state |-> "Starting", cap |-> c, watched |-> FALSE]
StartedStreamer(w) == [state |-> "Running", cap |-> TRUE, watched |-> w]
StoppedStreamer(o) == [o EXCEPT !.state = "Stopped", !.cap = FALSE]
NoRecovery == [pc |-> "none", s |-> NoStreamer]

\* What is left to do of an operation that holds the lock.
AuDoing(kind, pc) == [pc |-> pc, kind |-> IF pc = "idle" THEN "none" ELSE kind, s |-> NoStreamer]

AuInit ==
    /\ auCtl = [enabled |-> TRUE, streamer |-> NoStreamer, error |-> "none"]
    /\ auObj = [s \in AuStreamers |-> NewStreamer]
    /\ auTok = 0 /\ auRec = [g \in AuGens |-> NoRecovery]
    /\ auOp = AuDoing("none", "idle")
    /\ auDev \in BOOLEAN /\ auWant = "none" /\ auOps = 0 /\ auFaults = 0

\* is_running of the current streamer.
Streaming == auCtl.streamer # NoStreamer /\ auObj[auCtl.streamer].state = "Running"

\* A streamer nobody refers to any more.
Unused(s) ==
    /\ s \notin {auCtl.streamer, auOp.s} /\ auObj[s].state # "Running" /\ ~auObj[s].cap /\ ~auObj[s].watched
    /\ \A g \in AuGens : auRec[g].s # s

\* AudioCapturer::start and run_capture: the ALSA device opens and takes 48 kHz
\* stereo, which a device that is gone, or is open already, does not.
DeviceFree == auDev /\ \A s \in AuStreamers : ~auObj[s].cap

\* AudioHealthMonitor: report_error; report_recovered and reset.
Failing(c) == [c EXCEPT !.error = "shown"]
Healthy(c) == [c EXCEPT !.error = "none"]

-----------------------------------------------------------------------------
(* The recovery control *)

Token(g) == 2 * g - 1
Current(g) == auTok = Token(g)
Cancelled == IF auTok % 2 = 1 THEN auTok + 1 ELSE auTok
Finished(g) == IF Current(g) THEN auTok + 1 ELSE auTok

\* AudioRecovery::start: nothing when one is under way.
BeginRecovery(tok) ==
    IF tok % 2 = 1 THEN auTok' = tok /\ UNCHANGED auRec
    ELSE /\ auTok' = tok + 1
         /\ auRec' = [auRec EXCEPT ![(tok + 2) \div 2] = [pc |-> "check", s |-> NoStreamer]]

-----------------------------------------------------------------------------
(* Operations of the controller *)

\* An operation takes the lock and cancels the recovery.
Takes(kind, pc) ==
    /\ auOp.pc = "idle" /\ auOps < MaxAuOps
    /\ auOps' = auOps + 1
    /\ auOp' = AuDoing(kind, pc)
    /\ auTok' = Cancelled
    /\ UNCHANGED <<auObj, auRec, auDev, auFaults>>

\* Audio that runs stays wanted; a recovery that was cancelled does not come back.
Rests == auWant' = IF Streaming THEN auWant ELSE "none"

\* select_device: a device that is not found is refused; a stream is restarted.
SelectDevice ==
    /\ \/ Takes("select", "idle")
       \/ Takes("select", IF Streaming THEN "stop" ELSE "idle")
    /\ Rests
    /\ UNCHANGED auCtl

StartStreaming == Takes("start", "open") /\ auWant' = "on" /\ UNCHANGED auCtl

\* stop_streaming, and shutdown, which is the same.
StopStreaming == Takes("stop", "stop") /\ auWant' = "off" /\ UNCHANGED auCtl

SetEnabled ==
    \E on \in BOOLEAN :
       /\ Takes("enable", IF ~on /\ Streaming THEN "stop" ELSE "idle")
       /\ auCtl' = [auCtl EXCEPT !.enabled = on]
       /\ IF on THEN Rests ELSE auWant' = "off"

UpdateAudioConfig == Takes("update", IF Streaming THEN "stop" ELSE "config") /\ auWant' = "on" /\ UNCHANGED auCtl

UserOp == SelectDevice \/ StartStreaming \/ StopStreaming \/ SetEnabled \/ UpdateAudioConfig

\* stop_streaming_inner: the streamer is taken and stopped, the monitor reset.
StopInner ==
    /\ auOp.pc = "stop"
    /\ auObj' = IF auCtl.streamer = NoStreamer THEN auObj
                ELSE [auObj EXCEPT ![auCtl.streamer] = StoppedStreamer(@)]
    /\ auCtl' = Healthy([auCtl EXCEPT !.streamer = NoStreamer])
    /\ auTok' = Cancelled
    /\ auOp' = AuDoing(auOp.kind, CASE auOp.kind = "select" -> "open"
                                     [] auOp.kind = "update" -> "config"
                                     [] OTHER -> "idle")
    /\ UNCHANGED <<auRec, auDev, auWant, auOps, auFaults>>

\* update_config: the new configuration, enabled or not.
StoreConfig ==
    /\ auOp.pc = "config"
    /\ \E on \in BOOLEAN :
          /\ auCtl' = [auCtl EXCEPT !.enabled = on]
          /\ auOp' = AuDoing(auOp.kind, IF on THEN "open" ELSE "idle")
          /\ auWant' = IF on THEN "on" ELSE "off"
    /\ UNCHANGED <<auObj, auTok, auRec, auDev, auOps, auFaults>>

\* start_streaming_inner: refused when disabled, nothing when it streams; else a
\* new streamer, whose capture thread opens the device or finds that it cannot.
OpenInner ==
    /\ auOp.pc = "open"
    /\ IF ~auCtl.enabled THEN auOp' = AuDoing("none", "idle") /\ auWant' = "none" /\ UNCHANGED auObj
       ELSE IF Streaming THEN auOp' = AuDoing("none", "idle") /\ UNCHANGED <<auObj, auWant>>
       ELSE \E s \in {t \in AuStreamers : Unused(t)} :
               /\ auObj' = [auObj EXCEPT ![s] = StartingStreamer(DeviceFree)]
               /\ auOp' = [AuDoing(auOp.kind, "wait") EXCEPT !.s = s]
               /\ UNCHANGED auWant
    /\ UNCHANGED <<auCtl, auTok, auRec, auDev, auOps, auFaults>>

\* The wait of two seconds for the capture thread is over: the streamer is
\* installed with its watcher, or the failure is reported and a recovery started.
StreamerOpened ==
    /\ auOp.pc = "wait"
    /\ LET s == auOp.s IN
       \/ /\ auObj[s].cap
          /\ auObj' = [auObj EXCEPT ![s] = StartedStreamer(TRUE)]
          /\ auCtl' = [auCtl EXCEPT !.streamer = s]
          /\ auOp' = AuDoing(auOp.kind, IF auCtl.error = "none" THEN "idle" ELSE "report")
          /\ UNCHANGED <<auTok, auRec>>
       \/ /\ ~auObj[s].cap
          /\ auObj' = [auObj EXCEPT ![s] = NewStreamer]
          /\ auCtl' = Failing(auCtl)
          /\ BeginRecovery(auTok)
          /\ auOp' = AuDoing("none", "idle")
    /\ UNCHANGED <<auDev, auWant, auOps, auFaults>>

\* report_recovered.
ReportRecovered ==
    /\ auOp.pc = "report"
    /\ auCtl' = Healthy(auCtl) /\ auOp' = AuDoing("none", "idle")
    /\ UNCHANGED <<auObj, auTok, auRec, auDev, auWant, auOps, auFaults>>

\* The client leaves: the operation ends where it waits, for the thread of the
\* streamer it took and told to stop, for the capture it spawned, or for the
\* monitor.  What it was to do is not done.
GivenUp ==
    /\ auOp.pc # "idle"
    /\ auOp' = AuDoing("none", "idle")
    /\ auWant' = IF auOp.pc = "report" THEN auWant ELSE "none"
    /\ \/ auOp.pc \in {"stop", "config", "open"} /\ UNCHANGED <<auCtl, auObj, auTok>>
       \/ /\ auOp.pc = "stop" /\ auCtl.streamer # NoStreamer
          /\ auCtl' = [auCtl EXCEPT !.streamer = NoStreamer]
          /\ auObj' = [auObj EXCEPT ![auCtl.streamer].state = "Stopped"]
          /\ auTok' = Cancelled
       \/ /\ auOp.pc = "wait"
          /\ auObj' = [auObj EXCEPT ![auOp.s].state = "Left"]
          /\ auCtl' \in IF auObj[auOp.s].cap THEN {auCtl} ELSE {auCtl, Failing(auCtl)}
          /\ UNCHANGED auTok
       \/ /\ auOp.pc = "report"
          /\ auCtl' = [auCtl EXCEPT !.error = "kept"] /\ UNCHANGED <<auObj, auTok>>
    /\ UNCHANGED <<auRec, auDev, auOps, auFaults>>

-----------------------------------------------------------------------------
(* A streamer, its capture thread and its watcher *)

\* run_capture returns: it was told to stop, the device is lost, an overrun cannot
\* be repaired, or ten reads in a row failed.
CaptureEnds(s) ==
    /\ auObj[s].cap
    /\ \/ (~auDev \/ auObj[s].state = "Stopped") /\ UNCHANGED auFaults
       \/ auDev /\ auFaults < MaxAuFaults /\ auFaults' = auFaults + 1
    /\ auObj' = [auObj EXCEPT ![s].cap = FALSE]
    /\ UNCHANGED <<auCtl, auTok, auRec, auOp, auDev, auWant, auOps>>

\* stream_task sees the state of the capturer.
TaskNotices(s) ==
    /\ auObj[s].state = "Running" /\ ~auObj[s].cap
    /\ auObj' = [auObj EXCEPT ![s].state = "Error"]
    /\ UNCHANGED <<auCtl, auTok, auRec, auOp, auDev, auWant, auOps, auFaults>>

\* AudioRecovery::monitor: a streamer that was stopped is left alone; one that
\* failed is, under the lock, recovered if it still is the current one.
Watch(s) ==
    /\ auObj[s].watched
    /\ \/ /\ auObj[s].state = "Stopped"
          /\ UNCHANGED <<auCtl, auTok, auRec>>
       \/ /\ auObj[s].state = "Error" /\ auOp.pc = "idle"
          /\ IF auCtl.streamer = s
             THEN auCtl' = Failing(auCtl) /\ BeginRecovery(auTok)
             ELSE UNCHANGED <<auCtl, auTok, auRec>>
    /\ auObj' = [auObj EXCEPT ![s].watched = FALSE]
    /\ UNCHANGED <<auOp, auDev, auWant, auOps, auFaults>>

-----------------------------------------------------------------------------
(* AudioRecovery::run *)

RecDone(g) == auRec' = [auRec EXCEPT ![g] = [pc |-> "done", s |-> NoStreamer]] /\ auTok' = Finished(g)

\* The head of the loop, and the delay.
RecCheck(g) ==
    /\ auRec[g].pc = "check"
    /\ IF ~Current(g) \/ ~auCtl.enabled \/ Streaming THEN RecDone(g)
       ELSE auRec' = [auRec EXCEPT ![g].pc = "try"] /\ UNCHANGED auTok
    /\ UNCHANGED <<auCtl, auObj, auOp, auDev, auWant, auOps, auFaults>>

\* After the delay: the devices are listed, one is chosen and opened.
RecTry(g) ==
    /\ auRec[g].pc = "try"
    /\ IF ~Current(g) THEN RecDone(g) /\ UNCHANGED auObj
       ELSE \/ /\ DeviceFree
               /\ \E s \in {t \in AuStreamers : Unused(t)} :
                     /\ auObj' = [auObj EXCEPT ![s] = StartedStreamer(FALSE)]
                     /\ auRec' = [auRec EXCEPT ![g] = [pc |-> "commit", s |-> s]]
               /\ UNCHANGED auTok
            \/ /\ ~DeviceFree
               /\ auRec' = [auRec EXCEPT ![g].pc = "check"]
               /\ UNCHANGED <<auObj, auTok>>
    /\ UNCHANGED <<auCtl, auOp, auDev, auWant, auOps, auFaults>>

\* Mutant of RecCommit: the token is not looked at again under the lock.
RecCommit_Blind(g) ==
    /\ auRec[g].pc = "commit" /\ auOp.pc = "idle"
    /\ IF auCtl.enabled
       THEN /\ auCtl' = Healthy([auCtl EXCEPT !.streamer = auRec[g].s])
            /\ auObj' = [auObj EXCEPT ![auRec[g].s].watched = TRUE]
       ELSE /\ auObj' = [auObj EXCEPT ![auRec[g].s] = StoppedStreamer(@)] /\ UNCHANGED auCtl
    /\ RecDone(g)
    /\ UNCHANGED <<auOp, auDev, auWant, auOps, auFaults>>

\* Under the lock: a recovery that was cancelled, or finds audio disabled, stops
\* what it opened; the others install it, with a watcher.
RecCommit(g) ==
    /\ auRec[g].pc = "commit" /\ auOp.pc = "idle"
    /\ IF Current(g) /\ auCtl.enabled
       THEN /\ auCtl' = Healthy([auCtl EXCEPT !.streamer = auRec[g].s])
            /\ auObj' = [auObj EXCEPT ![auRec[g].s].watched = TRUE]
       ELSE /\ auObj' = [auObj EXCEPT ![auRec[g].s] = StoppedStreamer(@)] /\ UNCHANGED auCtl
    /\ RecDone(g)
    /\ UNCHANGED <<auOp, auDev, auWant, auOps, auFaults>>

\* The device is unplugged or comes back (external).
DeviceChanges ==
    /\ auDev => auFaults < MaxAuFaults
    /\ auDev' = ~auDev
    /\ auFaults' = IF auDev THEN auFaults + 1 ELSE auFaults
    /\ UNCHANGED <<auCtl, auObj, auTok, auRec, auOp, auWant, auOps>>

AuTaskStep ==
    \/ StopInner \/ StoreConfig \/ OpenInner \/ StreamerOpened \/ ReportRecovered \/ GivenUp
    \/ \E s \in AuStreamers : CaptureEnds(s) \/ TaskNotices(s) \/ Watch(s)
    \/ \E g \in AuGens : RecCheck(g) \/ RecTry(g) \/ RecCommit(g)

AuNext == UserOp \/ DeviceChanges \/ AuTaskStep

\* Every task and thread that can go on does; the user and the device need not.
AuTurn(i) ==
    CASE i = 1 -> StopInner \/ StoreConfig \/ OpenInner \/ StreamerOpened \/ ReportRecovered
      [] i = 2 -> \E s \in AuStreamers : (~auDev \/ auObj[s].state = "Stopped") /\ CaptureEnds(s)
      [] i = 3 -> \E s \in AuStreamers : TaskNotices(s)
      [] i = 4 -> \E s \in AuStreamers : Watch(s)
      [] i - 4 \in AuGens -> RecCheck(i - 4) \/ RecTry(i - 4) \/ RecCommit(i - 4)
      [] OTHER -> FALSE

AuFairness == \A i \in 1..(4 + Cardinality(AuGens)) : WF_auVars(AuTurn(i))

AuSpec == AuInit /\ [][AuNext]_auVars /\ AuFairness

-----------------------------------------------------------------------------

\* No capture runs that nobody can stop: a streamer with the device open is the
\* controller's, one that an operation waits for or a recovery is about to install
\* or to stop, or it was told to stop; and no two have the device.  The one way out is
\* a client that leaves while the operation waits for the capture it spawned.
NoOrphanCapture ==
    \A s \in AuStreamers : auObj[s].cap =>
       /\ \/ s \in {auCtl.streamer, auOp.s} \/ (\E g \in AuGens : auRec[g].s = s)
          \/ auObj[s].state \in {"Stopped", "Left"}
       /\ \A t \in AuStreamers : auObj[t].cap => t = s

\* A recovery does not bring audio back after the user stopped or disabled it.
StoppedStaysStopped == auWant = "off" /\ auOp.pc = "idle" => ~Streaming

\* While audio streams no error is shown: the watcher of a streamer that failed
\* before, and was replaced meanwhile, reports nothing.  An older error can only be
\* kept by a client that leaves before the request has cleared it.
HealthyWhileStreaming == auOp.pc = "idle" /\ Streaming => auCtl.error # "shown"

\* Audio the user asked for comes back when the device does, without the user
\* doing anything, as long as nothing but failures happened since and no capture
\* whose opening was given up has the device.
AudioComesBack ==
    []<>(\/ auWant # "on" \/ ~auDev \/ (Streaming /\ auObj[auCtl.streamer].cap)
         \/ \E s \in AuStreamers : auObj[s].state = "Left" /\ auObj[s].cap)
====
