------------------------------- MODULE Streamer -------------------------------
(***************************************************************************)
(* The capture lifecycle of the MJPEG path: Streamer::start, stop,         *)
(* apply_video_config, the blocking capture thread run_direct_capture and  *)
(* the device recovery task (src/video/streamer.rs).                       *)
(*                                                                         *)
(* Every task (an HTTP handler, a configuration change, a recovery task)   *)
(* and every capture thread is a process with its own pc; one action is    *)
(* the code between two points at which another process can interfere: an  *)
(* await, an atomic store, a lock.  The six no-signal variants of          *)
(* StreamerState are one value, "NoSignal": only their class is ever       *)
(* tested.  Time is a nondeterministic choice: an elapsed delay is a step  *)
(* that may happen.                                                        *)
(***************************************************************************)
EXTENDS Naturals, FiniteSets

CONSTANTS
    Starters,         \* tasks that call start()
    Stoppers,         \* tasks that call stop()
    Appliers,         \* tasks that call VideoStreamManager::apply_video_config
    Recoveries,       \* tasks that run start_device_recovery_internal
    Threads,          \* capture threads alive at the same time, at most
    SourceFollowing,  \* VideoControlMode::SourceFollowing (else Configurable)
    RetryLimit,       \* CONFIGURABLE_RETRY_LIMIT, scaled down
    Nobody            \* no holder, no handle

ASSUME StreamerAssumption ==
    /\ SourceFollowing \in BOOLEAN
    /\ RetryLimit \in Nat \ {0}
    /\ Nobody \notin Starters \cup Stoppers \cup Appliers \cup Recoveries
    /\ Nobody \notin Threads
    /\ Recoveries \cap (Starters \cup Stoppers \cup Appliers) = {}

VARIABLES
    state,           \* StreamerState, no-signal variants merged
    directStop,      \* direct_stop
    directActive,    \* direct_active
    directHandle,    \* direct_handle: the thread it would join
    handleLock,      \* holder of the direct_handle mutex across an await
    startLock,       \* holder of start_lock
    online,          \* MjpegStreamHandler::online
    clients,         \* client_count() > 0
    configChanging,  \* config_changing
    recovering,      \* recovery_in_progress
    device,          \* current_device.is_some()
    lostReports,     \* a spawned start_device_recovery_internal not yet run
    pc,              \* control point of each task
    ret,             \* where a task goes on after start() or stop()
    mine,            \* thread a task has spawned or joins
    uninit,          \* tasks whose start() read the state Uninitialized
    \* run_direct_capture, per capture thread:
    tpc,             \* its control point
    last,            \* last_state
    signal,          \* threads with signal_present
    since,           \* threads with no_signal_since.is_some()
    lonely,          \* threads with no_consumers_since.is_some()
    soft,            \* threads with need_soft_restart
    restarts         \* no_signal_restart_count, capped at RetryLimit

taskVars == <<pc, ret, mine, uninit>>
flagVars == <<directStop, directActive, directHandle, handleLock, startLock>>
threadVars == <<tpc, last, signal, since, lonely, soft, restarts>>
vars == <<state, device, flagVars, online, clients, configChanging,
          recovering, lostReports, taskVars, threadVars>>

Tasks == Starters \cup Stoppers \cup Appliers \cup Recoveries

States == {"Uninitialized", "Ready", "Streaming", "NoSignal", "Error",
           "DeviceLost", "Recovering", "Busy"}

StartPCs == {"s_check", "s_active", "s_init", "s_unstop", "s_spawn",
             "s_handle", "s_state"}
StopPCs  == {"x_flag", "x_take", "x_join", "x_active", "x_state"}
ApplyPCs == {"a_busy", "a_probe", "a_stop", "a_config", "a_start"}
RecPCs   == {"r_loop", "r_mark", "r_probe", "r_restart", "r_start", "r_wait"}
Labels   == {"idle"} \cup StartPCs \cup StopPCs \cup ApplyPCs \cup RecPCs

Running   == {"t_session", "t_open", "t_openfail", "t_capture", "t_after"}
ThreadPCs == {"free", "t_exit"} \cup Running

TypeOK ==
    /\ state \in States
    /\ directStop \in BOOLEAN /\ directActive \in BOOLEAN
    /\ directHandle \in Threads \cup {Nobody}
    /\ handleLock \in Tasks \cup {Nobody}
    /\ startLock \in Tasks \cup {Nobody}
    /\ online \in BOOLEAN /\ clients \in BOOLEAN
    /\ configChanging \in BOOLEAN /\ recovering \in BOOLEAN
    /\ lostReports \in BOOLEAN /\ device \in BOOLEAN
    /\ pc \in [Tasks -> Labels]
    /\ ret \in [Tasks -> {"idle", "r_wait", "a_config"}]
    /\ mine \in [Tasks -> Threads \cup {Nobody}]
    /\ uninit \subseteq Tasks
    /\ tpc \in [Threads -> ThreadPCs]
    /\ last \in [Threads -> States]
    /\ signal \subseteq Threads /\ since \subseteq Threads
    /\ lonely \subseteq Threads /\ soft \subseteq Threads
    /\ restarts \in [Threads -> 0..RetryLimit]

Init ==
    /\ state = "Uninitialized"
    /\ directStop = FALSE /\ directActive = FALSE
    /\ directHandle = Nobody /\ handleLock = Nobody /\ startLock = Nobody
    /\ online = FALSE /\ clients = FALSE
    /\ configChanging = FALSE /\ recovering = FALSE /\ lostReports = FALSE
    /\ device = FALSE
    /\ pc = [c \in Tasks |-> "idle"]
    /\ ret = [c \in Tasks |-> "idle"]
    /\ mine = [c \in Tasks |-> Nobody]
    /\ uninit = {}
    /\ tpc = [t \in Threads |-> "free"]
    /\ last = [t \in Threads |-> "Streaming"]
    /\ signal = Threads /\ since = {} /\ lonely = {} /\ soft = {}
    /\ restarts = [t \in Threads |-> 0]

Goto(c, label) == pc' = [pc EXCEPT ![c] = label]

(***************************************************************************)
(* start()                                                                 *)
(***************************************************************************)

\* The call, up to the acquisition of start_lock.
StartCall(c) ==
    /\ startLock = Nobody
    /\ \/ pc[c] = "idle" /\ c \in Starters /\ ret' = [ret EXCEPT ![c] = "idle"]
       \/ pc[c] = "a_start" /\ ret' = [ret EXCEPT ![c] = "idle"]
       \/ pc[c] = "r_start" /\ ret' = [ret EXCEPT ![c] = "r_wait"]
    /\ startLock' = c
    /\ Goto(c, "s_check")
    /\ UNCHANGED <<state, device, directStop, directActive, directHandle,
                   handleLock, online, clients, configChanging, recovering,
                   lostReports, mine, uninit, threadVars>>

\* Return from start(): the guard of start_lock is dropped.
StartReturn(c, label) == Goto(c, label) /\ startLock' = Nobody

\* An error of start() ends the call; the recovery task then loops.
StartFailed(c) ==
    StartReturn(c, IF ret[c] = "r_wait" THEN "r_loop" ELSE "idle")

\* Already streaming: nothing to do.
StartCheckState(c) ==
    /\ pc[c] = "s_check"
    /\ IF state = "Streaming"
         THEN StartReturn(c, ret[c]) /\ UNCHANGED uninit
         ELSE /\ Goto(c, "s_active")
              /\ uninit' = IF state = "Uninitialized" THEN uninit \cup {c}
                                                     ELSE uninit \ {c}
              /\ UNCHANGED startLock
    /\ UNCHANGED <<state, device, directStop, directActive, directHandle,
                   handleLock, online, clients, configChanging, recovering,
                   lostReports, ret, mine, threadVars>>

\* Mutant: start() does not look at direct_active.
StartCheckActive_Unguarded(c) ==
    /\ pc[c] = "s_active"
    /\ Goto(c, IF c \in uninit THEN "s_init" ELSE "s_unstop")
    /\ UNCHANGED <<state, device, flagVars, online, clients, configChanging,
                   recovering, lostReports, ret, mine, uninit, threadVars>>

\* A capture thread is active: leave it to its recovery loop.
StartCheckActive(c) ==
    /\ pc[c] = "s_active"
    /\ IF directActive
         THEN StartReturn(c, ret[c])
         ELSE /\ Goto(c, IF c \in uninit THEN "s_init" ELSE "s_unstop")
              /\ UNCHANGED startLock
    /\ UNCHANGED <<state, device, directStop, directActive, directHandle,
                   handleLock, online, clients, configChanging, recovering,
                   lostReports, ret, mine, uninit, threadVars>>

\* init_auto: a device is found and the state becomes Ready, or start() fails.
StartInit(c) ==
    /\ pc[c] = "s_init"
    /\ \/ /\ state' = "Ready" /\ device' = TRUE
          /\ Goto(c, "s_unstop")
          /\ UNCHANGED startLock
       \/ StartFailed(c) /\ UNCHANGED <<state, device>>
    /\ UNCHANGED <<directStop, directActive, directHandle, handleLock, online,
                   clients, configChanging, recovering, lostReports, ret,
                   mine, uninit, threadVars>>

\* No device, no start(): only an Uninitialized streamer looks for one.
StartClearStop(c) ==
    /\ pc[c] = "s_unstop"
    /\ IF device
         THEN /\ directStop' = FALSE
              /\ Goto(c, "s_spawn")
              /\ UNCHANGED startLock
         ELSE StartFailed(c) /\ UNCHANGED directStop
    /\ UNCHANGED <<state, device, directActive, directHandle, handleLock,
                   online, clients, configChanging, recovering, lostReports,
                   ret, mine, uninit, threadVars>>

\* A capture thread begins, or is gone: its locals have their first values.
ResetThread(t, label) ==
    /\ tpc' = [tpc EXCEPT ![t] = label]
    /\ last' = [last EXCEPT ![t] = "Streaming"]
    /\ signal' = signal \cup {t}
    /\ since' = since \ {t}
    /\ lonely' = lonely \ {t}
    /\ soft' = soft \ {t}
    /\ restarts' = [restarts EXCEPT ![t] = 0]

\* A thread whose join handle nobody holds any more can be reused.
Recyclable(t) ==
    /\ tpc[t] = "free"
    /\ t # directHandle
    /\ \A c \in Tasks : mine[c] # t

StartSpawn(c) ==
    /\ pc[c] = "s_spawn"
    /\ \E t \in Threads :
         /\ Recyclable(t)
         /\ ResetThread(t, "t_session")
         /\ mine' = [mine EXCEPT ![c] = t]
    /\ directActive' = TRUE
    /\ Goto(c, "s_handle")
    /\ UNCHANGED <<state, device, directStop, directHandle, handleLock,
                   startLock, online, clients, configChanging, recovering,
                   lostReports, ret, uninit>>

\* Mutant: the join handle of the spawned thread is dropped.
StartStoreHandle_Dropped(c) ==
    /\ pc[c] = "s_handle"
    /\ handleLock = Nobody
    /\ mine' = [mine EXCEPT ![c] = Nobody]
    /\ online' = TRUE
    /\ Goto(c, "s_state")
    /\ UNCHANGED <<state, device, flagVars, clients, configChanging,
                   recovering, lostReports, ret, uninit, threadVars>>

\* *direct_handle.lock().await = Some(handle); then set_online().
StartStoreHandle(c) ==
    /\ pc[c] = "s_handle"
    /\ handleLock = Nobody
    /\ directHandle' = mine[c]
    /\ mine' = [mine EXCEPT ![c] = Nobody]
    /\ online' = TRUE
    /\ Goto(c, "s_state")
    /\ UNCHANGED <<state, device, directStop, directActive, handleLock,
                   startLock, clients, configChanging, recovering,
                   lostReports, ret, uninit, threadVars>>

StartSetState(c) ==
    /\ pc[c] = "s_state"
    /\ state' = "Streaming"
    /\ StartReturn(c, ret[c])
    /\ UNCHANGED <<device, directStop, directActive, directHandle, handleLock,
                   online, clients, configChanging, recovering, lostReports,
                   ret, mine, uninit, threadVars>>

(***************************************************************************)
(* stop()                                                                  *)
(***************************************************************************)

StopCall(c) ==
    /\ pc[c] = "idle"
    /\ c \in Stoppers
    /\ Goto(c, "x_flag")
    /\ ret' = [ret EXCEPT ![c] = "idle"]
    /\ UNCHANGED <<state, device, flagVars, online, clients, configChanging,
                   recovering, lostReports, mine, uninit, threadVars>>

StopSetFlag(c) ==
    /\ pc[c] = "x_flag"
    /\ directStop' = TRUE
    /\ Goto(c, "x_take")
    /\ UNCHANGED <<state, device, directActive, directHandle, handleLock,
                   startLock, online, clients, configChanging, recovering,
                   lostReports, ret, mine, uninit, threadVars>>

\* The guard of direct_handle lives to the end of the `if let`, so the lock is
\* held while the thread is awaited.
StopTakeHandle(c) ==
    /\ pc[c] = "x_take"
    /\ handleLock = Nobody
    /\ IF directHandle = Nobody
         THEN Goto(c, "x_active") /\ UNCHANGED <<directHandle, handleLock,
                                                 mine>>
         ELSE /\ Goto(c, "x_join")
              /\ directHandle' = Nobody
              /\ handleLock' = c
              /\ mine' = [mine EXCEPT ![c] = directHandle]
    /\ UNCHANGED <<state, device, directStop, directActive, startLock, online,
                   clients, configChanging, recovering, lostReports, ret,
                   uninit, threadVars>>

\* Mutant: stop() drops the handle instead of awaiting the thread.
StopJoin_NoWait(c) ==
    /\ pc[c] = "x_join"
    /\ handleLock' = Nobody
    /\ mine' = [mine EXCEPT ![c] = Nobody]
    /\ Goto(c, "x_active")
    /\ UNCHANGED <<state, device, directStop, directActive, directHandle,
                   startLock, online, clients, configChanging, recovering,
                   lostReports, ret, uninit, threadVars>>

StopJoin(c) ==
    /\ pc[c] = "x_join"
    /\ tpc[mine[c]] = "free"
    /\ handleLock' = Nobody
    /\ mine' = [mine EXCEPT ![c] = Nobody]
    /\ Goto(c, "x_active")
    /\ UNCHANGED <<state, device, directStop, directActive, directHandle,
                   startLock, online, clients, configChanging, recovering,
                   lostReports, ret, uninit, threadVars>>

StopClearActive(c) ==
    /\ pc[c] = "x_active"
    /\ directActive' = FALSE
    /\ online' = FALSE
    /\ Goto(c, "x_state")
    /\ UNCHANGED <<state, device, directStop, directHandle, handleLock,
                   startLock, clients, configChanging, recovering,
                   lostReports, ret, mine, uninit, threadVars>>

StopSetState(c) ==
    /\ pc[c] = "x_state"
    /\ state' = "Ready"
    /\ Goto(c, ret[c])
    /\ UNCHANGED <<device, flagVars, online, clients, configChanging,
                   recovering, lostReports, ret, mine, uninit, threadVars>>

(***************************************************************************)
(* apply_video_config (the MJPEG branch of the manager's entry point)      *)
(***************************************************************************)

ApplyCall(c) ==
    /\ pc[c] = "idle"
    /\ c \in Appliers
    /\ \A d \in Appliers : pc[d] = "idle"   \* try_apply_lock: one at a time
    /\ configChanging' = TRUE
    /\ Goto(c, "a_busy")
    /\ UNCHANGED <<state, device, flagVars, online, clients, recovering,
                   lostReports, ret, mine, uninit, threadVars>>

ApplySetBusy(c) ==
    /\ pc[c] = "a_busy"
    /\ state' = "Busy"
    /\ Goto(c, "a_probe")
    /\ UNCHANGED <<device, flagVars, online, clients, configChanging,
                   recovering, lostReports, ret, mine, uninit, threadVars>>

\* The device is missing or its format cannot be resolved: `?` returns, the
\* flag is cleared, the state is left as it is.
ApplyReject(c) ==
    /\ pc[c] = "a_probe"
    /\ configChanging' = FALSE
    /\ Goto(c, "idle")
    /\ UNCHANGED <<state, device, flagVars, online, clients, recovering,
                   lostReports, ret, mine, uninit, threadVars>>

\* disconnect_non_vnc_clients; VNC clients stay registered.
ApplyDisconnect(c) ==
    /\ pc[c] = "a_probe"
    /\ clients' \in {FALSE, clients}
    /\ online' = FALSE
    /\ Goto(c, "a_stop")
    /\ UNCHANGED <<state, device, flagVars, configChanging, recovering,
                   lostReports, ret, mine, uninit, threadVars>>

ApplyStop(c) ==
    /\ pc[c] = "a_stop"
    /\ Goto(c, IF directActive THEN "x_flag" ELSE "a_config")
    /\ ret' = [ret EXCEPT ![c] = "a_config"]
    /\ UNCHANGED <<state, device, flagVars, online, clients, configChanging,
                   recovering, lostReports, mine, uninit, threadVars>>

\* The configuration is replaced; the manager then calls start().
ApplyConfig(c) ==
    /\ pc[c] = "a_config"
    /\ state' = "Ready" /\ device' = TRUE
    /\ configChanging' = FALSE
    /\ Goto(c, "a_start")
    /\ UNCHANGED <<flagVars, online, clients, recovering, lostReports, ret,
                   mine, uninit, threadVars>>

(***************************************************************************)
(* start_device_recovery_internal and its task                             *)
(***************************************************************************)

\* Mutant: the previous value of the swap is ignored.
RecoveryBegin_NoSwap(c) ==
    /\ pc[c] = "idle"
    /\ c \in Recoveries
    /\ lostReports
    /\ lostReports' = FALSE
    /\ recovering' = TRUE
    /\ Goto(c, "r_loop")
    /\ UNCHANGED <<state, device, flagVars, online, clients, configChanging,
                   ret, mine, uninit, threadVars>>

RecoveryBegin(c) ==
    /\ pc[c] = "idle"
    /\ c \in Recoveries
    /\ lostReports
    /\ lostReports' = FALSE
    /\ recovering' = TRUE
    /\ Goto(c, IF recovering THEN "idle" ELSE "r_loop")
    /\ UNCHANGED <<state, device, flagVars, online, clients, configChanging,
                   ret, mine, uninit, threadVars>>

\* Some other task changed the state: the recovery is over.
RecoveryCheck(c) ==
    /\ pc[c] = "r_loop"
    /\ IF state \in {"DeviceLost", "Recovering"}
         THEN Goto(c, "r_mark") /\ UNCHANGED recovering
         ELSE Goto(c, "idle") /\ recovering' = FALSE
    /\ UNCHANGED <<state, device, flagVars, online, clients, configChanging,
                   lostReports, ret, mine, uninit, threadVars>>

RecoveryMark(c) ==
    /\ pc[c] = "r_mark"
    /\ state' = "Recovering"
    /\ Goto(c, "r_probe")
    /\ UNCHANGED <<device, flagVars, online, clients, configChanging,
                   recovering, lostReports, ret, mine, uninit, threadVars>>

\* After the delay the device is looked up and re-probed.
RecoveryProbe(c) ==
    /\ pc[c] = "r_probe"
    /\ pc' \in {[pc EXCEPT ![c] = "r_loop"], [pc EXCEPT ![c] = "r_restart"]}
    /\ UNCHANGED <<state, device, flagVars, online, clients, configChanging,
                   recovering, lostReports, ret, mine, uninit, threadVars>>

\* restart_capture clears direct_stop before it calls start().
RecoveryRestart(c) ==
    /\ pc[c] = "r_restart"
    /\ directStop' = FALSE
    /\ Goto(c, "r_start")
    /\ UNCHANGED <<state, device, directActive, directHandle, handleLock,
                   startLock, online, clients, configChanging, recovering,
                   lostReports, ret, mine, uninit, threadVars>>

\* The five polls of restart_capture; the last one may time out.
RecoveryWait(c) ==
    /\ pc[c] = "r_wait"
    /\ IF state \in {"Streaming", "NoSignal"}
         THEN Goto(c, "idle") /\ recovering' = FALSE
         ELSE Goto(c, "r_loop") /\ UNCHANGED recovering
    /\ UNCHANGED <<state, device, flagVars, online, clients, configChanging,
                   lostReports, ret, mine, uninit, threadVars>>

(***************************************************************************)
(* run_direct_capture                                                      *)
(***************************************************************************)

\* The set_state closure writes the shared state only when the thread's own
\* last_state differs.
SetState(t, new) ==
    /\ \/ last[t] # new /\ state' = new
       \/ last[t] = new /\ UNCHANGED state
       \/ new = "NoSignal" /\ state' = new   \* another of its variants
    /\ last' = [last EXCEPT ![t] = new]

At(t, label) == tpc[t] = label
Move(t, label) == tpc' = [tpc EXCEPT ![t] = label]

Bump(n) == IF n < RetryLimit THEN n + 1 ELSE n
BumpRestarts(t) == restarts' = [restarts EXCEPT ![t] = Bump(@)]

ShouldRetry(failed) == SourceFollowing \/ failed < RetryLimit

threadFrame == <<device, directStop, directHandle, handleLock, startLock,
                 clients, configChanging, recovering, taskVars>>

\* The checks at the head of 'session: a stop request, or no consumers now and
\* since an earlier pass, IDLE_STOP_DELAY_SECS ago.
SessionLeave(t) ==
    /\ At(t, "t_session")
    /\ directStop \/ (~clients /\ t \in lonely)
    /\ Move(t, "t_exit")
    /\ UNCHANGED <<state, directActive, online, lostReports, last, signal,
                   since, lonely, soft, restarts, threadFrame>>

SessionProceed(t) ==
    /\ At(t, "t_session")
    /\ ~directStop
    /\ Move(t, "t_open")
    /\ lonely' = IF clients THEN lonely \ {t} ELSE lonely \cup {t}
    /\ UNCHANGED <<state, directActive, online, lostReports, last, signal,
                   since, soft, restarts, threadFrame>>

\* The pre-STREAMON gate of a CSI bridge that reports no signal.
SessionGate(t) ==
    /\ At(t, "t_session")
    /\ ~directStop
    /\ SourceFollowing
    /\ online' = FALSE
    /\ SetState(t, "NoSignal")
    /\ BumpRestarts(t)
    /\ lonely' = IF clients THEN lonely \ {t} ELSE lonely \cup {t}
    /\ UNCHANGED <<directActive, lostReports, tpc, signal, since, soft,
                   threadFrame>>

\* Stop request between two attempts: the thread clears direct_active and ends.
OpenStopped(t) ==
    /\ At(t, "t_open")
    /\ directStop
    /\ directActive' = FALSE
    /\ ResetThread(t, "free")
    /\ UNCHANGED <<state, online, lostReports, threadFrame>>

\* A stream re-opened in a no-signal state starts without a signal.
OpenOk(t) ==
    /\ At(t, "t_open")
    /\ ~directStop
    /\ Move(t, "t_capture")
    /\ signal' = IF state = "NoSignal" THEN signal \ {t} ELSE signal \cup {t}
    /\ since' = since \ {t}
    /\ soft' = soft \ {t}
    /\ UNCHANGED <<state, directActive, online, lostReports, last, lonely,
                   restarts, threadFrame>>

\* The DV-timings probe of a bridge finds no signal.
OpenNoSignal(t) ==
    /\ At(t, "t_open")
    /\ ~directStop
    /\ SourceFollowing
    /\ online' = FALSE
    /\ SetState(t, "NoSignal")
    /\ Move(t, "t_openfail")
    /\ UNCHANGED <<directActive, lostReports, signal, since, lonely, soft,
                   restarts, threadFrame>>

\* Busy on every attempt, or any other open error.
OpenError(t) ==
    /\ At(t, "t_open")
    /\ ~directStop
    /\ Move(t, "t_openfail")
    /\ UNCHANGED <<state, directActive, online, lostReports, last, signal,
                   since, lonely, soft, restarts, threadFrame>>

\* The failure is judged by the shared state, not by the error at hand.
OpenFailed(t) ==
    /\ At(t, "t_openfail")
    /\ \/ /\ state # "NoSignal"
          /\ online' = FALSE
          /\ SetState(t, "Error")
          /\ Move(t, "t_exit")
          /\ UNCHANGED restarts
       \/ /\ state = "NoSignal"
          /\ ShouldRetry(restarts[t] + 1)
          /\ BumpRestarts(t)
          /\ Move(t, "t_session")
          /\ UNCHANGED <<state, online, last>>
       \/ /\ state = "NoSignal"
          /\ ~ShouldRetry(restarts[t] + 1)
          /\ SetState(t, "Error")
          /\ Move(t, "t_exit")
          /\ UNCHANGED <<online, restarts>>
    /\ UNCHANGED <<directActive, lostReports, signal, since, lonely, soft,
                   threadFrame>>

\* Mutant: the capture loop does not look at direct_stop.
CaptureStopped_Ignored(t) ==
    /\ At(t, "t_capture")
    /\ directStop
    /\ UNCHANGED vars

CaptureStopped(t) ==
    /\ At(t, "t_capture")
    /\ directStop
    /\ Move(t, "t_after")
    /\ UNCHANGED <<state, directActive, online, lostReports, last, signal,
                   since, lonely, soft, restarts, threadFrame>>

\* No consumer for IDLE_STOP_DELAY_SECS.
CaptureIdle(t) ==
    /\ At(t, "t_capture")
    /\ ~directStop
    /\ ~clients
    /\ online' = FALSE
    /\ SetState(t, "Ready")
    /\ Move(t, "t_after")
    /\ UNCHANGED <<directActive, lostReports, signal, since, lonely, soft,
                   restarts, threadFrame>>

\* A frame: the first one after a loss publishes Streaming again.
CaptureFrame(t) ==
    /\ At(t, "t_capture")
    /\ ~directStop
    /\ online' = TRUE
    /\ \/ t \in signal /\ UNCHANGED <<state, last, signal, since, restarts>>
       \/ /\ t \notin signal
          /\ SetState(t, "Streaming")
          /\ signal' = signal \cup {t}
          /\ since' = since \ {t}
          /\ restarts' = [restarts EXCEPT ![t] = 0]
    /\ UNCHANGED <<directActive, lostReports, tpc, lonely, soft, threadFrame>>

\* DQBUF timed out: the first time the loss is recorded, later, and only if it
\* was recorded on this open stream, the stream is soft-restarted.
CaptureTimeout(t) ==
    /\ At(t, "t_capture")
    /\ ~directStop
    /\ \/ /\ t \in signal
          /\ online' = FALSE
          /\ SetState(t, "NoSignal")
          /\ signal' = signal \ {t}
          /\ since' = since \cup {t}
          /\ UNCHANGED <<tpc, soft>>
       \/ /\ t \notin signal /\ t \in since
          /\ Move(t, "t_after")
          /\ soft' = soft \cup {t}
          /\ UNCHANGED <<state, online, last, signal, since>>
    /\ UNCHANGED <<directActive, lostReports, lonely, restarts, threadFrame>>

\* SOURCE_CHANGE or a transient I/O error: soft restart.
CaptureTransient(t) ==
    /\ At(t, "t_capture")
    /\ ~directStop
    /\ online' = FALSE
    /\ SetState(t, "NoSignal")
    /\ Move(t, "t_after")
    /\ soft' = soft \cup {t}
    /\ UNCHANGED <<directActive, lostReports, signal, since, lonely, restarts,
                   threadFrame>>

\* ENODEV and the like: the recovery is spawned, the thread ends.
CaptureDeviceLost(t) ==
    /\ At(t, "t_capture")
    /\ ~directStop
    /\ Recoveries # {}
    /\ online' = FALSE
    /\ lostReports' = TRUE
    /\ SetState(t, "DeviceLost")
    /\ Move(t, "t_after")
    /\ UNCHANGED <<directActive, signal, since, lonely, soft, restarts,
                   threadFrame>>

\* The stream is dropped; a soft restart re-enters 'session.
AfterCapture(t) ==
    /\ At(t, "t_after")
    /\ \/ /\ directStop \/ t \notin soft
          /\ Move(t, "t_exit")
          /\ UNCHANGED <<restarts, soft>>
       \/ /\ ~directStop /\ t \in soft
          /\ Move(t, "t_session")
          /\ BumpRestarts(t)
          /\ soft' = soft \ {t}
    /\ UNCHANGED <<state, directActive, online, lostReports, last, signal,
                   since, lonely, threadFrame>>

ThreadExit(t) ==
    /\ At(t, "t_exit")
    /\ directActive' = FALSE
    /\ ResetThread(t, "free")
    /\ UNCHANGED <<state, online, lostReports, threadFrame>>

(***************************************************************************)
(* Clients of the MJPEG handler come and go.                               *)
(***************************************************************************)
ClientsChange ==
    /\ clients' = ~clients
    /\ UNCHANGED <<state, device, flagVars, online, configChanging,
                   recovering, lostReports, taskVars, threadVars>>

StartSteps(c) ==
    \/ StartCall(c) \/ StartCheckState(c) \/ StartCheckActive(c) \/ StartInit(c)
    \/ StartClearStop(c) \/ StartSpawn(c) \/ StartStoreHandle(c)
    \/ StartSetState(c)

StopSteps(c) ==
    \/ StopCall(c) \/ StopSetFlag(c) \/ StopTakeHandle(c) \/ StopJoin(c)
    \/ StopClearActive(c) \/ StopSetState(c)

ApplySteps(c) ==
    \/ ApplyCall(c) \/ ApplySetBusy(c) \/ ApplyReject(c) \/ ApplyDisconnect(c)
    \/ ApplyStop(c) \/ ApplyConfig(c)

RecoverySteps(c) ==
    \/ RecoveryBegin(c) \/ RecoveryCheck(c) \/ RecoveryMark(c)
    \/ RecoveryProbe(c) \/ RecoveryRestart(c) \/ RecoveryWait(c)

TaskSteps(c) ==
    StartSteps(c) \/ StopSteps(c) \/ ApplySteps(c) \/ RecoverySteps(c)

ThreadSteps(t) ==
    \/ SessionLeave(t) \/ SessionProceed(t) \/ SessionGate(t)
    \/ OpenStopped(t) \/ OpenOk(t) \/ OpenNoSignal(t) \/ OpenError(t)
    \/ OpenFailed(t) \/ CaptureStopped(t) \/ CaptureIdle(t) \/ CaptureFrame(t)
    \/ CaptureTimeout(t) \/ CaptureTransient(t) \/ CaptureDeviceLost(t)
    \/ AfterCapture(t) \/ ThreadExit(t)

Next ==
    \/ \E c \in Tasks : TaskSteps(c)
    \/ \E t \in Threads : ThreadSteps(t)
    \/ ClientsChange

Spec == Init /\ [][Next]_vars

\* A call that has begun goes on, a capture thread is scheduled; nobody is
\* obliged to begin a call, and no client to come or go.
FairSpec ==
    /\ Spec
    /\ \A c \in Tasks : WF_vars(pc[c] # "idle" /\ TaskSteps(c))
    /\ \A t \in Threads : WF_vars(ThreadSteps(t))

(***************************************************************************)
(* Properties                                                              *)
(***************************************************************************)

Alive(t) == tpc[t] \in Running

\* start() never puts a second capture thread beside a running one: they would
\* contend for the same video node.
AtMostOneCapture ==
    \A t, u \in Threads : Alive(t) /\ Alive(u) => t = u

\* stop() can join every running capture thread: its handle is in
\* direct_handle, or on its way there, or held by a stop() that joins it.
CaptureIsJoinable ==
    \A t \in Threads :
        Alive(t) => t = directHandle \/ \E c \in Tasks : mine[c] = t

\* recovery_in_progress admits one recovery task, however many threads report
\* a lost device.
RecoveryExclusive ==
    \A c, d \in Recoveries : pc[c] # "idle" /\ pc[d] # "idle" => c = d

\* When stop() returns, the capture thread has released the device.
StopReleasesDevice ==
    [][\A c \in Tasks : pc[c] = "x_state" /\ pc'[c] # "x_state"
          => \A t \in Threads : ~Alive(t)]_vars

\* stop() returns: the capture thread it awaits sees the request.
StopReturns ==
    \A c \in Tasks : pc[c] = "x_join" ~> pc[c] # "x_join"
=============================================================================
