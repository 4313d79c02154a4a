# A TLA+ verification of One-KVM

One-KVM turns a small Linux board into a remote keyboard, screen and mouse: it
captures HDMI video and audio, plays a USB keyboard, mouse and mass-storage
device to the controlled machine, and serves all of it to browsers, RustDesk,
VNC and RTSP clients. The program is one Rust process on tokio; its difficulty
lies less in any algorithm than in what its tasks, blocking threads and
callbacks do to each other and to devices that tolerate one user at a time.

This directory models the parts of the program that keep state, checks them with
TLC on small instances and proves, with TLAPS and for every instance, the safety
properties of the video and media core, of the board, of remote access, of sessions
and of the devices that come and go. Source paths below are relative to the
repository's crate; `streamer.rs:642` means line 642 of the file named before it.

## 1. Inventory

| Part | State it keeps | Operations that change it | Modelled in |
|---|---|---|---|
| Capture lifecycle, `src/video/streamer.rs`, `recovery.rs` | `StreamerState`, `direct_stop`, `direct_active`, `direct_handle`, `start_lock`, `recovery_in_progress`; per thread: signal, retry counters | `start`, `stop`, `apply_video_config`, the capture thread, the recovery task | `Streamer` |
| Shared pipeline, `src/video/pipeline/shared.rs`, `src/webrtc/webrtc_streamer.rs` | the stored pipeline and its lock, running flags, capture and encoder threads, sessions, subscribers | sessions come and go, codec, bitrate, backend and geometry changes, release, monitor, recovery | `SharedPipeline`, `VideoDevice` |
| Stream manager, `src/video/stream_manager.rs`, `codec_constraints.rs` | `mode`, `switching`, `transition_id` | `switch_mode_transaction` and its task, `start`, `stop`, codec lock | `ModeSwitch` |
| Configuration store, `src/config/store.rs` | the cached and stored configuration | `get`, `set`, `update` | in its users: `ModeSwitch`, `ThirdParty`, `HostWatchdog`, `Extensions` |
| Virtual media, `src/msd/controller.rs`, `src/otg/service.rs` | media per LUN, disk mode, desired gadget, health | mount, unmount, delete, disk mode switch, USB update and its rollback, rebuild | `VirtualMedia` |
| Gadget tree, `src/otg/manager.rs`, `hid.rs`, `msd.rs`, `network.rs`, `uac.rs` | directories and links in configfs, HID minors | build, bind, unbind, clean up, each step of them | `GadgetTree` |
| Network bridge, `src/otg/bridge.rs` | profiles, uplink, journal | activate, roll back, recover at boot | `NetBridge` |
| Images and downloads, `src/msd/image.rs`, `ventoy_drive.rs`, `src/web/handlers/msd_api.rs` | files, jobs, slots | upload, download, cancel, delete, insert | `MediaStore`, `DriveStream` |
| The drive's volume, `libs/ventoy-img-rs/src/exfat/` | clusters, FAT, bitmap, directories, dirty mark | write, make directory, delete, write by write | `DriveVolume` |
| HID, `src/hid/` | backend, bounded event queue, pending move, availability, serial port | events, reload, reset, workers | `HidQueue`, `Ch9329Worker` |
| Login, `src/auth/`, account and set-up handlers | users, sessions, challenges, secrets, failure counters | set-up, login, second factor, enrolment, logout, expiry | `Login` |
| Extensions, `src/extensions/` | table of processes, their directories | start, stop, status, health check | `Extensions` |
| Audio, `src/audio/` | streamer, configuration, recovery generation, ALSA handle | start, stop, configure, recovery | `AudioRecovery` |
| USB audio, `src/audio/uac/`, `src/web/uac_ws.rs` | the playing session, the PCM | session, frames, stop, rebuild | `UacPlayback` |
| Capture devices, `src/video/capture/linux.rs`, `src/video/device/` | the stream and its mode, buffers; the list of devices | open, read, check; listing, recovery by hint | `CaptureV4l2`, `DeviceProbe`; the search for the bridge in `VideoData` |
| Choice of an encoder, `src/video/codec/registry.rs`, `self_check.rs`, `src/video/pipeline/shared.rs` | table of encoders, the pipeline's codec, its key-frame request | probe, choose, open, feed, rebuild | `VideoEncoder` |
| Video data, `src/video/codec/h264_bitstream.rs`, `src/webrtc/h265_payloader.rs` | held-back parameter sets, sequence numbers | scanning, payloading | `VideoData` |
| MJPEG clients, `src/stream/mjpeg.rs`, `src/web/handlers/stream.rs` | the newest frame, its bell, clients under their ids with a generation | frames, connect, send, disconnect, clean-up of stale ids | `MjpegClients` |
| Event bus, `src/events/mod.rs`, `src/state.rs`, `src/web/ws.rs` | channels per topic, the latest stream state, the watch of device information, sockets | change, publish, broadcast, subscribe, deliver | `EventHub` |
| Browser session, `src/webrtc/universal_session.rs`, `video_track.rs` | receivers, last frame, cached sets | connect, frames, reconnect, close | `PeerSession` |
| RustDesk, `src/rustdesk/` | status, registration, connections, keys and nonces | start, stop, register, handshake, login, stream | `RustDeskService`, `RustDeskPeer` |
| RTSP and VNC, `src/rtsp/`, `src/vnc/` | places, RFB state, time stamps | accept, play, update, leave | `RemoteSlots`, `RfbSession` |
| Service handlers, `src/web/handlers/config/` | apply locks, codec lock | update, start, stop, roll back | `ThirdParty`, `HostWatchdog`; USB in `VirtualMedia` |
| Computer use, `src/computer_use/` | session, status, task, held keys | start, stop, the task's loop | `ComputerUse` |
| ATX and wake-on-LAN, `src/atx/` | levels of the buttons, history | press, reload, shut down; wake | `AtxPower` |
| Watchdog, `src/watchdog/` | the device, the worker | enable, feed, disable | `HostWatchdog` |
| Process life and self update, `src/main.rs`, `src/update/` | the binary, parts that are up, restart channel | boot, upgrade, restart, clean up | `ProcessLife` |
| Web server, frontend, Redfish routing, diagnostics, vendored code | | | not modelled, section 9 |

### How the parts interact

`VideoStreamManager` owns the choice between two capture paths and calls both:
`Streamer` (MJPEG) and `WebRtcStreamer` (H.264 and others). Both open the same
video node, which has one user at a time. A switch stops one path, sets the
mode, starts the other, stores the mode in the configuration and publishes
events. Handlers for start, stop, sessions and codec locks call the same objects
without going through the switch. The remote-access services subscribe to
encoded frames of the shared pipeline and may force a codec, hence a mode.

`MsdController` writes media into the LUNs of a gadget that `OtgService` builds
for HID, network, audio and storage together. A change to any of these rebuilds
the gadget, so a USB configuration update passes under the feet of the
controller. `usb_update.rs` applies an update to the OTG service, restarts the
components concerned, stores the configuration, and undoes it all on failure.

The other parts meet through the configuration and the handlers: a handler takes
the apply lock of its domain, stores the new configuration, calls the part and
undoes both on failure. `main.rs` brings the parts up in one order, takes them
down in another, and restarts extensions from a periodic check.

### What is hard

* Two handlers, or a handler and a thread, take steps in an order nobody wrote
  down: a `stop` beside a `start`, a session beside a release, a mount beside a
  rebuild.
* A value is read, an `await` passes, and the value is used: the mode, the codec,
  the stored pipeline, a copied configuration.
* A step of several fails, and the undoing fails as well: mode switch, disk mode
  switch, USB update.
* Blocking threads must see a flag; tasks wait for threads while holding a lock.
* A browser disconnects and axum drops the handler's future at an `await`.
* The process dies, or a system call fails, between two steps that belong together:
  configfs, NetworkManager profiles, an exFAT volume, an upgrade of the binary.
* Datagrams, screenshots and frames arrive late, twice or never.

`PROJECT.json` lists the most important of these at their lines under `hazards`,
each with the properties that watch it; section 7 has the rest.

### What makes each part correct

* Capture lifecycle: one capture thread; `stop` can always join it and returns
  with the device free; one recovery task.
* Shared pipeline: one user of the device; release means released; an unused
  pipeline stops; no reconfiguration hangs.
* Stream manager: one transaction at a time, which ends; what it announces and
  stores is the mode in force; the old path is off.
* Virtual media: list, LUNs, disk mode and gadget agree after any failures; a
  healthy service runs the stored configuration.
* Input: a key that is down comes up again, the newest move arrives, and the
  published availability is that of the backend.
* What survives the process: an attempt after a clean one works, an uplink can be
  given back, a volume marked clean is sound, a binary is whole.
* What follows a device or a peer: it comes back by itself, or comes to rest.
* Viewers: capture runs as long as somebody is counted and no longer, whoever is
  counted sees the newest picture, and a socket comes to show the state in force.
* Services: a status tells the task behind it, what runs is what was stored, one
  client has one place, a stopped part leaves nothing running.

## 2. Modules

`X.tla` holds a component: constants with a named assumption, variables named
after the fields they stand for, one action per operation or per stretch of it
between two points of interference, the specification, and the properties.
`XProofs.tla` extends it with theorems. `MCX.tla` adds symmetry sets and constant
sets for TLC, and `MCX_run.cfg` holds one instance. `MCBoard`, `MCRemote`, `MCDevices`
and `MCSessions` each extend several components that share no state: `part`, chosen
in the initial state, says which one of them runs, so the state spaces add and do
not multiply, and one run asks the same kind of question of all. Names ending in an underscore
and a word, as `ConfigureLun_Busy`, are mutated forms of the definition that
follows them, used only to see that a property can fail.

**`Streamer`**. Each task and each capture thread has a control point. `StartCall`
to `StartSetState` are `start()` between its lock, its atomics and its awaits;
`StopCall` to `StopSetState` are `stop()`; `Apply...` is
`apply_video_config`; `Recovery...` is `start_device_recovery_internal`;
`Session...`, `Open...`, `Capture...`, `AfterCapture` and `ThreadExit` are the
loops of `run_direct_capture`. The six no-signal states of `StreamerState` are
one, since only their class is tested. Elapsed time is a step that may happen.
`no_signal_restart_count` is cut at `RetryLimit`, beyond which the code does not
tell values apart.

**`SharedPipeline`**. `op` names the operation of a task, `pc` its point.
`Ensure...` is `ensure_video_pipeline` with the write lock of `video_pipeline`
(`guard`) held across its wait; `Release...` is the release of the device with
its five-second time-out; `Idle...` is the stop of an unused pipeline;
`Capture...`, `EncoderDone` and `Monitor` are the threads and the monitor task;
`Snapshot`, `Attach` and `RecoveryTry` are reconnection and recovery. A
`SharedVideoPipeline` object is an element of `Pipelines`, reused once all trace
of it is gone. Frames, codecs and geometries are not there; what they lead to is
an outcome of the capture thread's turn.

**`VideoDevice`** is the abstract specification: a node that is opened when free
and closed by its user. `SharedPipeline!DeviceSpec` says that the pipelines
implement it; `holder`, the pipeline that uses or may still open the device, is
the refinement mapping.

**`ModeSwitch`**. Requests run the handlers (`StreamModeSet`, `Start`, `Stop`,
`CreateSession`, `EnforceConstraints`, `UpdateConfig` ...), transitions run the
task that `switch_mode_transaction` spawns (`StopOld`, `SetMode`, `StartNew`,
`GetConfig`, `SetConfig`, `Ready`, `ClearTransition`, `Free`). The two capture
paths are reduced to `mjpegOn` and `rtcOn`. A Streamer that loses its device
(`CaptureLost`) has a recovery task (`Recovery...`) that restarts the capture and asks
for no mode; `overrun` remembers that the last stop of the Streamer met one.
`Disconnect` drops a handler's future
at any of its awaits. `Calls` selects which calls are made, so that a property
that holds without some call can be stated with that restriction.

**`VirtualMedia`**. `config_apply_locks.otg` admits one task that rebuilds the
gadget, so there is one `job` with its `pc`: a USB update (`Update`), or a disk
mode switch (`Switch`), both through `Reconcile`, the rebuild by
`OtgService::reconcile_gadget`. Mounts, unmounts and deletions hold the
controller's locks from beginning to end and are one step each, between any two
steps of a rebuild. Every write to configfs may fail. `dir` stands for the part
of the storage configuration that a change of makes the controller reload, the
inquiry strings included; `files` is the media directory in force. A gadget whose
build failed half way has no manager, and what is left of it in configfs holds no
media. `fresh` and `abandoned` are history variables.

### The board and the controlled machine

**`HidQueue`**. `SendEvent` and its like are the handlers up to the queue with its 30 ms of
patience, the worker takes events and turns them into reports; the pending move is
stored and its flag raised in two steps, as in `enqueue_mouse_move`. Reload, reset
and the runtime worker replace and publish the backend. `KeyboardState` is the table of key slots the backend
keeps; `HeldAfter` is the reference: the keys that a sequence of events leaves down.
**`Ch9329Worker`** is the thread behind the serial backend: commands, packets that
are not answered, reconnection, `init` and `shutdown`. Its second half is the USB
descriptor of the chip: an update of the configuration (`UpdateUsbConfig`,
`ApplyRuntime`, `AskApply`, `Persist`) that has the worker write parameters and strings
one transfer at a time (`Transfer`, `ResetChip`), the undoing of it, and a read that
falls back on the stored descriptor. `MaxCdUpdates` updates and `MaxCdFaults` silences
of the chip are allowed; the line and the SET pin may change at any time. A third part
is the line itself: packets with header, length and checksum (`Frame`), the search for the
answer among leftovers of earlier ones, cut off or damaged (`TakeResponse`, `XferPacket`).

**`GadgetTree`** holds configfs as a set of nodes. Building and cleaning take nodes one by
one from a set, in the order that `MadeBefore` and `RemovedBefore` give; each step may
fail, and what the kernel refuses is external.
**`NetBridge`** is activation, rollback and recovery of the bridge with its journal;
every command may fail and the process may die after any of them.

**`AtxPower`** has one action per phase of a press on each kind of driver, clients
that leave in between, reload and shutdown, and beside it the insertion into and pruning of
the wake-on-LAN history. **`HostWatchdog`** counts seconds: the device resets the board
`WdTimeout` after it was last fed. **`ProcessLife`** is `main` from boot to cleanup with
the upgrade task and the restart channel beside it. **`Login`** runs requests of two
clients, each split at its tables' locks.

**`MediaStore`** has jobs (uploads, downloads, insertions) whose name is looked up
before the body and taken after it. A client that leaves ends an insertion at any of its
waits, also between the mount and the withdrawal of the alarm (`ClientLeaves`,
`WebMountCut`). **`DriveVolume`** models the exFAT volume write by
write: a transaction sets the dirty mark, changes FAT, bitmap, clusters and slots in
the order of `exfat/ops.rs`, and clears it; any write may fail or be the last before
a crash. It is the largest module, as `ops.rs` is the largest file. **`DriveStream`**
is a file on its way through `ChannelWriter` to a browser.

### Remote access

**`ThirdParty`** has the handlers of RustDesk, RTSP and VNC side by side, each under
its own apply lock, with the codec lock they put on the stream manager. `cfg` is the
configuration of a service object, `conn` the one its connections read: the same for
RTSP and VNC, for RustDesk the copy `ConnectionManager` took when the object was made.
`HandlerDropped` ends a handler at any await; a listener task whose handle goes with it
is `loose` and writes its status when it leaves. `tpLeft` names the services such a
handler left half stopped or started.
**`RustDeskService`** is start, stop and the registration over UDP, with datagrams
lost, doubled and reordered. `stop` waits in the request that asked for it: `StopDropped` is
the client that leaves meanwhile, with the handle that was waited on (`rsHeld`, `rsLost`),
and `rsOld` a mediator that such a stop left and a later start replaced. **`RustDeskPeer`** one connection with key exchange, login,
select loop, video and audio tasks. **`RemoteSlots`** admits RTSP and VNC clients and
stamps RTP packets; stamps are taken modulo `StampWidth`. **`RfbSession`** is one VNC
client with its watch channel. **`PeerSession`** is one browser: receivers, key frames,
parameter sets, reconnection, close.

**`MjpegClients`** is the capture thread that puts frames in one place and rings, and one
request per `MjConns` that takes the frame from there. The channel of one part between
a task and its body is merged with the body; a generation is represented by the
request it was drawn for; a sequence number by its relation to that of the current frame,
which keeps the case that two numberings meet. **`EventHub`** is the way of a change
from a component to a browser: publishers, the bus, the broadcaster that waits 100 ms
between snapshots, and the sockets, whose tasks are rebuilt at each subscription.

**`VideoData`** holds three algorithms as state machines, each with its reference. The
search for the bridge walks the media graph backwards, neighbours in any order that
respects their numbers (`InOrder`); the reference is distance along the links. The
scanners of `h264_bitstream.rs` are a loop each, and are compared with the units a
frame was made of (`Rest`, `Fit`, `LastOf`). The payloader of H.265 holds parameter
sets back, cuts units into loads of `HpMtu` and numbers packets modulo `HpSeqWidth`;
`Brings` and `Completes` say what a receiver has when the packets are put together.
**`UacPlayback`** is the
microphone of the browser on the gadget's PCM.

### Devices and tasks

**`CaptureV4l2`** is the capture stream on three kinds of hardware, the source changing
between any two system calls. **`DeviceProbe`** lists devices with a time limit per
probe and looks for a lost device by path, bus and names; a driver may hang, and a card may
come back under another path. The list is a set; the order the code sorts it in is `Ahead`,
and "the first of" a list is `Earliest`, one of those nothing is ahead of. **`VideoEncoder`** is the way from the encoders a machine has
to the first frame a browser can show: the registry (`AddSoftware` and its like), the
choice by backend and codec, what each encoder takes (`Opened`, and for the length
`FfmpegTakes` and `AmlogicTakes`), rows made tight, and a pipeline that is rebuilt when the source changes
while it waits for a key frame. **`AudioRecovery`** is the
controller under its operation lock with streamers, watchers and recovery by
generation token. A start spawns the capture thread (`OpenInner`), waits for it up to two
seconds (`StreamerOpened`) and installs the streamer; `GivenUp` is the client that leaves
at any await of an operation, lock and all. **`Extensions`** is the table of processes with the two lock sections
of a start. **`ComputerUse`** is the session, its task and the two stop channels.

## 3. Runs

| Run | Instance | Question |
|---|---|---|
| `streamer_start` | two starters, two recovery tasks, three threads | do concurrent starts and recoveries ever double the capture thread, lose its handle or the exclusion of recovery |
| `streamer_control` | one controller that starts, stops and reconfigures; two threads; fair | does `stop` return, and with the device free |
| `streamer_race` (violation) | a starter and a stopper | the same with `stop` beside `start` |
| `pipeline_share` | a browser that may vanish, a helper task, two pipelines; fair | is the device exclusive, and does an unused pipeline stop |
| `pipeline_control` | a controller and an external consumer; fair | does release free the device, does every reconfiguration end, is `VideoDevice` implemented |
| `mode_switch` | two requests, two transitions, one foreign update; a device that is lost and recovered | exclusion, truthful events, stored mode, no MJPEG capture in WebRTC mode |
| `mode_ends` | two requests, one transition; switches, starts, reconfiguration, codec locks and sessions, but no disconnection; fair | does every accepted switch end |
| `msd_media` | one image, the drive, two LUNs, four configurations, everything may fail | do list, LUNs, mode, gadget and configuration stay in step |
| `board` | nine parts, each alone | is the board, and the machine it controls, left in order by failing steps, crashes, reloads and clients that leave |
| `remote_access` | nine parts, each alone | do services, their clients, the data they exchange and the files of the drive stay consistent |
| `devices` | eight parts, each alone, fair | do the parts that follow a device, a process or a client leave nothing behind, and come back or come to rest |
| `sessions` | five parts, each alone, fair | the same for registration, computer use, and the browser's peer connection, MJPEG stream and event socket, with messages lost and late |

A property of the last four runs is the promise of one component, or of a few that
belong together, as a conjunction of named parts. In `devices` and `sessions` what must
hold in every state (`...Safe`) is apart from what must happen (`...Promise`):

| Promise | What it says |
|---|---|
| `HidPromise` | `HostFollowsClients` (quiet and nothing refused, the host holds the keys its clients hold), `NewestMoveKept`, `AvailabilityAgrees` |
| `UsbPromise` | `NextAttemptWorks`, `ActiveIsBuilt`, `HidPathsRight`; `UplinkCanComeBack`, `ProfilesAccounted`, `RuntimeIsJournaled` |
| `PowerPromise` | `DownIsPressed`, `ConfiguredWorks`; `HistoryKeepsNewest` |
| `LifePromise` | `BoardStaysUp`, `ArmedIsFed`, `StoredIsApplied`; `BinaryIsWhole`, `ProvidersOutliveUsers`, `RestartingMeansInstalled` |
| `LoginPromise` | `OneUserIsSetUp`, `ChallengeUsedOnce`, `LoginLeavesOneSession`, `CredentialStays` |
| `StorePromise` | `ImagesAreWhole`, `MountedKeepsFile`, `EndedIsForgotten`, `SuccessClearsAlarm`, `SlotsHold` |
| `DrivePromise` | `CleanIsSound` (a volume marked clean has no cross-linked, lost or dangling clusters), `DoesWhatIsAsked` |
| `ThirdPartyPromise` | `StatusTellsTheTask`, `RunsAsStored` |
| `UacPromise` | `SilentUntilRead`, `StopLeavesOnlyDrops` |
| `VideoDataPromise` | `BridgeFeedsNode`, `BridgeIsNearest`, `NoBridgeMissed`; `ScannersAgree`; `UnitsComeBack`, `PacketsFit`, `NumbersFollow` |
| `RustDeskPeerPromise` | `InputNeedsLogin`, `StreamsEndWithTask`, `NonceNeverReused` |
| `ClientsPromise` | `AnswersFit`, `FullMeansKey`, `ButtonsFollow`; `OneClientServed`, `VncPlaceComesBack`, `StampsDiffer` |
| `SerialSafe` | `StoppedIsOffline`, `StoppedHoldsNoKey`; of the descriptor `StoredIsOnChip`, `FailedUpdateUndone`, `ShownIsStored` |
| `AudioSafe` | `NoOrphanCapture`, `StoppedStaysStopped`, `HealthyWhileStreaming` |
| `VideoInputSafe` | `NoStreamWithoutSignal`, `FramesFit`, `HealthyStreamKept`; `RecoveryFindsDevice`, `WireFormatAsked`, `OfferedWorks`; `AutomaticWorks`, `FedAsTaken`, `KeyComesFirst`, `OneChip` |
| `TasksSafe` | `NoStrayProcess`, `NoStrayConfig`; `StreamIsWhole` |
| `BytesSafe` | `AnswerFound`, `DamagedNotTaken`, `RowsTile`: over all the inputs of the instance |
| `DevicesPromise` | `RequestsAnswered`, `UpdateEnds`, `DeadPortShows`, `AudioComesBack`, `StaleModeNoticed`, `ListingEnds`, `EnabledComesBack`, `ThreadGoesToo` |
| `SessionsSafe` | `StoppedLeavesNothing`, `SilenceShows`; `ActsOnFreshScreen`; `PictureNeverBroken`, `KeysCarrySets`; `CountedIsAlive`; `HeardOnce` |
| `PlaceIsKept` | a request is not pushed out of its place by the end of an older one |
| `SessionsPromise` | `NoKeyLeftDown` in every state; `StopComesToRest`, `RegistersInTheEnd`, `PictureComesBack`, `CloseEndsReceivers`, `PictureArrives`, `LeaverIsForgotten`, `InfoArrives`, `StateArrives` |

`streamer_race` shows a disagreement between the code and its own words: `stop()`
does not take `start_lock`. Running beside a `start()` that has spawned its thread
and not stored the handle, it joins nothing and clears `direct_active`; the next
`start()` spawns a second capture thread. `findings` in `PROJECT.json` quotes the line.
The other disagreements that the models show are in section 7.

### Why the bounds are enough

The races concern pairs: two callers, a caller and a thread, an old object and its
successor. Each instance has two of what competes and a third where a third can
see the leftovers of the first two (threads in `streamer_start`, streamers of audio,
presses on a button). Two LUNs are the least capacity at which modes differ,
selection has a choice and one medium may be restored while another fails; the
configurations of `MCConfigs` differ in the ways the code tells apart. Limits are
taken small enough to be met: a queue of one, two key slots, two failures before a
challenge is dropped, two history entries for four addresses, time stamps modulo
three, fragments at 20 bytes for units of 18, 34 and 35. `RetryLimit` has a first, a
last and no further retry. Sequence numbers of H.265 are counted modulo 16, more
than the packets of a behaviour, and start at zero or just below the wrap.

`Max...Faults` is 1 where one failure and its undoing are the question and 2 where
the undoing may fail too (gadget, bridge, ATX, upgrade, audio). `MaxTpFaults`,
`MaxMsFaults` and `MaxRsFaults` also count the clients that leave. `MaxRsOps` is 4: a start, a stop that is
given up, a stop or start on what it left, and one more. `Max...Ops`, `Reqs`,
`Steps`, `Events` bound the calls from outside; they are large enough for an
operation, a competing one, and what comes after. The volume of `DriveVolume` has
seven clusters, three slots each and names of one slot or of a whole cluster: a file, a directory
and one extension of it use all of them, so that running out of space in the middle
happens. `MCInit` of `sessions` starts MJPEG either with one request and events, or with
two requests of one browser that compete for its place (`OneReads`, `BothCompete`), and
the event bus either with one publisher and a client that subscribes twice, or with two
publishers (`AsksTwice`, `TwoPublish`): the combinations add nothing that a pair does not
show. `DeviceProbe` has three paths for two cards of one name, so a card can move
while the other keeps its place. The encoder is run on four machines (two with
graphics cards, one of which swallows frames before it answers, one with RKMPP, an
Amlogic board) with seven configurations, one per
codec and backend that the code tells apart, five formats of the source and two
pipelines, of which one is built while the other is being let go of.

Symmetry is used in `streamer_start` and `mode_switch` (`Interchanged`), where no liveness is checked. The proofs remove the bounds for
the safety properties they are about.

### Fairness

* `Streamer`: weak fairness of every call once it has begun and of every thread:
  tokio polls ready tasks, the operating system schedules threads. Nobody is
  obliged to call, nor a client to come or go.
* `SharedPipeline`: weak fairness of threads; strong fairness of tasks and of the
  monitor, because tokio's `RwLock` and `Mutex` are fair queues: a waiter that is
  overtaken for ever does not exist. Requests, lost devices and the success of a
  recovery are not assumed.
* `ModeSwitch`: weak fairness of a request that has begun and of the switch task;
  every await in them has a time-out of its own (the ones of the pipeline release)
  or is a lock held for a moment. Disconnection is never assumed; `mode_ends` is run
  without it, since a handler dropped at the wrong moment blocks switching (section 7).
* In `devices` and `sessions`, `XTurn(i)` are the steps that go on by themselves (a
  task that is ready, a timer, a thread) under weak fairness, `XPatient(i)` those that
  wait for a lock or a timer again and again, under strong fairness: the periodic
  check of a capture stream, the health check of extensions and its spawn. Calls,
  faults, and the return of a device are never assumed.
* `MjpegClients`: the capture thread delivers while it runs, tasks that can go on do, and
  time passes for a client that left; a browser may stop reading for good, so
  `PictureArrives` is about one that reads on. `EventHub`: publishers finish what they
  began, tasks go on and the 100 ms pass; a client need not ask for anything. Where a
  promise is about a state at rest it has the form `<>[]A => <>[]B`, and "again and
  again" is `[]<>`.
* `PeerSession` assumes that the encoder answers a request for a key frame before the
  next retry, and that at most `MaxLostKeys` key frames meet a full queue.
  `DriveStream` assumes nothing but its thread. `DeviceProbe` assumes only the time
  limits, not that a driver answers. `RustDeskService` assumes that of the registrations
  sent for ever some arrive once the bounded faults are used up.

The deadlock check is off in the last four runs: a part that has used up the bound of
its calls comes to rest, which is not a fault there. It is on in all others.

## 4. Proofs

Each theorem is proved from the named assumption on the constants of its module
and nothing else. Sets of tasks, threads, pipelines, requests and media are
arbitrary; the capacity is any number above one.

**`StreamerProofs`**. `TypeCorrect`. `RecoveryIsExclusive` rests on `RecoveryInv`:
while a recovery task runs, `recovery_in_progress` is set, and nothing but a
recovery task is in the loop. `StartNeverDoublesCapture` and `StartKeepsJoinable`
hold under `NoStop` (nobody calls `stop` or reconfigures; `streamer_race` shows
why that is needed) and rest on `CaptureInv`: between the lock and the return of
`start` its caller owns `start_lock`; a thread that is not gone is the only one
and `direct_active` is set; from the check of that flag to the spawn there is none;
its handle is stored or on its way. `AtMostOneCapture` alone is not inductive,
because it says nothing about a caller that has passed the check.

**`SharedPipelineProofs`**. `DeviceIsExclusive` rests on `LockInv`: a task between
the check of the old pipeline and the store of the new one holds the write lock,
finds no pipeline stored, and whatever uses the device is the stored pipeline or the
one its holder is about to store. `ReleaseIsComplete` proves the action property
from the same invariant. `PipelineImplementsDevice` proves the refinement: of two
successive holders one is `Nobody`.

**`ModeSwitchProofs`**. `SwitchIsExclusive` adds that a request between the
`compare_exchange` and the spawn holds `switching`. `ReadyIsTrue` assumes that no
codec is changed (`recode`): the task that announces a codec switch reports the
mode it read earlier. `ModeIsPersisted` assumes that no client stores a mode itself
(`patch`). `CaptureIsStopped` assumes that nothing but a switch starts the streamer
(`start`, `apply` not called; section 7 says why) and lets devices get lost and come
back. Its invariant makes the
point a reviewer would ask about: the old mode is read before the right to switch
is won, yet a task on its way to WebRTC has always stopped MJPEG capture, and where
that stop met no recovery task there is none behind it (`Quiet`).

**`VirtualMediaProofs`**. `JobInv` ties the control point to the task at work.
`HealthyInv` follows what the service wants through an update and its rollback.
`ModeInv` follows the capacity through a switch: `Forward` and `Backward` say which
of the two modes, or none, each of gadget, desired state and controller has, and
`SwitchRebuilds` that a switch never mistakes the old gadget for the new one.
`ExposedInv` and `MountedInv` relate LUNs and list. The helper `ConfigureLun` is
kept folded behind the lemma `LunConfigured`.

**`BoardProofs`** has an inductive invariant for each part of `MCBoard`; since only the
part that was chosen steps, each one holds in every behaviour of `MCSpec`, for every
value of the constants under the assumption of its module.

* `PowerIsKept`: a press holds a key that has an executor (`AtxInv`), because a reload
  waits for it. `WolInv` remembers what was sent: the table is the newest part of it.
* `BoardLives`: `WdFed` keeps room in the device's timeout for the keepalives that may
  still fail (`WdMargin`), which is what `WdAssumption` asks of the timeout; `WdApplied`
  says at each point of a request what is stored and what runs. `PlInv` says which parts
  are down at each step of the cleanup (`Stopped`), from the two lists of `main.rs`.
* `InputArrives`: the clients hold what the queue and the waiting senders will make of
  the backend's keys (`HidFlow`), the host has what the backend last wrote (`HidHost`).
  Both are false from the first event or report that is lost, which `eventGap` and
  `reportGap` record. The lemmas about `HeldAfter` take its first and last event off.
* `UsbKeepsItsWord`: `GtCleans` says that an attempt that met nothing wrong has all of
  the tree on its list, `GtBuilds` that what is there and what is left to make add up to
  the configuration. `GtAssumption` asks that functions are distinct and the second HID
  function comes after the first, as `reconcile_gadget` lists them. For the bridge
  `NbOwns` names the one owner of the journal.
* `LoginKeepsItsWord`: a challenge that was used is below the next number and is not
  the open one (`LgChallenges`); Redfish is noted before it opens a session.
* `StoreKeepsItsWord`: `MsOne` ties a request to its file and its entry, `MsSlots` a slot
  to the file mounted there. `MsAssumption` asks that names of requests' temporary files
  are not those of images: the code gives them a prefix and a UUID. That a success clears
the alarm is inductive as it stands: a mount that has not come to `report_recovered` is
still `mounted`, or its client has left and the last mount is marked `cut`.

**`RemoteProofs`** does the same for five promises of `MCRemote`, the fifth of them
about data.

* `ServicesKeepTheirWord`: `TpOne` says for each point of a handler how status, task and
  handle fit together unless a handler was dropped there (`TpTask`), and which of stored,
  new, running and served configuration agree (`TpRuns`). The services are independent, so it is proved of
  one service with its variables as parameters.
* `PlaybackKeepsItsWord`: generations before the newest are stopped and empty
  (`UaOrder`), and a session at work has its place or is being closed (`UaPlaces`).
* `RustDeskPeerKeepsItsWord`: the counter of sealed frames is never behind a number
  used under any key (`PeSeal`), so starting again at zero is the one thing that could
  repeat a nonce; the active state needs a login (`PeRights`).
* `ClientsKeepTheirWord`: the client served has the place (`SlPlace`), and the counter of
  VNC clients misses none unless a guard of an earlier run was dropped late (`SlCounts`).
  A viewer that waits for nothing has no request in the socket's buffer (`VnAsked`), and
  the client's record fits the viewer (`Fits`), which makes each frame that is sent fit.

* `VideoDataKeepsItsWord` proves the three algorithms of `VideoData` against their
  references for every graph, stream and length. The search keeps its queue in the order
  of distance, spanning one link at most (`BgOrdered`, `BgNear`), as in the textbook. Each
  scanner stands behind some unit with what the units before bring (`BsInv`);
  `BsAssumption` asks what H.264 guarantees, that a unit holds no start code and neither
  begins nor ends in zero. For H.265 `Book` relates units sent, sets held back and loads
  written: in order, each once, each slice a span of loads from a first to a last
  fragment. `HpAssumption` asks that packets are fewer than numbers, and an MTU above the
  header of a fragment. The definitions of the community modules these steps rest on are
  recursive functions; the facts about them are proved by induction in set form:
  `NatsFollow` from the least element of a set of numbers, `RecursionWorks` for a function
  over `0..n`.
* `DriveWritesAreMarked`: of one writer with any names, requests and sizes, on a volume of
  any geometry. Whatever fails or is cut short, bitmap, FAT and directories are written
  under the dirty mark only, and the mark goes with the last step of the operation that
  set it or with a new image. This is why a volume left half done is never marked clean;
  that the one marked clean is sound (`CleanIsSound`) is model-checked. The hypothesis is
  needed: with two writers the first to commit clears the mark of the second
  (section 7), and the code excludes neither.

**`SessionProofs`** covers the five parts of `MCSessions`. `SessionsKeepSafe` states all of
their safety in one theorem, `PlacesAreKept` the action property.

* RustDesk (`RsInv`): a task that runs has its handle held by the service, waited on by a
  stop, or lost with one that was given up, so a stop that ends ends all but the lost;
  the counters of a
  registration stay within what shows the server's silence.
* Computer use (`CuInv`): a screenshot that somebody awaits shows the screen after the
  actions it was asked after (`CuAwaits`), so what a task acts on is never older than its
  last action.
* The browser session (`PsInv`): as long as the receiver lets pictures through, either the
  browser has all that came before or the next picture shows a gap (`PsGap`), and the
  receiver stops at a gap; the sets the browser was told of are the encoder's.
* MJPEG clients (`MjInv`): the request a client is counted under holds its guard. Each
  step also loses no place, or loses it in one of the ways the property allows (`MjLoses`).
* The event bus (`EhInv`): whatever a client asks for, it asks for topics there are, and of
  any set of those `NormalizeTopics` leaves one that brings the stream state, if there was
  one (`EhOne`).

**`DeviceProofs`** covers the eight parts of `MCDevices`, each with an invariant of its own.

* `SerialKeepsItsWord`: the order to end stands behind the order to release all keys in the
  queue, which is carried out or lost with the port (`ChQueued`, `ChReleased`). For the
  descriptor (`CdInv`): the chip's memory is what the update has transferred by where it
  is, or what it has undone; a reader that began after an update ended has read what is
  stored. `CdAssumption`: a chip and a stored descriptor have a value for every field.
* `AudioKeepsItsWord`: the recovery token says whether a recovery may act; it is odd only
  while nothing streams and no operation is at work (`AuMeans`), which is why a recovery
  and an operation do not both open the device. A streamer that an operation waits for is
  nobody else's, and one whose opening was given up never becomes anybody's (`AuRoles`).
* `VideoInputKeepsItsWord`, three invariants. Capture (`CvInv`): an open stream has the mode
  the source has, or has noted that it changed. Listing (`DpInv`): whatever was probed is
  well seen (`DpSeen`), although the wire may have changed since; a device chosen for
  recovery is the lost one until it is adopted. Encoders (`VeInv`): where a driver answered,
  each codec has an encoder that works (`VeRegistry`); a pipeline whose device was open was
  built for that device's format, and one whose device opens later goes on only in the
  format it was built for (`VeBuiltFor`), from which `VeFits` derives that a
  frame has the format and the length its encoder was opened for, through converter,
  decoder or neither; an Amlogic encoder that is behind its viewers has a key to give or no
  handle (`VeSound`), over every answer of the vendor's library and every rebuild; the mark
  of the chip says whether some pipeline holds it. `VeAssumption`: a board has the
  video unit of Rockchip or of Amlogic, not both. `DpAssumption`: one native receiver, and
  a driver that lists sizes one by one takes them. `CvAssumption`: the mode an RK628
  invents without a signal is none of the source's.
* `TasksKeepTheirWord`: no two tasks, and no task and the table, hold the same process
  (`ExAlone`), and what lives is held. For the stream (`DsInv`): every chunk in the queue is
  full but the last, and what the browser has, the queue, the buffer and the piece in hand
  add up to what was read.

The type invariants of the four core modules are proved here and not repeated in the
runs.

Only model-checked: `DrivePromise` beyond its mark, as its invariant speaks of chains of
clusters, and it holds for one writer only; `BytesSafe`, whose definitions fold over the bytes of a
line and of a frame, so that a proof for every input is an induction over data; `StopReleasesDevice`
of the streamer, which holds for one controller and not in general; and, as liveness
under fairness is beyond the prover, `StopReturns`, `UnusedStops`, `ControlReturns`,
`SwitchEnds`, `DevicesPromise` and `SessionsPromise`.

## 5. Mutants

Every property of every passing run is violated under the same configuration when
one definition is replaced by a mutated form: a guard dropped, an order swapped, a
reset forgotten. A promise has a mutant for each component it speaks of. They are
listed in `PROJECT.json` under `mutants`; in the modules a mutated form stands before
the definition it replaces, with a word after an underscore.

## 6. How to run

    tlc -workers 2 -config MCStreamer_start.cfg MCStreamer
    tlc -workers 2 -config MCBoard_parts.cfg MCBoard
    tlapm StreamerProofs.tla

and likewise for the other runs and proof modules. Each run ends within a few minutes;
the largest, `msd_media` and `board`, have 1.8 and 1.5 million states.

## 7. What the code does not give

Modelling met the following. Where the code or its documentation says otherwise, a
definition states what it says, and no run lists it because it does not hold; its
name is in parentheses. The properties of the runs exclude exactly these cases.

**Video.** `start()` and `webrtc_create_session` act on a mode read before a switch,
so both paths may capture (`stream_manager.rs:555`; `OneModeActive`). The switch task
copies the whole configuration and writes it back, so an update in between is lost
(`:466`; `UpdatesKept`). A handler dropped between the `compare_exchange` and the spawn
leaves `switching` set for good (`:275`), so `SwitchEnds` is checked among clients that wait.
A recovery task that has read the state when a switch stops MJPEG capture clears
`direct_stop` and starts it again behind WebRTC mode (`streamer.rs:1497`, `:601`);
`NoCaptureBehindWebRTC` excludes the stops that met such a task. A recovery that gives up for lack of
consumers leaves a state that counts as streaming (`streamer.rs:846`); a failed
reconfiguration leaves Busy (`:365`); a stream re-opened without a signal never takes
its soft restart (`:1097`). A session may subscribe to a pipeline that is about to end
(`webrtc_streamer.rs:1108`), the encoder thread of a pipeline may outlast its capture
thread (`:492`), and a codec read early may be stale (`:1059`). A device whose path was
taken by another is "recovered" onto the other; of two rkcif pipelines only the lowest
node is probed. A first key frame whose write fails lets delta frames through; after a
short disconnect an ended receiver is not started again; a parameter-set unit lost to
a full queue lets stale sets be prefixed; `WebRtcStreamer::cleanup` is never called. An
AVCC frame whose first unit is of 1 or of 256 to 511 bytes passes for Annex B. With VP8 or
VP9 on a machine with RKMPP the short cut for YUYV feeds libvpx, which was opened for
YUV420, with YUYV; `register_software_fallbacks` enters `libvpx_vp8` and `libvpx_vp9`, names
`avcodec_find_encoder_by_name` does not know; the hardware MJPEG pipeline is built for JPEG
as well and refuses each of its frames; frames decoded for AMLENC before the
format is agreed on are dropped when they come raw; AMLENC refuses widths that are no
multiple of 16, and nothing stands in for it. `FedAsTaken` and `AutomaticWorks` exclude
these cases. H.265
sets above the MTU are not fragmented. The clean-up task of MJPEG removes a client by
its id, though by then another request may be counted under it (`stream/mjpeg.rs:476`):
that one is served uncounted, and capture may stop under it. `PlaceIsKept` excludes
the ids found stale.

**Media and gadget.** The drive is opened after the lock of the check is given back
(`msd_api.rs:30`; `DriveNotShared`). Cancelling a download cancels a token nobody looks
at (`controller.rs:657`; `CancelledAddsNothing`). A client that leaves between a mount and
`report_recovered` (`controller.rs:195`) leaves the alarm of an earlier failure up, over a
medium that is mounted, until the next success; `SuccessClearsAlarm` speaks of mounts whose
client waited, and `VirtualMedia` leaves dropped handlers out. The lock of `VentoyDrive` belongs to the
request's object and excludes nobody, so with two writers a volume may be marked
clean and not be sound. Two uploads of one name replace each other; temporary files
are listed and can be mounted; a download without a length may be cut short or exceed
the limit; a download entry stays when the client leaves before the spawn. Shutdown
forgets media that could not be disconnected. A gadget bound by a process that died
is adopted as it is; functions no longer configured stay until a reboot; after a
cleanup that failed half way the state still says active (`service.rs:359`); a client
that leaves during a disk mode switch leaves `usb_reenumerating` set
(`controller.rs:313`). The journal of a failed bridge rollback is overwritten by the
next activation, and a reboot loses it.

**Input, audio, power.** An event that waits 30 ms for room is dropped, also a release;
repeated presses of one key fill the six slots; the runtime worker of an old backend
may store its availability last. Selecting a device, or enabling audio, during a
recovery cancels it and starts nothing; a recovery replaces the configured device
silently. A client that leaves while its start, or its change of device, waits for the capture
thread (`audio/streamer.rs:167`) leaves a capture that nothing refers to: no stop reaches it,
it keeps the PCM, and audio does not come back while it does. One that leaves before
`report_recovered` (`audio/controller.rs:198`) leaves an old error over the new stream.
`NoOrphanCapture`, `AudioComesBack` and `HealthyWhileStreaming` exclude just these. A playback
session being dropped closes its handle after `stop` has returned
(`playback.rs:214`; `UacPlayback!StopReleasesDevice`). A client that leaves, or a failing
release, leaves a button down until the next release; a short press may end a long
one early. An update that leaves the CH9329 with a new descriptor and then fails while the
backend changes does not put the old one back (`usb_update.rs:128`), and one that brings
a descriptor while the backend is another says so to nobody; `StoredIsOnChip` and
`FailedUpdateUndone` speak of updates between CH9329 backends. An answer of the chip that is
cut off behind a header which announces more hides the next answer until the deadline.

**Remote access.** A socket is sent the latest stream state and subscribes afterwards, so
a state published in between is not shown (`web/ws.rs:65`); a new subscription aborts the
receivers with what they hold; of two publishers the older may be heard last
(`EventHub`, `missed`). `close_all` does not tell the connection's task, and a later login
makes it active (`connection.rs:1472`; `StoppedServesNobody`). Handlers of two services can
both pass the codec check, and services of different codecs run beside each other
(`codec_constraints.rs:209`); no property claims they do not. New keys of RustDesk are
stored and not applied (`config/rustdesk.rs:131`), and an update in progress may write the
old ones back. The connections of RustDesk read the `ConnectionManager`'s configuration,
a copy from the object's creation (`rustdesk/mod.rs:80`): after an update or restart
(`:109`, `:412`) they are still served with the old codec and password, until a stop
drops the object. `RunsAsStored` claims a connection's codec for objects that were not
updated, and no version for RustDesk. A handler dropped while `stop` waits leaves a service
half stopped: a listener task of RTSP or VNC writes Stopped in its own time, perhaps over a
later Running (`rtsp/service.rs:154`, `vnc/mod.rs:208`); a start that is dropped leaves
Starting; `StatusTellsTheTask` excludes such a service until a stop is gone through with. For
RustDesk (`rustdesk/mod.rs:394`) the status stays Running with no mediator, a start does
nothing, the next stop reports Stopped without waiting for the task that was let go of, and
after a later start an old mediator may register beside the new one.
`StoppedLeavesNothing` and `RegistersInTheEnd` exclude what such a stop left. A VNC client
task aborted by `stop` drops its guard after the counter was cleared
(`vnc/mod.rs:249`): with `allow_one_client` two viewers can then be served, and
`OneClientServed` does not speak of that.
`read_frame` in a select loses bytes half read (`bytes_codec.rs:55`). An error of read or
write keeps the one RTSP place until the service is stopped (`rtsp/service.rs:266`). The
watch channel of VNC drops H.264 frames others build on (`vnc/mod.rs:445`).

**Process.** An extension that exits while nobody asks for its status is not restarted;
stopping an enabled one is undone by the health check; disabling beside a start leaves
it running. A watchdog that refuses to be disabled is reported as still running when
its worker is gone (`RefusalMeansFed`); a time-out that cannot be read is taken for
30 s; a client leaving during disable leaves a dead entry. Two restart requests at once
make the channel lag and the process exit; USB playback and computer use are not
stopped in cleanup; a third computer use session may abort the second in the middle of a
key press, when the first, stopped long ago, overwrites the second's status after its own
reset of HID (`computer_use/manager.rs:729`, `:190`), and the key stays down: `NoKeyLeftDown`
holds for two sessions, as in the run, and not for three; a failing bind at boot returns without cleanup. A set-up that fails
between the user and the `initialized` mark cannot be completed; two set-ups with
different names make two users; Redfish logins may leave two sessions.

## 8. Plan

1. Done: every part of section 1 modelled and model-checked; the safety of the core,
   the board, remote access, video data, sessions and devices proved.
2. `DrivePromise`: the mark is proved; next lemmas about chains of clusters under one
   write, then the invariant of a transaction.
3. A composition of `Streamer` and `SharedPipeline` under `ModeSwitch`, both
   implementing `VideoDevice`, to state device exclusion across the two paths.
4. `MjpegClients` composed with `Streamer` through `clients`.

## 9. Not modelled

* Contents: frames, samples, reports, wording of events and errors, cryptography. They
  do not decide the properties above; where they do (a geometry change, a lost device,
  a scanner of bytes) the outcome is a choice or the algorithm is a module.
* Device drivers, configfs, NetworkManager, FFmpeg, the WebRTC library, the model
  provider: outside the program. Their answers are choices of the steps that call
  them; what they do with a call is marked external.
* Routing, Redfish beside sessions and virtual media, frontend, diagnostics, database
  and platform helpers: no state of their own that these properties concern. Handlers
  that change state are part of the component they call.
* Reading LEDs, relay frames, report formats, request validation: input and
  output, or data.
* Conversions between pixel formats, build scripts and vendored libraries.
