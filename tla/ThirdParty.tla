---- MODULE ThirdParty ----
(***************************************************************************)
(* The three remote access services, RustDesk, RTSP and VNC, as the web    *)
(* handlers start, stop and configure them (web/handlers/config/           *)
(* {rustdesk,rtsp,vnc}.rs and apply.rs): the stored configuration, the     *)
(* service objects with their listener tasks, and the codec lock that the  *)
(* running services put on the stream manager (codec_constraints.rs).      *)
(*                                                                         *)
(* Each service has its own apply lock, so handlers of different services  *)
(* run beside each other.  A configuration is whether it is enabled, the   *)
(* codec, and a version that stands for the other fields a restart needs   *)
(* (password, port, identifier).                                           *)
(*                                                                         *)
(* A handler ends wherever it waits when its client leaves, also between   *)
(* the signal to a listener task and its end: the task's handle is then    *)
(* gone, and the task leaves in its own time ("loose").                    *)
(***************************************************************************)
EXTENDS Naturals, FiniteSets

CONSTANTS
    TpServices,   \* the services modelled, of "rustdesk", "rtsp" and "vnc"
    TpCodecs,     \* [TpServices -> codecs the service can be set to]
    MaxTpReqs,    \* bound: requests
    MaxTpFaults   \* bound: failing starts and writes, clients that leave

ASSUME TpAssumption ==
    /\ TpServices \subseteq {"rustdesk", "rtsp", "vnc"}
    /\ \A s \in TpServices : "h264" \in TpCodecs[s] /\ TpCodecs[s] \subseteq {"h264", "h265", "mjpeg"}
    /\ MaxTpReqs \in Nat /\ MaxTpFaults \in Nat

VARIABLES
    tpStored,  \* the configuration store
    tpSvc,     \* AppState.{rustdesk, rtsp, vnc}: see NoService
    tpReq,     \* the handler that holds the apply lock: [pc, kind, old, new, seen]
    tpStream,  \* the stream manager: [mode, codec, lock]
    tpDirty,   \* history: services with a stored change that was not applied
    tpLeft,    \* history: services that a dropped handler left half stopped or started
    tpReqs,
    tpFaults

tpVars == <<tpStored, tpSvc, tpReq, tpStream, tpDirty, tpLeft, tpReqs, tpFaults>>

TpConfig(s) == [enabled : BOOLEAN, codec : TpCodecs[s], version : 0..MaxTpReqs]
TpFirst(s) == [enabled |-> FALSE, codec |-> CHOOSE c \in TpCodecs[s] : c = "h264", version |-> 0]

\* An object with its listener task and whether its handle is stored
\* (is_listening of RustDesk), its tasks whose handles are gone, its
\* configuration and the one its connections are served with: the live one of
\* RTSP and VNC, of RustDesk the ConnectionManager's copy from the object's
\* creation, which no update reaches (`updated').  No object: AppState holds None.
NoTasks == [run |-> 0, leaving |-> 0]
NoService(s) ==
    [obj |-> FALSE, status |-> "Stopped", task |-> "none", handle |-> FALSE, loose |-> NoTasks,
     cfg |-> TpFirst(s), conn |-> TpFirst(s), updated |-> FALSE]
NoRequest(s) == [pc |-> "idle", kind |-> "none", old |-> TpFirst(s), new |-> TpFirst(s), seen |-> "none"]

TpInit ==
    /\ tpStored = [s \in TpServices |-> TpFirst(s)]
    /\ tpSvc = [s \in TpServices |-> NoService(s)]
    /\ tpReq = [s \in TpServices |-> NoRequest(s)]
    /\ tpStream = [mode |-> "mjpeg", codec |-> "h264", lock |-> "none"]
    /\ tpDirty = {} /\ tpLeft = {} /\ tpReqs = 0 /\ tpFaults = 0

-----------------------------------------------------------------------------
(* Codec constraints *)

\* third_party_locks with compatible_with: the codecs of the enabled services
\* must be the same one.
CompatibleCodecs(cfg) ==
    \A s, t \in {u \in TpServices : cfg[u].enabled} : cfg[s].codec = cfg[t].codec

\* from_config: the lock of the first service in the order of the code.
FirstOf(set) == IF "rustdesk" \in set THEN "rustdesk" ELSE IF "rtsp" \in set THEN "rtsp" ELSE "vnc"
CodecLock(cfg) ==
    LET on == {s \in TpServices : cfg[s].enabled}
    IN  IF on = {} THEN "none" ELSE cfg[FirstOf(on)].codec

\* is_listening of RustDesk, the status of the others.
Serving(s) ==
    tpSvc[s].obj /\ IF s = "rustdesk" THEN tpSvc[s].handle
                    ELSE tpSvc[s].status \in {"Starting", "Running"}

\* runtime_third_party_config: the stored configuration with `enabled' taken
\* from the service objects.
RuntimeConfig == [s \in TpServices |-> [tpStored[s] EXCEPT !.enabled = Serving(s)]]

\* Its read locks wait for a handler that holds a write guard.
Guarded(s) == tpReq[s].pc \in {"act", "stopping", "waiting", "starting"}
RuntimeReadable == \A s \in TpServices : ~Guarded(s)

\* enforce_constraints_with_stream_manager.
Enforced(stream, lock) ==
    IF lock = "mjpeg" THEN [stream EXCEPT !.mode = "mjpeg"]
    ELSE IF lock # "none" THEN [stream EXCEPT !.mode = "webrtc", !.codec = lock]
    ELSE stream

-----------------------------------------------------------------------------
(* Handlers, up to the write guard *)

Goto(s, pc) == tpReq' = [tpReq EXCEPT ![s].pc = pc]
Done(s) == tpReq' = [tpReq EXCEPT ![s] = NoRequest(s)]
TpFault == tpFaults < MaxTpFaults /\ tpFaults' = tpFaults + 1

\* validate, apply_to: what an update may make of the stored configuration; a
\* new version stands for any field besides `enabled' and the codec.
Merged(s) ==
    [enabled : BOOLEAN, codec : TpCodecs[s], version : {tpStored[s].version, tpStored[s].version + 1}]

\* update_*_config: the lock, the merged configuration, validate_candidate on
\* what is stored.
BeginUpdate(s) ==
    /\ tpReq[s].pc = "idle" /\ tpReqs < MaxTpReqs
    /\ tpReqs' = tpReqs + 1
    /\ \E new \in Merged(s) :
          /\ CompatibleCodecs([tpStored EXCEPT ![s] = new])
          /\ tpReq' = [tpReq EXCEPT ![s] = [pc |-> "persist", kind |-> "update", old |-> tpStored[s],
                                            new |-> new, seen |-> "none"]]
    /\ UNCHANGED <<tpStored, tpSvc, tpStream, tpDirty, tpLeft, tpFaults>>

\* need_restart.
NeedRestart(r) == r.old.codec # r.new.codec \/ r.old.version # r.new.version

\* persist_and_apply: ConfigStore::update, and the stored value read back.
Persist(s) ==
    /\ tpReq[s].pc = "persist"
    /\ \/ /\ tpStored' = [tpStored EXCEPT ![s] = tpReq[s].new]
          /\ Goto(s, "validate") /\ UNCHANGED tpFaults
       \/ TpFault /\ Done(s) /\ UNCHANGED tpStored
    /\ UNCHANGED <<tpSvc, tpStream, tpDirty, tpLeft, tpReqs>>

\* start_*_service and stop_*_service: what is stored, once with `enabled' from
\* the object and once with `enabled' set.
BeginStartStop(s) ==
    /\ tpReq[s].pc = "idle" /\ tpReqs < MaxTpReqs /\ RuntimeReadable
    /\ tpReqs' = tpReqs + 1
    /\ \E kind \in {"start", "stop"} :
          tpReq' = [tpReq EXCEPT ![s] = [pc |-> "validate", kind |-> kind, old |-> RuntimeConfig[s],
                                         new |-> [tpStored[s] EXCEPT !.enabled = (kind = "start")],
                                         seen |-> "none"]]
    /\ UNCHANGED <<tpStored, tpSvc, tpStream, tpDirty, tpLeft, tpFaults>>

\* regenerate_device_id and regenerate_device_password: RustDesk only, no lock
\* and nothing is applied.
Regenerate ==
    /\ "rustdesk" \in TpServices /\ tpReqs < MaxTpReqs
    /\ tpReqs' = tpReqs + 1
    /\ tpStored' = [tpStored EXCEPT !["rustdesk"].version = @ + 1]
    /\ UNCHANGED <<tpSvc, tpReq, tpStream, tpDirty, tpLeft, tpFaults>>

\* apply_*_config: validated again, against what is stored or, for a start or
\* a stop, against what runs.
Validate(s) ==
    /\ tpReq[s].pc = "validate"
    /\ tpReq[s].kind # "update" => RuntimeReadable
    /\ LET base == IF tpReq[s].kind = "update" THEN tpStored ELSE RuntimeConfig
       IN  IF CompatibleCodecs([base EXCEPT ![s] = tpReq[s].new])
           THEN Goto(s, IF s = "vnc" THEN "prepare" ELSE "guard") /\ UNCHANGED tpDirty
           ELSE /\ Done(s)
                /\ tpDirty' = IF tpReq[s].kind = "update" /\ NeedRestart(tpReq[s]) THEN tpDirty \cup {s} ELSE tpDirty
    /\ UNCHANGED <<tpStored, tpSvc, tpStream, tpLeft, tpReqs, tpFaults>>

\* VNC: the stream is switched before the service starts; a failure is logged.
Prepare(s) ==
    /\ tpReq[s].pc = "prepare" /\ RuntimeReadable
    /\ LET run == RuntimeConfig
           will == IF tpReq[s].kind = "update" THEN run[s].enabled ELSE tpReq[s].new.enabled
           lock == CodecLock([run EXCEPT ![s] = [tpReq[s].new EXCEPT !.enabled = TRUE]])
       IN  tpStream' \in IF will THEN {tpStream, Enforced(tpStream, lock)} ELSE {tpStream}
    /\ Goto(s, "guard")
    /\ UNCHANGED <<tpStored, tpSvc, tpDirty, tpLeft, tpReqs, tpFaults>>

-----------------------------------------------------------------------------
(* With the write guard *)

\* A start or restart of an object that there is: RustDesk asks is_listening,
\* the others the status.
Listening(s) == IF s = "rustdesk" THEN tpSvc[s].handle ELSE tpSvc[s].status = "Running"

\* What is done with the object, by the three branches of apply_*_config.
Decide(s) ==
    LET r == tpReq[s]
    IN  CASE r.kind = "stop" -> IF tpSvc[s].obj THEN "stopping" ELSE "enforce"
          [] r.kind = "start" -> IF tpSvc[s].obj /\ Listening(s)
                                 THEN IF NeedRestart(r) THEN "stopping" ELSE "enforce"
                                 ELSE "starting"
          [] r.kind = "update" -> IF tpSvc[s].obj /\ NeedRestart(r) THEN "stopping" ELSE "enforce"

\* update_config: the connections of RTSP and VNC read the new one.
Configured(s, svc, cfg) ==
    IF s = "rustdesk" THEN [svc EXCEPT !.cfg = cfg, !.updated = TRUE] ELSE [svc EXCEPT !.cfg = cfg, !.conn = cfg]

\* The guard is taken.  A new object gets its configuration, and for RustDesk
\* the connection manager a copy it keeps; restart of RTSP and VNC updates the
\* configuration before it stops.
TakeGuard(s) ==
    /\ tpReq[s].pc = "guard"
    /\ LET next == Decide(s)
           cfg == [tpReq[s].new EXCEPT !.enabled = TRUE]
       IN  /\ Goto(s, next)
           /\ tpSvc' = [tpSvc EXCEPT ![s] =
                 CASE next = "starting" /\ ~tpSvc[s].obj -> [@ EXCEPT !.obj = TRUE, !.cfg = cfg, !.conn = cfg]
                   [] next = "starting" /\ tpSvc[s].obj -> Configured(s, @, cfg)
                   [] next = "stopping" /\ tpReq[s].kind # "stop" /\ s # "rustdesk" -> Configured(s, @, cfg)
                   [] OTHER -> @]
    /\ UNCHANGED <<tpStored, tpStream, tpDirty, tpLeft, tpReqs, tpFaults>>

\* stop: the shutdown signal, which reaches every listener task of the object.
SignalStop(s) ==
    /\ tpReq[s].pc = "stopping"
    /\ tpSvc' = [tpSvc EXCEPT ![s].task = IF @ = "run" THEN "leaving" ELSE @,
                              ![s].loose = [run |-> 0, leaving |-> @.run + @.leaving]]
    /\ Goto(s, "waiting")
    /\ UNCHANGED <<tpStored, tpStream, tpDirty, tpLeft, tpReqs, tpFaults>>

\* A task takes the signal and, in RTSP and VNC, writes the status.
TaskLeaves(s) ==
    /\ \/ /\ tpSvc[s].task = "leaving"
          /\ tpSvc' = [tpSvc EXCEPT ![s].task = "none", ![s].status = IF s = "rustdesk" THEN @ ELSE "Stopped"]
       \/ /\ tpSvc[s].loose.leaving > 0
          /\ tpSvc' = [tpSvc EXCEPT ![s].loose.leaving = @ - 1, ![s].status = IF s = "rustdesk" THEN @ ELSE "Stopped"]
    /\ UNCHANGED <<tpStored, tpReq, tpStream, tpDirty, tpLeft, tpReqs, tpFaults>>

\* Mutant of TpJoined: stop does not wait for the task.
TpJoined_NoWait(s) ==
    /\ tpReq[s].pc = "waiting"
    /\ IF tpReq[s].kind = "stop"
       THEN /\ tpSvc' = [tpSvc EXCEPT ![s] = [NoService(s) EXCEPT !.task = tpSvc[s].task]]
            /\ Goto(s, "enforce") /\ tpDirty' = tpDirty \ {s} /\ tpLeft' = tpLeft \ {s}
       ELSE /\ tpSvc' = [tpSvc EXCEPT ![s] = Configured(s, [@ EXCEPT !.status = "Stopped"],
                                                        [tpReq[s].new EXCEPT !.enabled = TRUE])]
            /\ Goto(s, "starting") /\ UNCHANGED <<tpDirty, tpLeft>>
    /\ UNCHANGED <<tpStored, tpStream, tpReqs, tpFaults>>

\* stop has joined the task whose handle is stored, or aborted it after two
\* seconds; the object goes away, or the restart goes on with the new
\* configuration.
TpJoined(s) ==
    /\ tpReq[s].pc = "waiting"
    /\ IF tpReq[s].kind = "stop"
       THEN /\ tpSvc' = [tpSvc EXCEPT ![s] = NoService(s)]
            /\ Goto(s, "enforce") /\ tpDirty' = tpDirty \ {s} /\ tpLeft' = tpLeft \ {s}
       ELSE /\ tpSvc' = [tpSvc EXCEPT ![s] =
                 Configured(s, [@ EXCEPT !.task = "none", !.handle = FALSE, !.status = "Stopped"],
                            [tpReq[s].new EXCEPT !.enabled = TRUE])]
            /\ Goto(s, "starting") /\ UNCHANGED <<tpDirty, tpLeft>>
    /\ UNCHANGED <<tpStored, tpStream, tpReqs, tpFaults>>

\* The codec that start sets on the stream first: RTSP, and VNC with H.264.
Prepared(s) ==
    IF s # "rustdesk" /\ tpSvc[s].cfg.codec # "mjpeg" THEN [tpStream EXCEPT !.codec = tpSvc[s].cfg.codec] ELSE tpStream

\* The task of a start; the one whose handle it overwrites is loose.
Spawned(svc) ==
    [svc EXCEPT !.status = "Running", !.task = "run", !.handle = TRUE,
                !.loose = [run |-> @.run + (IF svc.task = "run" THEN 1 ELSE 0), leaving |-> @.leaving]]

\* start of the service.  It does nothing on one whose status is Running, or,
\* for a RustDesk configuration that is not complete, at all; it fails (codec,
\* address, port, missing password) and leaves an object in Error.
StartService(s) ==
    /\ tpReq[s].pc = "starting"
    /\ \/ /\ tpSvc[s].status # "Running"
          /\ tpSvc' = [tpSvc EXCEPT ![s] = Spawned(@)] /\ tpStream' = Prepared(s)
          /\ Goto(s, "enforce")
          /\ tpDirty' = tpDirty \ {s}
          /\ tpLeft' = IF tpSvc[s].loose = NoTasks /\ tpSvc[s].task = "none" THEN tpLeft \ {s} ELSE tpLeft
          /\ UNCHANGED tpFaults
       \/ /\ tpSvc[s].status = "Running"
          /\ Goto(s, "enforce") /\ UNCHANGED <<tpSvc, tpStream, tpDirty, tpLeft, tpFaults>>
       \/ /\ TpFault /\ tpSvc[s].status # "Running"
          /\ tpSvc' = [tpSvc EXCEPT ![s].status = "Error"]
          /\ Done(s) /\ UNCHANGED <<tpStream, tpDirty, tpLeft>>
       \/ /\ TpFault /\ s = "rustdesk"
          /\ Goto(s, "enforce") /\ UNCHANGED <<tpSvc, tpStream, tpDirty, tpLeft>>
    /\ UNCHANGED <<tpStored, tpReqs>>

\* A stop that is given up: the handle it waited on is gone.  RustDesk waits
\* for the mediator first, with the handles of its listeners still stored.
Abandoned(s, svc) ==
    LET gone == [svc EXCEPT !.task = "none", !.handle = FALSE,
                            !.loose = [run |-> @.run, leaving |-> @.leaving + (IF svc.task = "leaving" THEN 1 ELSE 0)]]
    IN  IF s = "rustdesk" THEN {svc, gone} ELSE {gone}

\* The client leaves and its handler is dropped where it waits, with what was
\* stored not applied, the service half stopped, or left in Starting.  (The
\* start of RustDesk waits for nothing.)
HandlerDropped(s) ==
    /\ TpFault
    /\ tpReq[s].pc \in {"persist", "validate", "prepare", "guard", "waiting", "starting", "enforce", "lock"}
    /\ ~(s = "rustdesk" /\ tpReq[s].pc = "starting")
    /\ CASE tpReq[s].pc = "waiting" ->
              /\ \E svc \in Abandoned(s, tpSvc[s]) : tpSvc' = [tpSvc EXCEPT ![s] = svc]
              /\ UNCHANGED tpStream
         [] tpReq[s].pc = "starting" /\ tpSvc[s].status # "Running" ->
              tpSvc' = [tpSvc EXCEPT ![s].status = "Starting"] /\ tpStream' \in {tpStream, Prepared(s)}
         [] OTHER -> UNCHANGED <<tpSvc, tpStream>>
    /\ tpDirty' = IF tpReq[s].pc \in {"validate", "prepare", "guard"} /\ tpReq[s].kind = "update" /\ NeedRestart(tpReq[s])
                  THEN tpDirty \cup {s} ELSE tpDirty
    /\ tpLeft' = IF tpReq[s].pc \in {"waiting", "starting"} THEN tpLeft \cup {s} ELSE tpLeft
    /\ Done(s)
    /\ UNCHANGED <<tpStored, tpReqs>>

\* enforce_stream_codec_constraints: the guard was dropped; what runs is read,
ReadRuntime(s) ==
    /\ tpReq[s].pc = "enforce" /\ RuntimeReadable
    /\ tpReq' = [tpReq EXCEPT ![s].pc = "lock", ![s].seen = CodecLock(RuntimeConfig)]
    /\ UNCHANGED <<tpStored, tpSvc, tpStream, tpDirty, tpLeft, tpReqs, tpFaults>>

\* then the lock is set and the stream brought in line with it; a failing
\* switch is the error of the handler.
SetLock(s) ==
    /\ tpReq[s].pc = "lock"
    /\ tpStream' \in {Enforced([tpStream EXCEPT !.lock = tpReq[s].seen], tpReq[s].seen),
                      [tpStream EXCEPT !.lock = tpReq[s].seen]}
    /\ Done(s)
    /\ UNCHANGED <<tpStored, tpSvc, tpDirty, tpLeft, tpReqs, tpFaults>>

TpNext ==
    \/ \E s \in TpServices :
          \/ BeginUpdate(s) \/ Persist(s) \/ BeginStartStop(s) \/ Validate(s) \/ Prepare(s)
          \/ TakeGuard(s) \/ SignalStop(s) \/ TaskLeaves(s) \/ TpJoined(s) \/ StartService(s)
          \/ ReadRuntime(s) \/ SetLock(s) \/ HandlerDropped(s)
    \/ Regenerate

TpSpec == TpInit /\ [][TpNext]_tpVars

-----------------------------------------------------------------------------

TpTypeOK ==
    /\ \A s \in TpServices :
          /\ tpStored[s] \in TpConfig(s)
          /\ tpSvc[s] \in [obj : BOOLEAN, status : {"Stopped", "Starting", "Running", "Error"},
                           task : {"none", "run", "leaving"}, handle : BOOLEAN, loose : [run : Nat, leaving : Nat],
                           cfg : TpConfig(s), conn : TpConfig(s), updated : BOOLEAN]
          /\ tpReq[s].pc \in {"idle", "persist", "validate", "prepare", "guard", "stopping", "waiting",
                              "starting", "enforce", "lock"}
          /\ tpReq[s].kind \in {"none", "update", "start", "stop"}
          /\ tpReq[s].old \in TpConfig(s) /\ tpReq[s].new \in TpConfig(s)
    /\ tpStream \in [mode : {"mjpeg", "webrtc"}, codec : {"h264", "h265"}, lock : {"none", "h264", "h265", "mjpeg"}]
    /\ tpDirty \subseteq TpServices /\ tpLeft \subseteq TpServices
    /\ tpReqs \in 0..MaxTpReqs /\ tpFaults \in 0..MaxTpFaults

\* The status tells whether a listener runs, outside the time a handler has
\* the object in its hands: no task of an earlier start writes Stopped over a
\* later Running, and none is left behind.  It is not so once a handler was
\* dropped in the middle of a stop or a start, until a stop is gone through
\* with, or a start with no task left.
StatusTellsTheTask ==
    \A s \in TpServices \ tpLeft :
       ~Guarded(s) => /\ (tpSvc[s].status = "Running") = (tpSvc[s].task = "run")
                      /\ tpSvc[s].status # "Starting"
                      /\ tpSvc[s].task # "leaving" /\ tpSvc[s].loose = NoTasks

\* A service that runs does so with the configuration that is stored, once the
\* handler that stored it is done: after every update, start and stop that
\* succeeded, in whatever order, and after failures that were repaired; and its
\* connections are served with the codec that is stored.  Two things of
\* RustDesk are not so.  New keys (Regenerate) are stored and not applied; and
\* the connections of an object whose configuration was updated are served
\* with the codec and the password the object was created with.
RunsAsStored ==
    \A s \in TpServices \ (tpDirty \cup tpLeft) :
       tpReq[s].pc \in {"idle", "enforce", "lock"} /\ tpSvc[s].task = "run" =>
          /\ tpSvc[s].cfg.codec = tpStored[s].codec
          /\ ~tpSvc[s].updated => tpSvc[s].conn.codec = tpStored[s].codec
          /\ s # "rustdesk" => tpSvc[s].cfg.version = tpStored[s].version /\ tpSvc[s].conn.version = tpStored[s].version

\* What the handlers of RustDesk, VNC and RTSP promise, among clients that
\* leave in the middle of them: a status tells the task behind it, and what
\* runs is what was stored last.
ThirdPartyPromise == TpTypeOK /\ StatusTellsTheTask /\ RunsAsStored
====
