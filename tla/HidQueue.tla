----------------------------- MODULE HidQueue ------------------------------
(***************************************************************************)
(* HidController (hid/mod.rs) and its OTG backend (hid/otg.rs): events of  *)
(* the clients go through a bounded queue to one worker, which turns them  *)
(* into reports of the whole keyboard.  Beside it the backend is replaced, *)
(* and a runtime worker publishes whether there is one.                    *)
(*                                                                         *)
(* Buttons and consumer keys are handled like keys; coordinates are        *)
(* numbers in the order the moves were made.                               *)
(***************************************************************************)
EXTENDS Integers, Sequences, SequencesExt, FiniteSets

CONSTANTS
    HidKeys,       \* keys
    KeySlots,      \* keys a KeyboardReport holds
    HidCapacity,   \* HID_EVENT_QUEUE_CAPACITY
    MaxHidSteps,   \* bound: events sent and backends replaced
    MaxBackends,   \* bound: backends created
    NoEvent

ASSUME HidAssumption ==
    /\ KeySlots \in Nat \ {0} /\ HidCapacity \in Nat \ {0}
    /\ MaxHidSteps \in Nat /\ MaxBackends \in Nat \ {0} /\ NoEvent \notin HidKeys

VARIABLES
    hidQueue,      \* hid_tx, hid_rx
    hidWaiting,    \* senders waiting for room, first come first served
    mover,         \* a sender of a move between its try_send and the flag
    pendingMove, pendingFlag,
    hidWorker,     \* the event worker
    backend,       \* the backend of the controller, 0 for none
    backends,      \* every backend created: kind, initialized, keyboard_state
    available,     \* backend_available
    backendType,   \* backend_type
    shown,         \* runtime_state
    monitors,      \* the runtime worker of each backend
    reloading,     \* init, reload, prepare_otg_rebuild or shutdown under way
    host,          \* the keys the host sees pressed
    held, moved,   \* history: keys the clients hold, moves made
    reached,       \* history: the newest move the worker has processed
    sent,          \* events sent and backends replaced
    eventGap,      \* history: an event did not reach the backend
    reportGap,     \* history: the last report of the backend did not reach the host
    lateStore      \* history: an aborted runtime worker had the last word

queueVars == <<hidQueue, hidWaiting, mover, pendingMove, pendingFlag>>
stateVars == <<available, backendType, shown, monitors, reloading, lateStore>>
hidVars == <<queueVars, hidWorker, backend, backends, stateVars, host, held,
             moved, reached, sent, eventGap, reportGap>>

BackendKinds == {"otg", "none"}
Backends == 1 .. MaxBackends
Down(k) == [type |-> "down", key |-> k, move |-> 0]
Up(k) == [type |-> "up", key |-> k, move |-> 0]
Move(n) == [type |-> "move", key |-> NoEvent, move |-> n]
Reset == [type |-> "reset", key |-> NoEvent, move |-> 0]

\* KeyboardReport.keys: how many slots each key has and how many are free.  The
\* order of the slots does not matter, remove_key sorts them.  add_key takes a
\* free slot, also for a key that is already there; remove_key clears every
\* slot of the key.
NoKeys == [slots |-> [k \in HidKeys |-> 0], free |-> KeySlots]
AddKey(s, k) ==
    IF s.free = 0 THEN s ELSE [slots |-> [s.slots EXCEPT ![k] = @ + 1], free |-> s.free - 1]
RemoveKey(s, k) == [slots |-> [s.slots EXCEPT ![k] = 0], free |-> s.free + s.slots[k]]
KeysIn(s) == {k \in HidKeys : s.slots[k] > 0}

\* What an event makes of the keys that are held.
Holding(keys, ev) ==
    CASE ev.type = "down" -> keys \cup {ev.key}
      [] ev.type = "up" -> keys \ {ev.key}
      [] ev.type = "reset" -> {}
      [] OTHER -> keys

\* What a sequence of events makes of them: the last event about a key counts.
About(ev, k) == ev.type = "reset" \/ (ev.type \in {"down", "up"} /\ ev.key = k)
HeldAfter(keys, events) ==
    {k \in HidKeys :
       \/ k \in keys /\ \A i \in DOMAIN events : ~About(events[i], k)
       \/ \E i \in DOMAIN events :
             /\ events[i].type = "down" /\ events[i].key = k
             /\ \A j \in DOMAIN events : j > i => ~About(events[j], k)}
Replay(events) == HeldAfter({}, events)

IdleWorker == [pc |-> "recv", ev |-> Reset, to |-> 0, report |-> NoKeys]
NoReload == [pc |-> "idle", op |-> "none", kind |-> "none"]
NoMonitor == [pc |-> "off", init |-> FALSE, aborted |-> FALSE]
Shown(kind, init) == [kind |-> kind, init |-> init]

HidInit ==
    /\ hidQueue = << >> /\ hidWaiting = << >>
    /\ mover = 0 /\ pendingMove = 0 /\ pendingFlag = FALSE
    /\ hidWorker = [IdleWorker EXCEPT !.pc = "off"]
    /\ backend = 0
    /\ backends = [b \in Backends |-> [init |-> FALSE, made |-> FALSE, keys |-> NoKeys]]
    /\ available = FALSE /\ backendType = "otg" /\ shown = Shown("otg", FALSE)
    /\ monitors = [b \in Backends |-> NoMonitor]
    /\ reloading = [pc |-> "create", op |-> "init", kind |-> "otg"]
    /\ host = {} /\ held = {} /\ moved = 0 /\ reached = 0 /\ sent = 0
    /\ eventGap = FALSE /\ reportGap = FALSE /\ lateStore = FALSE

-----------------------------------------------------------------------------
(***************************************************************************)
(* Sending: WebSocket and data channel handlers                            *)
(***************************************************************************)

\* send_keyboard, send_mouse, send_consumer, reset: refused without a backend.
CanSend == available /\ sent < MaxHidSteps /\ sent' = sent + 1

\* enqueue_event: at once if there is room and nobody waits, else in line.
SendEvent(ev) ==
    /\ CanSend
    /\ IF Len(hidQueue) < HidCapacity /\ hidWaiting = << >>
       THEN hidQueue' = Append(hidQueue, ev) /\ UNCHANGED hidWaiting
       ELSE hidWaiting' = Append(hidWaiting, ev) /\ UNCHANGED hidQueue
    /\ held' = Holding(held, ev)
    /\ UNCHANGED <<mover, pendingMove, pendingFlag, hidWorker, backend, backends,
                   stateVars, host, moved, eventGap, reportGap, reached>>

\* handle_hid_socket releases the keys when its client goes.
Disconnect == SendEvent(Reset)

\* HID_EVENT_SEND_TIMEOUT_MS has passed: the event is dropped.
SendTimesOut ==
    \E i \in DOMAIN hidWaiting :
      /\ hidWaiting' = RemoveAt(hidWaiting, i)
      /\ eventGap' = TRUE
      /\ UNCHANGED <<hidQueue, mover, pendingMove, pendingFlag, hidWorker, backend,
                     backends, stateVars, host, held, moved, sent, reportGap, reached>>

\* Mutant: a move that finds the queue full is dropped.
SendMove_Dropped ==
    /\ CanSend /\ mover = 0
    /\ moved' = moved + 1
    /\ hidQueue' = IF Len(hidQueue) < HidCapacity THEN Append(hidQueue, Move(moved'))
                   ELSE hidQueue
    /\ UNCHANGED <<hidWaiting, mover, pendingMove, pendingFlag, hidWorker, backend,
                   backends, stateVars, host, held, eventGap, reportGap, reached>>

\* enqueue_mouse_move: a full queue makes it the pending move ...
SendMove ==
    /\ CanSend /\ mover = 0
    /\ moved' = moved + 1
    /\ IF Len(hidQueue) < HidCapacity /\ hidWaiting = << >>
       THEN hidQueue' = Append(hidQueue, Move(moved')) /\ UNCHANGED mover
       ELSE mover' = moved' /\ UNCHANGED hidQueue
    /\ UNCHANGED <<hidWaiting, pendingMove, pendingFlag, hidWorker, backend, backends,
                   stateVars, host, held, eventGap, reportGap, reached>>

\* ... which is stored first and announced next; what was pending is replaced.
StorePending ==
    /\ mover # 0 /\ pendingMove # mover
    /\ pendingMove' = mover
    /\ UNCHANGED <<hidQueue, hidWaiting, mover, pendingFlag, hidWorker, backend,
                   backends, stateVars, host, held, moved, sent, eventGap, reportGap, reached>>
RaiseFlag ==
    /\ mover # 0 /\ pendingMove = mover
    /\ pendingFlag' = TRUE /\ mover' = 0
    /\ UNCHANGED <<hidQueue, hidWaiting, pendingMove, hidWorker, backend, backends,
                   stateVars, host, held, moved, sent, eventGap, reportGap, reached>>

-----------------------------------------------------------------------------
(***************************************************************************)
(* The event worker                                                        *)
(***************************************************************************)

\* recv; the first sender in line gets the room.
Receive ==
    /\ hidWorker.pc = "recv" /\ hidQueue # << >>
    /\ hidWorker' = [hidWorker EXCEPT !.pc = "event", !.ev = Head(hidQueue)]
    /\ IF hidWaiting = << >> THEN hidQueue' = Tail(hidQueue) /\ UNCHANGED hidWaiting
       ELSE /\ hidQueue' = Append(Tail(hidQueue), Head(hidWaiting))
            /\ hidWaiting' = Tail(hidWaiting)
    /\ UNCHANGED <<mover, pendingMove, pendingFlag, backend, backends, stateVars,
                   host, held, moved, sent, eventGap, reportGap, reached>>

\* An event is done with: the pending move is looked at, or the next received.
Handled == [IdleWorker EXCEPT !.pc = IF hidWorker.pc = "move" THEN "recv" ELSE "flag"]

\* send_keyboard and reset of the backend: its copy of the keyboard.
KeyboardState(keys, ev) ==
    CASE ev.type = "down" -> AddKey(keys, ev.key)
      [] ev.type = "up" -> RemoveKey(keys, ev.key)
      [] ev.type = "reset" -> NoKeys
      [] OTHER -> keys

\* process_hid_event: the backend is looked up, and the event dropped without
\* one.  The backend updates its copy of the keyboard under a lock.
Process ==
    LET ev == hidWorker.ev
        b == backends[backend]
        keys == KeyboardState(b.keys, ev)
    IN  /\ hidWorker.pc \in {"event", "move"}
        /\ IF backend = 0
           THEN /\ hidWorker' = Handled
                /\ eventGap' = (eventGap \/ ev.type \in {"down", "up"})
                /\ UNCHANGED <<backends, held>>
           ELSE /\ backends' = [backends EXCEPT ![backend].keys = keys]
                /\ held' = IF ev.type = "reset" THEN Replay(hidQueue \o hidWaiting) ELSE held
                /\ hidWorker' = IF ev.type = "move" THEN Handled
                     ELSE [pc |-> "write", ev |-> ev, to |-> backend, report |-> keys]
                /\ eventGap' = IF ev.type = "reset" THEN FALSE
                               ELSE eventGap \/ (ev.type = "down" /\ keys = b.keys)
        /\ reached' = IF ev.move > reached THEN ev.move ELSE reached
        /\ UNCHANGED <<queueVars, backend, stateVars, host, moved, sent, reportGap>>

\* send_keyboard_report, after the lock is given back.  The device is opened
\* again if it was closed (ensure_device), so a backend that was shut down may
\* still write.
ReportWritten ==
    host' = KeysIn(hidWorker.report) /\ reportGap' = (hidWorker.to # backend)
\* write_with_timeout, handle_write_error: dropped after a timeout, or failed.
ReportLost == reportGap' = TRUE /\ UNCHANGED host
WriteReport ==
    /\ hidWorker.pc = "write"
    /\ hidWorker' = Handled
    /\ ReportWritten \/ ReportLost
    /\ UNCHANGED <<queueVars, backend, backends, stateVars, held, moved, sent, eventGap, reached>>

\* pending_move_flag.swap(false), and the pending move is taken.
TakePending ==
    /\ hidWorker.pc = "flag"
    /\ pendingFlag' = FALSE
    /\ IF pendingFlag /\ pendingMove # 0
       THEN /\ pendingMove' = 0
            /\ hidWorker' = [hidWorker EXCEPT !.pc = "move", !.ev = Move(pendingMove)]
       ELSE hidWorker' = [hidWorker EXCEPT !.pc = "recv"] /\ UNCHANGED pendingMove
    /\ UNCHANGED <<hidQueue, hidWaiting, mover, backend, backends, stateVars, host,
                   held, moved, sent, eventGap, reportGap, reached>>

-----------------------------------------------------------------------------
(***************************************************************************)
(* Replacing the backend                                                   *)
(***************************************************************************)

Goes(pc) == reloading' = [reloading EXCEPT !.pc = pc]
\* handle.abort(): a runtime worker that is running goes on to its next
\* suspension.
Aborted == [b \in Backends |-> IF monitors[b].pc = "wait" THEN NoMonitor
                               ELSE [monitors[b] EXCEPT !.aborted = TRUE]]

\* reload, prepare_otg_rebuild and shutdown stop the runtime worker; the first
\* two make the backend unavailable before.
BeginReload(op, kind) ==
    /\ reloading.pc = "idle" /\ reloading.op # "shutdown"
    /\ sent < MaxHidSteps /\ sent' = sent + 1
    /\ op = "prepare" => backendType = "otg"
    /\ reloading' = [pc |-> "take", op |-> op, kind |-> kind]
    /\ available' = (op = "shutdown" /\ available)
    /\ lateStore' = FALSE
    /\ monitors' = Aborted
    /\ UNCHANGED <<queueVars, hidWorker, backend, backends, backendType, shown, host,
                   held, moved, eventGap, reportGap, reached>>

Reload(kind) == BeginReload("reload", kind)
PrepareRebuild == BeginReload("prepare", "otg")
ShutdownController == BeginReload("shutdown", "none")

\* The backend is taken; its shutdown clears its keyboard, prepare_rebuild
\* only closes the devices, for the gadget goes and comes back without keys.
TakeBackend ==
    /\ reloading.pc = "take"
    /\ backend' = 0
    /\ held' = Replay(hidQueue \o hidWaiting)
    /\ IF backend = 0 \/ reloading.op = "prepare"
       THEN /\ Goes("create")
            /\ host' = IF reloading.op = "prepare" THEN {} ELSE host
            /\ backends' = [b \in Backends |-> IF b = backend THEN
                              [backends[b] EXCEPT !.init = FALSE] ELSE backends[b]]
       ELSE /\ Goes("zero") /\ UNCHANGED host
            /\ backends' = [backends EXCEPT ![backend].keys = NoKeys]
    /\ eventGap' = (hidWorker.pc = "event")
    /\ reportGap' = (reportGap \/ hidWorker.pc = "write")
    /\ UNCHANGED <<queueVars, hidWorker, available, backendType, shown, monitors,
                   lateStore, moved, sent, reached>>

Newest == Cardinality({b \in Backends : backends[b].made})

\* The empty report of reset; if it fails the backend stays initialized.
ZeroReport ==
    /\ reloading.pc = "zero" /\ Goes("create")
    /\ \/ /\ host' = {} /\ reportGap' = (hidWorker.pc = "write")
          /\ backends' = [backends EXCEPT ![Newest].init = FALSE]
       \/ reportGap' = TRUE /\ UNCHANGED <<host, backends>>
    /\ UNCHANGED <<queueVars, hidWorker, backend, available, backendType, shown,
                   monitors, lateStore, held, moved, sent, eventGap, reached>>

\* OtgBackend::init has opened the devices.
Initialized == [init |-> TRUE, made |-> TRUE, keys |-> NoKeys]

\* HidBackendFactory::create: "none" makes no backend, "otg" one from the paths
\* of the gadget (the serial backend is module Ch9329Worker).
Creates(kind) == kind = "otg"

\* create_initialized succeeds; the event worker is started once for all.
CreateBackend ==
    /\ reloading.pc = "create" /\ reloading.op \in {"init", "reload"}
    /\ Creates(reloading.kind) /\ Newest < MaxBackends
    /\ backend' = Newest + 1
    /\ backends' = [backends EXCEPT ![backend'] = Initialized]
    /\ hidWorker' = IF hidWorker.pc = "off" THEN IdleWorker ELSE hidWorker
    /\ Goes("sync")
    /\ UNCHANGED <<queueVars, available, backendType, shown, monitors, lateStore, host,
                   held, moved, sent, eventGap, reportGap, reached>>

\* sync_runtime_state_from_backend and restart_runtime_worker.
Sync ==
    /\ reloading.pc = "sync"
    /\ reloading' = NoReload
    /\ backendType' = reloading.kind
    /\ available' = backends[backend].init /\ lateStore' = FALSE
    /\ shown' = Shown(reloading.kind, backends[backend].init)
    /\ monitors' = [monitors EXCEPT ![backend] = [NoMonitor EXCEPT !.pc = "wait"]]
    /\ UNCHANGED <<queueVars, hidWorker, backend, backends, host, held, moved, sent,
                   eventGap, reportGap, reached>>

\* Without a backend: none is wanted, its creation failed, or the controller
\* only gave it up.  Nothing stores backend_available for "none" and after
\* prepare_otg_rebuild.
NoBackend ==
    /\ reloading.pc = "create"
    /\ reloading' = [NoReload EXCEPT !.op = IF reloading.op = "shutdown" THEN "shutdown" ELSE "none"]
    /\ backendType' = IF reloading.op \in {"init", "reload"} THEN reloading.kind ELSE backendType
    /\ IF reloading.op = "prepare" \/ (reloading.kind = "none" /\ reloading.op # "shutdown")
       THEN UNCHANGED <<available, lateStore>>
       ELSE available' = FALSE /\ lateStore' = FALSE
    /\ shown' = Shown(backendType', FALSE)
    /\ UNCHANGED <<queueVars, hidWorker, backend, backends, monitors, host, held,
                   moved, sent, eventGap, reportGap, reached>>

-----------------------------------------------------------------------------
(***************************************************************************)
(* The runtime workers: apply_backend_runtime_state after a notification   *)
(***************************************************************************)

Monitor(b, m) == monitors' = [monitors EXCEPT ![b] = m]
Notified(b) ==
    /\ monitors[b].pc = "wait"
    /\ Monitor(b, [monitors[b] EXCEPT !.pc = "store", !.init = backends[b].init])
    /\ UNCHANGED <<queueVars, hidWorker, backend, backends, available, backendType,
                   shown, reloading, lateStore, host, held, moved, sent, eventGap, reportGap, reached>>
Stores(b) ==
    /\ monitors[b].pc = "store"
    /\ available' = monitors[b].init
    /\ shown' = Shown(backendType, monitors[b].init)
    /\ lateStore' = (lateStore \/ monitors[b].aborted)
    /\ Monitor(b, IF monitors[b].aborted THEN NoMonitor ELSE [NoMonitor EXCEPT !.pc = "wait"])
    /\ UNCHANGED <<queueVars, hidWorker, backend, backends, backendType, reloading, host,
                   held, moved, sent, eventGap, reportGap, reached>>
Cancelled(b) ==
    /\ monitors[b].aborted /\ Monitor(b, NoMonitor)
    /\ UNCHANGED <<queueVars, hidWorker, backend, backends, available, backendType,
                   shown, reloading, lateStore, host, held, moved, sent, eventGap, reportGap, reached>>

HidNext ==
    \/ \E k \in HidKeys : SendEvent(Down(k)) \/ SendEvent(Up(k))
    \/ Disconnect \/ SendTimesOut \/ SendMove \/ StorePending \/ RaiseFlag
    \/ Receive \/ Process \/ WriteReport \/ TakePending
    \/ \E kind \in BackendKinds : Reload(kind)
    \/ PrepareRebuild \/ ShutdownController
    \/ TakeBackend \/ ZeroReport \/ CreateBackend \/ Sync \/ NoBackend
    \/ \E b \in Backends : Notified(b) \/ Stores(b) \/ Cancelled(b)

HidSpec == HidInit /\ [][HidNext]_hidVars

-----------------------------------------------------------------------------
(***************************************************************************)
(* Properties                                                              *)
(***************************************************************************)

\* The queue never holds more than its capacity and a pending move is one that
\* was made; every variable has its type.
HidTypeOK ==
    /\ Len(hidQueue) <= HidCapacity /\ pendingMove \in 0 .. moved /\ mover \in 0 .. moved
    /\ pendingFlag \in BOOLEAN /\ available \in BOOLEAN
    /\ backend \in 0 .. MaxBackends /\ backendType \in BackendKinds
    /\ hidWorker.pc \in {"off", "recv", "event", "write", "flag", "move"}
    /\ reloading.pc \in {"idle", "take", "zero", "create", "sync"}
    /\ host \subseteq HidKeys /\ held \subseteq HidKeys

HidQuiet == /\ hidQueue = << >> /\ hidWaiting = << >> /\ hidWorker.pc = "recv"
            /\ reloading.pc = "idle" /\ backend # 0

\* Once the queue is drained the host sees exactly the keys the clients hold,
\* through repeated presses, resets and replaced backends (send_keyboard,
\* otg.rs:810; shutdown, otg.rs:920), unless an event or the last report was
\* lost or a report was being written when its backend was taken away.
HostFollowsClients == HidQuiet /\ ~eventGap /\ ~reportGap => host = held

\* While no backend is being replaced, backend_available and the published
\* state say whether there is a backend, after failed and repeated reloads
\* (mod.rs:347), unless an aborted runtime worker stored them last.
AvailabilityAgrees ==
    reloading.pc = "idle" /\ ~lateStore =>
        /\ available = (backend # 0)
        /\ shown = Shown(backendType, available)

InHand == IF hidWorker.pc \in {"event", "move"} /\ hidWorker.ev.type = "move"
          THEN {hidWorker.ev.move} ELSE {}
Queued == {hidQueue[i].move : i \in {i \in DOMAIN hidQueue : hidQueue[i].type = "move"}}
\* The newest move is never lost: it is queued, pending, in the hand of its
\* sender or of the worker, or it has been processed, also when the queue was
\* full and the worker took the pending move meanwhile (enqueue_mouse_move,
\* mod.rs:508).
NewestMoveKept ==
    moved = reached \/ moved \in Queued \cup {mover, pendingMove} \cup InHand

\* What the input path promises: once it is quiet and nothing was refused the
\* host holds the keys its clients hold, the newest move survives a full queue,
\* and the published availability is that of the backend in place.
HidPromise == HidTypeOK /\ HostFollowsClients /\ AvailabilityAgrees /\ NewestMoveKept
====
