---------------------------- MODULE MjpegClients ----------------------------
(***************************************************************************)
(* Browsers that watch MJPEG over HTTP (MjpegStreamHandler, ClientGuard    *)
(* and the cleanup task in stream/mjpeg.rs, mjpeg_stream in                *)
(* web/handlers/stream.rs).  The capture thread puts the newest frame in   *)
(* one place and rings a bell; each request has a task that takes the      *)
(* frame from there and sends it to the response body, one part at a time. *)
(* Clients are counted under the id they chose, and capture stops when the *)
(* count is zero, so the count must follow the requests.                   *)
(*                                                                         *)
(* The channel between task and body holds one part; that it is put there, *)
(* taken out and shown is one step, so a task is never a part ahead of     *)
(* what its browser shows.                                                 *)
(*                                                                         *)
(* A generation is represented by the request it was drawn for, and a      *)
(* frame's sequence number by its relation to the number of the current    *)
(* frame: "cur" the same, "old" passed by in the same numbering, "alien"   *)
(* of another numbering (a capture before, or the initial 0), which a new  *)
(* frame may happen to repeat.                                             *)
(***************************************************************************)
EXTENDS Integers, FiniteSets

CONSTANTS
    MjConns,     \* requests for the stream
    MjIds,       \* client ids
    MjId,        \* the id of each request (client_id of the query)
    NoConn,      \* no request
    MjPics,      \* pictures of the host
    NoPic, Bad,  \* no frame, and a frame that is no valid JPEG
    MjBell,      \* capacity of frame_notify (16 in the code)
    MjDropLimit, \* max_drop_same_frames (100 in the code)
    MaxMjEvents  \* bound: starts, stops, new pictures, faults and disconnections

ASSUME MjAssumption ==
    /\ MjId \in [MjConns -> MjIds] /\ NoConn \notin MjConns
    /\ NoPic \notin MjPics \cup {Bad} /\ Bad \notin MjPics
    /\ MjBell \in Nat \ {0} /\ MjDropLimit \in Nat \ {0}

VARIABLES
    mjRaw,       \* the device delivers raw frames, encoded here
    mjSrc,       \* the picture the host shows
    mjFrame,     \* current_frame
    mjOnline,    \* online
    mjDropped,   \* dropped_same_frames
    mjCapture,   \* the capture thread: pc, its frame, what it read of clients
    mjClients,   \* clients: who is counted under each id, and whether for
                 \* client_timeout_secs no part went out under it
    mjStale,     \* ids the cleanup task found stale
    mjCutting,   \* disconnect_clients_matching between retain and set_offline
    mjConn,      \* the requests
    mjEvents

mjVars == <<mjRaw, mjSrc, mjFrame, mjOnline, mjDropped, mjCapture, mjClients,
            mjStale, mjCutting, mjConn, mjEvents>>
frameVars == <<mjSrc, mjFrame, mjDropped, mjCapture>>

Vacant == [conn |-> NoConn, stale |-> FALSE]
Unread == [pic |-> NoPic, rel |-> "old"]
Idle == [pc |-> "read", pic |-> NoPic, full |-> FALSE, anew |-> FALSE]
\* A request: control point of its task, rings not heard, last_seq, the part
\* being sent and what last_seq is after it, the body, the part shown last.
NewConn == [pc |-> "new", rings |-> 0, last |-> "alien",
            part |-> Unread, body |-> "open", guard |-> FALSE, shown |-> NoPic]

\* A request that came to its end.
Spent == [NewConn EXCEPT !.pc = "over", !.body = "closed"]

\* Some requests may be over, and some of the events have happened.
MjInit ==
    /\ mjRaw \in BOOLEAN /\ mjSrc \in MjPics
    /\ mjFrame = NoPic /\ mjDropped = 0
    /\ mjOnline \in BOOLEAN
    /\ mjCapture = IF mjOnline THEN Idle ELSE [Idle EXCEPT !.pc = "off"]
    /\ mjClients = [i \in MjIds |-> Vacant]
    /\ mjStale = {} /\ mjCutting = FALSE
    /\ mjConn \in [MjConns -> {NewConn, Spent}]
    /\ mjEvents \in 0..MaxMjEvents

Happens == mjEvents < MaxMjEvents /\ mjEvents' = mjEvents + 1

-----------------------------------------------------------------------------
(***************************************************************************)
(* The capture thread: update_frame                                        *)
(***************************************************************************)

\* A ring of the bell at every task that listens; more than the bell holds is a lag.
Listens(c) == mjConn[c].pc \in {"first", "send", "wait"}
Rung ==
    [c \in MjConns |->
        IF Listens(c) THEN [mjConn[c] EXCEPT !.rings = IF @ > MjBell THEN @ ELSE @ + 1]
        ELSE mjConn[c]]

\* What a sequence number is to the next frame.  Raw frames are numbered by
\* the handler, which does not start again.
Passed(rel, lucky) ==
    IF rel = "alien" \/ (mjCapture.anew /\ ~mjRaw) THEN IF lucky THEN "cur" ELSE "alien"
    ELSE "old"
Renumbered(lucky) ==
    [c \in MjConns |->
        CASE Listens(c) /\ mjConn[c].pc # "send" -> [mjConn[c] EXCEPT !.last = Passed(@, c \in lucky)]
          [] mjConn[c].pc = "send" -> [mjConn[c] EXCEPT !.last = Passed(@, c \in lucky),
                                                        !.part.rel = Passed(@, c \in lucky)]
          [] OTHER -> mjConn[c]]

\* No client: the frame is kept for the next one, a raw frame is not.
StoreUnseen ==
    /\ mjCapture.pc = "store" /\ ~mjCapture.full
    /\ mjFrame' = IF mjRaw THEN NoPic ELSE mjCapture.pic
    /\ mjOnline' = TRUE /\ mjDropped' = 0
    /\ mjCapture' = Idle
    /\ \E lucky \in SUBSET MjConns : mjConn' = Renumbered(lucky)
    /\ UNCHANGED <<mjRaw, mjSrc, mjClients, mjStale, mjCutting, mjEvents>>

\* frames_are_identical: the current frame is kept, up to max_drop times, or
\* until it is a second old.
Same == mjFrame = mjCapture.pic /\ mjFrame \in MjPics /\ mjDropped < MjDropLimit

DropSame ==
    /\ mjCapture.pc = "store" /\ mjCapture.full /\ Same
    /\ mjDropped' = mjDropped + 1
    /\ mjCapture' = [Idle EXCEPT !.anew = mjCapture.anew]
    /\ UNCHANGED <<mjRaw, mjSrc, mjFrame, mjOnline, mjClients, mjStale, mjCutting,
                   mjConn, mjEvents>>

StoreSeen ==
    /\ mjCapture.pc = "store" /\ mjCapture.full
    /\ mjFrame' = mjCapture.pic /\ mjOnline' = TRUE /\ mjDropped' = 0
    /\ mjCapture' = [Idle EXCEPT !.pc = "ring"]
    /\ \E lucky \in SUBSET MjConns : mjConn' = Renumbered(lucky)
    /\ UNCHANGED <<mjRaw, mjSrc, mjClients, mjStale, mjCutting, mjEvents>>

Ring ==
    /\ mjCapture.pc = "ring"
    /\ mjConn' = Rung /\ mjCapture' = Idle
    /\ UNCHANGED <<mjRaw, mjSrc, mjFrame, mjOnline, mjDropped, mjClients, mjStale,
                   mjCutting, mjEvents>>

\* The next frame of the device; whether there are clients is read first.
Arrives(pic) ==
    /\ mjCapture.pc = "read"
    /\ mjCapture' = [mjCapture EXCEPT !.pc = "store", !.pic = pic,
                     !.full = \E i \in MjIds : mjClients[i].conn # NoConn]
    /\ UNCHANGED <<mjRaw, mjSrc, mjFrame, mjOnline, mjDropped, mjClients, mjStale,
                   mjCutting, mjConn>>

FrameArrives == Arrives(mjSrc) /\ UNCHANGED mjEvents
\* A torn frame of a device that compresses is kept as it came.
TornFrameArrives == ~mjRaw /\ Arrives(Bad) /\ Happens

\* A raw frame is encoded for the clients there are; when that fails it is
\* dropped, and everything stays as it was.
EncodeFails ==
    /\ mjCapture.pc = "store" /\ mjCapture.full /\ mjRaw /\ Happens
    /\ mjCapture' = [Idle EXCEPT !.anew = mjCapture.anew]
    /\ UNCHANGED <<mjRaw, mjSrc, mjFrame, mjOnline, mjDropped, mjClients, mjStale,
                   mjCutting, mjConn>>

\* Streamer::start, or the signal returns: set_online before the first frame.
CaptureStarts ==
    /\ mjCapture.pc = "off" /\ Happens
    /\ mjCapture' = [Idle EXCEPT !.anew = TRUE]
    /\ mjOnline' = TRUE
    /\ UNCHANGED <<mjRaw, mjSrc, mjFrame, mjDropped, mjClients, mjStale, mjCutting, mjConn>>

\* Streamer::stop, or the signal is lost: set_offline.
CaptureStops ==
    /\ mjCapture.pc = "read" /\ Happens
    /\ mjCapture' = [Idle EXCEPT !.pc = "off"]
    /\ mjOnline' = FALSE /\ mjConn' = Rung
    /\ UNCHANGED <<mjRaw, mjSrc, mjFrame, mjDropped, mjClients, mjStale, mjCutting>>

HostShows ==
    /\ Happens /\ mjSrc' \in MjPics \ {mjSrc}
    /\ UNCHANGED <<mjRaw, mjFrame, mjOnline, mjDropped, mjCapture, mjClients, mjStale,
                   mjCutting, mjConn>>

\* disconnect_clients_matching (a new configuration): nobody is counted any
\* more, then set_offline tells the tasks.
Disconnects ==
    /\ ~mjCutting /\ Happens
    /\ mjCutting' = TRUE /\ mjClients' = [i \in MjIds |-> Vacant]
    /\ UNCHANGED <<mjRaw, frameVars, mjOnline, mjStale, mjConn>>

GoesOffline ==
    /\ mjCutting /\ mjCutting' = FALSE
    /\ mjOnline' = FALSE /\ mjConn' = Rung
    /\ UNCHANGED <<mjRaw, frameVars, mjClients, mjStale, mjEvents>>

-----------------------------------------------------------------------------
(***************************************************************************)
(* Requests: mjpeg_stream                                                  *)
(***************************************************************************)

Tell(c, conn) == mjConn' = [mjConn EXCEPT ![c] = conn]
OnlyConn == UNCHANGED <<mjRaw, frameVars, mjOnline, mjClients, mjStale, mjCutting, mjEvents>>

\* register_client, by ClientGuard::new: the request takes the place of an
\* older one of its id.
Registers(c) == mjClients' = [mjClients EXCEPT ![MjId[c]] = [conn |-> c, stale |-> FALSE]]

Connect(c) ==
    /\ mjConn[c].pc = "new" /\ Registers(c)
    /\ Tell(c, [mjConn[c] EXCEPT !.pc = "born", !.guard = TRUE])
    /\ UNCHANGED <<mjRaw, frameVars, mjOnline, mjStale, mjCutting, mjEvents>>

Subscribe(c) ==
    /\ mjConn[c].pc = "born" /\ Tell(c, [mjConn[c] EXCEPT !.pc = "first"]) /\ OnlyConn

\* The top of the loop: a task ends when the stream went offline.
OverConn(conn) == [NewConn EXCEPT !.pc = "over", !.body = conn.body, !.guard = conn.guard,
                               !.shown = conn.shown]
Loops(conn) == IF mjOnline THEN [conn EXCEPT !.pc = "wait"] ELSE OverConn(conn)

\* The current frame is sent, or there is none to send.
Sending(conn, rel) ==
    IF mjFrame \in MjPics THEN [conn EXCEPT !.pc = "send", !.part = [pic |-> mjFrame, rel |-> rel]]
    ELSE Loops(conn)

First(c) == mjConn[c].pc = "first" /\ Tell(c, Sending(mjConn[c], "cur")) /\ OnlyConn

\* record_frame_sent: the id is not stale any more.
Active(c) == mjClients' = [mjClients EXCEPT ![MjId[c]].stale = FALSE]

\* The browser takes the part, through the channel and the body.
TakesPart(c) ==
    LET conn == mjConn[c] IN
    /\ conn.pc = "send" /\ conn.body = "open"
    /\ Tell(c, Loops([conn EXCEPT !.shown = conn.part.pic, !.last = conn.part.rel, !.part = Unread]))
    /\ Active(c)
    /\ UNCHANGED <<mjRaw, frameVars, mjOnline, mjStale, mjCutting, mjEvents>>

\* The receiver of the channel is gone.
SendFails(c) ==
    /\ mjConn[c].pc = "send" /\ mjConn[c].body = "closed"
    /\ Tell(c, OverConn(mjConn[c]))
    /\ OnlyConn

\* recv of the bell: after a lag the frame goes out whatever its number.
Hear(c) ==
    LET conn == mjConn[c]
        lag == conn.rings > MjBell
        heard == [conn EXCEPT !.rings = IF lag THEN MjBell ELSE @ - 1] IN
    /\ conn.pc = "wait" /\ conn.rings > 0
    /\ Tell(c, CASE mjOnline /\ (lag \/ conn.last # "cur") -> Sending(heard, "cur")
                 [] OTHER -> Loops(heard))
    /\ OnlyConn

\* Five seconds without a ring: the frame is sent again, which does not touch
\* last_seq; the seventh time in a row, or offline, the task ends.
TimesOut(c) ==
    /\ mjConn[c].pc = "wait" /\ mjConn[c].rings = 0
    /\ \/ Tell(c, OverConn(mjConn[c]))
       \/ mjOnline /\ Tell(c, Sending(mjConn[c], mjConn[c].last))
    /\ OnlyConn

\* The task is over, and its sender with it.
BodyEnds(c) ==
    /\ mjConn[c].body = "open" /\ mjConn[c].pc = "over"
    /\ Tell(c, [mjConn[c] EXCEPT !.body = "closed"])
    /\ OnlyConn

\* The browser goes: the body is dropped.
BrowserGoes(c) ==
    /\ mjConn[c].body = "open" /\ mjConn[c].pc \notin {"new", "over"}
    /\ Tell(c, [mjConn[c] EXCEPT !.body = "closed"])
    /\ OnlyConn

\* Mutant of Unregister: the generation is not looked at.
Unregister_Any(c) ==
    LET conn == mjConn[c] IN
    /\ conn.guard /\ conn.pc = "over" /\ conn.body = "closed"
    /\ Tell(c, [conn EXCEPT !.guard = FALSE])
    /\ mjClients' = [mjClients EXCEPT ![MjId[c]] = Vacant]
    /\ UNCHANGED <<mjRaw, frameVars, mjOnline, mjStale, mjCutting, mjEvents>>

\* ClientGuard is dropped with the last of task and body: unregister_client.
Unregister(c) ==
    LET conn == mjConn[c] IN
    /\ conn.guard /\ conn.pc = "over" /\ conn.body = "closed"
    /\ Tell(c, [conn EXCEPT !.guard = FALSE])
    /\ mjClients' = [mjClients EXCEPT ![MjId[c]] = IF @.conn = c THEN Vacant ELSE @]
    /\ UNCHANGED <<mjRaw, frameVars, mjOnline, mjStale, mjCutting, mjEvents>>

-----------------------------------------------------------------------------
(***************************************************************************)
(* The cleanup task                                                        *)
(***************************************************************************)

\* client_timeout_secs pass without a part for the id.  A body that takes its
\* parts gets one every second as long as frames come.
Starves(c) ==
    \/ mjConn[c].body = "closed" \/ mjConn[c].pc = "send"
    \/ mjCapture.pc = "off" \/ mjFrame \notin MjPics

Ages(i) ==
    /\ mjClients[i].conn # NoConn /\ ~mjClients[i].stale /\ Starves(mjClients[i].conn)
    /\ mjClients' = [mjClients EXCEPT ![i].stale = TRUE]
    /\ UNCHANGED <<mjRaw, frameVars, mjOnline, mjStale, mjCutting, mjConn, mjEvents>>

CleanupScans ==
    /\ mjStale = {} /\ \E i \in MjIds : mjClients[i].stale
    /\ mjStale' = {i \in MjIds : mjClients[i].stale}
    /\ UNCHANGED <<mjRaw, frameVars, mjOnline, mjClients, mjCutting, mjConn, mjEvents>>

\* By id: whoever is counted under it by now.
CleanupRemoves ==
    /\ mjStale # {} /\ mjStale' = {}
    /\ mjClients' = [i \in MjIds |-> IF i \in mjStale THEN Vacant ELSE mjClients[i]]
    /\ UNCHANGED <<mjRaw, frameVars, mjOnline, mjCutting, mjConn, mjEvents>>

CaptureSteps == FrameArrives \/ StoreUnseen \/ DropSame \/ StoreSeen \/ Ring
TaskSteps(c) == Subscribe(c) \/ First(c) \/ SendFails(c) \/ Hear(c) \/ BodyEnds(c) \/ Unregister(c)

MjNext ==
    \/ CaptureSteps \/ TornFrameArrives \/ EncodeFails \/ CaptureStarts \/ CaptureStops
    \/ HostShows \/ Disconnects \/ GoesOffline
    \/ \E c \in MjConns : Connect(c) \/ TaskSteps(c) \/ TimesOut(c) \/ TakesPart(c) \/ BrowserGoes(c)
    \/ \E i \in MjIds : Ages(i)
    \/ CleanupScans \/ CleanupRemoves

\* The capture thread delivers while it runs, tasks on the runtime go on, time
\* passes for a client that left; a browser may stop reading for good.
MjTurn(i) ==
    CASE i = 1 -> CaptureSteps
      [] i = 2 -> CleanupScans \/ CleanupRemoves
      [] i = 3 -> GoesOffline
      [] OTHER -> \E k \in MjIds : Ages(k) /\ mjConn[mjClients[k].conn].body = "closed"

MjFairness ==
    /\ \A i \in 1..4 : WF_mjVars(MjTurn(i))
    /\ \A c \in MjConns : WF_mjVars(TaskSteps(c))

MjSpec == MjInit /\ [][MjNext]_mjVars /\ MjFairness

-----------------------------------------------------------------------------
Counted(c) == mjClients[MjId[c]].conn = c

\* Whoever is counted still has a task or a body: a request that ended leaves
\* nothing behind that keeps capture running (ClientGuard).
CountedIsAlive == \A c \in MjConns : Counted(c) => mjConn[c].guard

\* A request loses its place by its own end, a disconnection or the cleanup
\* task only: the end of an older one of the same id does not take it away
\* (expected_generation of unregister_client).
PlaceIsKept ==
    [][\A c \in MjConns : Counted(c) /\ mjClients'[MjId[c]] = Vacant =>
           mjCutting' \/ MjId[c] \in mjStale \/ ~mjConn'[c].guard]_mjVars

\* A browser that stays counted and reads on, at a capture that runs, comes to
\* show the picture the host rests on: whatever it missed between counting,
\* subscribing and looking, by a lag or by a number that came twice, the drop
\* limit of equal frames brings it (update_frame, mjpeg_stream).
PictureArrives ==
    \A c \in MjConns, p \in MjPics :
        /\ <>[](Counted(c) /\ mjCapture.pc # "off" /\ mjSrc = p)
        /\ []<>(mjConn[c].pc # "send")
        => <>[](mjConn[c].shown = p)

\* A browser that left is not counted for ever, even when its task has
\* nothing to send and does not notice (start_cleanup_task).
LeaverIsForgotten ==
    \A c \in MjConns : []<>(mjConn[c].body # "closed" \/ ~Counted(c))
=============================================================================
