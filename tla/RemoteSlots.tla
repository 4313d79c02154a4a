---- MODULE RemoteSlots ----
(***************************************************************************)
(* Who is let in by the RTSP and the VNC listener (rtsp/service.rs,        *)
(* vnc/mod.rs), how an RTSP connection gets from OPTIONS to PLAY, and the  *)
(* loop that sends its video (rtsp/streaming.rs).                          *)
(*                                                                         *)
(* RTSP keeps the address of its one client in a mutex and clears it at    *)
(* the end of handle_client; VNC counts its clients and frees the place in *)
(* the destructor of a guard.  stop aborts the client tasks without        *)
(* waiting for them, so a task of the run before may end in the next one.  *)
(***************************************************************************)
EXTENDS Naturals, FiniteSets

CONSTANTS
    SlClients,   \* peer addresses
    NoClient,    \* active_client is None
    StampWidth,  \* timestamps are taken modulo this (2^32 in the code)
    MaxPts,      \* bound: presentation times
    MaxSlRuns    \* bound: starts of the service

ASSUME SlAssumption ==
    /\ NoClient \notin SlClients
    /\ StampWidth \in Nat \ {0, 1} /\ MaxPts \in Nat /\ MaxSlRuns \in Nat

VARIABLES
    slKind,   \* which of the two services
    slOne,    \* allow_one_client
    slRun,    \* [up, runs]: the listener, and how often it was started
    slCl,     \* per client: [pc, run, aborted, setup, sub, last, pts,
              \* par]; par changes with every frame sent
    slSlot,   \* active_client of RTSP
    slCount,  \* active_clients of VNC
    slLate    \* history: a guard of an earlier run was dropped in a later one

slVars == <<slKind, slOne, slRun, slCl, slSlot, slCount, slLate>>

NewClient == [pc |-> "none", run |-> 0, aborted |-> FALSE, setup |-> FALSE, sub |-> FALSE, last |-> 0, pts |-> 0, par |-> 0]
Served == {"serve", "play"}

SlInit ==
    /\ slKind \in {"rtsp", "vnc"} /\ slOne \in BOOLEAN
    /\ slRun = [up |-> FALSE, runs |-> 0]
    /\ slCl = [c \in SlClients |-> NewClient]
    /\ slSlot = NoClient /\ slCount = 0 /\ slLate = FALSE

SlStart ==
    /\ ~slRun.up /\ slRun.runs < MaxSlRuns
    /\ slRun' = [up |-> TRUE, runs |-> slRun.runs + 1]
    /\ UNCHANGED <<slKind, slOne, slCl, slSlot, slCount, slLate>>

\* stop: the accept loop has ended; every client task is aborted, and the slot
\* or the counter is reset before the tasks are gone.
SlStop ==
    /\ slRun.up
    /\ slRun' = [slRun EXCEPT !.up = FALSE]
    /\ slCl' = [c \in SlClients |-> [slCl[c] EXCEPT !.aborted = @ \/ slCl[c].pc # "none"]]
    /\ slSlot' = NoClient /\ slCount' = 0
    /\ UNCHANGED <<slKind, slOne, slLate>>

-----------------------------------------------------------------------------
(* Admission *)

\* VNC: compare_exchange in the accept loop, and the task with its guard.
VncAccept(c) ==
    /\ slKind = "vnc" /\ slRun.up /\ slCl[c].pc = "none"
    /\ slOne => slCount = 0
    /\ slCount' = slCount + 1
    /\ slCl' = [slCl EXCEPT ![c] = [NewClient EXCEPT !.pc = "serve", !.run = slRun.runs]]
    /\ UNCHANGED <<slKind, slOne, slRun, slSlot, slLate>>

\* The task ends, by itself, by an error or because it was aborted; the drop of
\* ActiveClientGuard takes one off the counter, which may be that of a later run.
VncLeave(c) ==
    /\ slKind = "vnc" /\ slCl[c].pc = "serve"
    /\ slCl' = [slCl EXCEPT ![c] = NewClient]
    /\ slCount' = IF slCount = 0 THEN 0 ELSE slCount - 1
    /\ slLate' = (slLate \/ (slCl[c].aborted /\ slCount > 0))
    /\ UNCHANGED <<slKind, slOne, slRun, slSlot>>

\* RTSP: the accept loop only spawns the task.
RtspAccept(c) ==
    /\ slKind = "rtsp" /\ slRun.up /\ slCl[c].pc = "none"
    /\ slCl' = [slCl EXCEPT ![c] = [NewClient EXCEPT !.pc = "accepted", !.run = slRun.runs]]
    /\ UNCHANGED <<slKind, slOne, slRun, slSlot, slCount, slLate>>

\* The head of handle_client: the slot, or 453.  An aborted task may still get
\* this far.
RtspAdmit(c) ==
    /\ slKind = "rtsp" /\ slCl[c].pc = "accepted"
    /\ IF slOne /\ slSlot \notin {NoClient, c}
       THEN slCl' = [slCl EXCEPT ![c] = NewClient] /\ UNCHANGED slSlot
       ELSE /\ slCl' = [slCl EXCEPT ![c].pc = "serve"]
            /\ slSlot' = IF slOne THEN c ELSE slSlot
    /\ UNCHANGED <<slKind, slOne, slRun, slCount, slLate>>

-----------------------------------------------------------------------------
(* Requests of an RTSP connection *)

\* What a request is after parse_rtsp_request, is_valid_rtsp_path, the
\* credentials and is_tcp_transport_request: only the last one changes the
\* connection (the others are answered with 400, 404, 401, 461, 405 or 200).
RtspVerdicts == {"malformed", "path", "credentials", "transport", "method", "plain", "setup"}

RtspAnswer(c) ==
    /\ slKind = "rtsp" /\ slCl[c].pc = "serve" /\ ~slCl[c].aborted
    /\ \E v \in RtspVerdicts : slCl' = [slCl EXCEPT ![c].setup = @ \/ v = "setup"]
    /\ UNCHANGED <<slKind, slOne, slRun, slSlot, slCount, slLate>>

\* PLAY after SETUP, with a subscription or, when there is none, the end of the
\* connection; before SETUP it is 455.
RtspPlay(c) ==
    /\ slKind = "rtsp" /\ slCl[c].pc = "serve" /\ ~slCl[c].aborted /\ slCl[c].setup
    /\ \E got \in BOOLEAN : slCl' = [slCl EXCEPT ![c].pc = IF got THEN "play" ELSE "end", ![c].sub = got]
    /\ UNCHANGED <<slKind, slOne, slRun, slSlot, slCount, slLate>>

\* TEARDOWN, or the end of input.
RtspTeardown(c) ==
    /\ slKind = "rtsp" /\ slCl[c].pc = "serve" /\ ~slCl[c].aborted
    /\ slCl' = [slCl EXCEPT ![c].pc = "end"]
    /\ UNCHANGED <<slKind, slOne, slRun, slSlot, slCount, slLate>>

\* pts_to_rtp_timestamp keeps the low bits only.
PtsToStamp(pts) == pts % StampWidth

\* monotonic_rtp_timestamp: the time of the frame, or one increment (at least
\* one) after the last stamp.
MonotonicStamp(pts, last, inc) ==
    IF PtsToStamp(pts) > last THEN PtsToStamp(pts) ELSE (last + (IF inc = 0 THEN 1 ELSE inc)) % StampWidth

\* A frame of the right codec is packetised with one stamp.
RtspFrame(c) ==
    /\ slCl[c].pc = "play" /\ slCl[c].sub /\ ~slCl[c].aborted
    /\ \E pts \in slCl[c].pts..MaxPts, inc \in 0..1 :
          slCl' = [slCl EXCEPT ![c].pts = pts, ![c].last = MonotonicStamp(pts, @, inc), ![c].par = 1 - @]
    /\ UNCHANGED <<slKind, slOne, slRun, slSlot, slCount, slLate>>

\* The subscription ends with the pipeline and is made again, at once or after
\* a delay.
RtspResubscribe(c) ==
    /\ slCl[c].pc = "play"
    /\ slCl' = [slCl EXCEPT ![c].sub = ~@]
    /\ UNCHANGED <<slKind, slOne, slRun, slSlot, slCount, slLate>>

\* While it plays: TEARDOWN, the end of input, or an error of the stream, which
\* handle_client logs.
RtspControl(c) ==
    /\ slCl[c].pc = "play" /\ ~slCl[c].aborted
    /\ slCl' = [slCl EXCEPT ![c].pc = "end"]
    /\ UNCHANGED <<slKind, slOne, slRun, slSlot, slCount, slLate>>

\* Mutant of RtspRelease: the slot is cleared whoever has it.
RtspRelease_Any(c) ==
    /\ slCl[c].pc = "end"
    /\ slCl' = [slCl EXCEPT ![c] = NewClient]
    /\ slSlot' = NoClient
    /\ UNCHANGED <<slKind, slOne, slRun, slCount, slLate>>

\* The end of handle_client: the slot is given back if it is this client's.
RtspRelease(c) ==
    /\ slCl[c].pc = "end"
    /\ slCl' = [slCl EXCEPT ![c] = NewClient]
    /\ slSlot' = IF slOne /\ slSlot = c THEN NoClient ELSE slSlot
    /\ UNCHANGED <<slKind, slOne, slRun, slCount, slLate>>

\* An error of read or write outside the stream leaves by `?', and an aborted
\* task is dropped: neither gives the slot back.
RtspDropped(c) ==
    /\ slKind = "rtsp" /\ slCl[c].pc # "none"
    /\ slCl[c].pc = "serve" \/ slCl[c].aborted
    /\ slCl' = [slCl EXCEPT ![c] = NewClient]
    /\ UNCHANGED <<slKind, slOne, slRun, slSlot, slCount, slLate>>

SlNext ==
    \/ SlStart \/ SlStop
    \/ \E c \in SlClients :
          \/ VncAccept(c) \/ VncLeave(c) \/ RtspAccept(c) \/ RtspAdmit(c) \/ RtspAnswer(c) \/ RtspPlay(c)
          \/ RtspTeardown(c) \/ RtspFrame(c) \/ RtspResubscribe(c) \/ RtspControl(c) \/ RtspRelease(c) \/ RtspDropped(c)

SlSpec == SlInit /\ [][SlNext]_slVars

-----------------------------------------------------------------------------

Present == {c \in SlClients : slCl[c].pc \in Served /\ ~slCl[c].aborted}

\* With allow_one_client one client is served at a time, through restarts of
\* the service and whatever a connection of an earlier run still does.  (For
\* VNC only as long as no guard of an earlier run was dropped late.)
OneClientServed == slOne /\ ~slLate => Cardinality(Present) <= 1

\* The counter of VNC never counts a client that is gone, so a place that was
\* left can be taken again.
VncPlaceComesBack ==
    slKind = "vnc" => slCount <= Cardinality({c \in SlClients : slCl[c].pc = "serve"})

\* Two frames of one connection never carry the same RTP timestamp (a receiver
\* would take them for one picture): times that stand still, start again or
\* run over the width of the field included.
StampsDiffer ==
    [][\A c \in SlClients :
          slCl[c].pc = "play" /\ slCl'[c].pc = "play" /\ slCl'[c].par # slCl[c].par => slCl'[c].last # slCl[c].last]_slVars

====
