---- MODULE PeerSession ----
(***************************************************************************)
(* One browser session (src/webrtc/universal_session.rs, video_track.rs):  *)
(* the tasks that forward video and audio of the shared encoder to a peer  *)
(* connection, from the first connected state to close().                  *)
(*                                                                         *)
(* The encoder never waits for a session: the queue holds one frame and a  *)
(* frame that finds it full is dropped (broadcast_encoded).  Sequence      *)
(* numbers are kept as what they decide: a frame is "gap" when one that    *)
(* was encoded after the last one written has not been written.  The peer  *)
(* connection of webrtc-rs is external.                                    *)
(***************************************************************************)
EXTENDS Naturals, Sequences

CONSTANTS
    RetryLimit,   \* KEYFRAME_RETRY_LIMIT
    MaxLostKeys,  \* bound: keyframes that find the queue full
    MaxPsEvents,  \* bound: failed writes, PLI/FIR and changes of pipeline
    MaxNews       \* bound: changes of the connection

ASSUME PsAssumption == RetryLimit \in Nat \ {0} /\ {MaxLostKeys, MaxPsEvents, MaxNews} \subseteq Nat

VARIABLES
    psState,   \* the watch of ConnectionState, written by two callbacks and by close
    psVideo,   \* video receiver: [pc, unseen, waiting, fresh (no last_sequence), reqs]
    psAudio,   \* audio receiver: [pc, unseen]
    psDue,     \* next_keyframe_retry has passed
    psQueue,   \* the one-slot channel
    psMissed,  \* a frame encoded after the queued (else the last written) one is lost
    psEnc,     \* the pipeline: [id, apart, want, idr]
    psSets,    \* H264TrackState: encoder whose parameter sets are cached, 0 for none
    psClient,  \* history: [intact, broken, bare, told, lame]
    psClose,   \* close(): "open", "aborted", "closed", "failed"
    psCount    \* [lost, events, news]

psVars == <<psState, psVideo, psAudio, psDue, psQueue, psMissed, psEnc, psSets, psClient, psClose, psCount>>
psStream == <<psQueue, psMissed, psEnc>>

PsStates == {"new", "connecting", "connected", "disconnected", "failed", "closed"}
Ended == {"closed", "failed", "disconnected"}

\* A receiver as start_from_video_pipeline spawns it.
NewReceiver == [pc |-> "wait", unseen |-> TRUE, waiting |-> TRUE, fresh |-> TRUE, reqs |-> 0]

\* history of a client: every frame since its last keyframe has reached it;
\* it was given a frame it cannot decode; it was given a keyframe without the
\* sets of its encoder; the sets of this encoder have reached the receiver;
\* the first keyframe of this receiver could not be written.
NewClient == [intact |-> FALSE, broken |-> FALSE, bare |-> FALSE, told |-> FALSE, lame |-> FALSE]

PsInit ==
    /\ psState = "new" /\ psVideo = NewReceiver /\ psAudio = [pc |-> "wait", unseen |-> TRUE]
    /\ psDue = FALSE /\ psQueue = <<>> /\ psMissed = FALSE
    /\ \E a \in BOOLEAN : psEnc = [id |-> 1, apart |-> a, want |-> FALSE, idr |-> FALSE]
    /\ psSets = 0 /\ psClient = NewClient /\ psClose = "open"
    /\ psCount = [lost |-> 0, events |-> 0, news |-> 0]

-----------------------------------------------------------------------------
\* The connection

\* Every send on the watch wakes both receivers.
SendState(s) ==
    /\ psState' = s
    /\ psVideo' = [psVideo EXCEPT !.unseen = TRUE] /\ psAudio' = [psAudio EXCEPT !.unseen = TRUE]

\* on_peer_connection_state_change: late news of before the connection is ignored.
\* close() waits for the peer connection, whose callbacks go on meanwhile.
PcState(s) ==
    /\ psClose # "closed" /\ psCount.news < MaxNews
    /\ ~(psState = "connected" /\ s \in {"new", "connecting"})
    /\ SendState(s) /\ psCount' = [psCount EXCEPT !.news = @ + 1]
    /\ UNCHANGED <<psDue, psStream, psSets, psClient, psClose>>

\* on_ice_connection_state_change: no comparison with the state there is.
IceState(s) ==
    /\ psClose # "closed" /\ psCount.news < MaxNews
    /\ s \in {"connected"} \cup Ended
    /\ SendState(s) /\ psCount' = [psCount EXCEPT !.news = @ + 1]
    /\ UNCHANGED <<psDue, psStream, psSets, psClient, psClose>>

\* close: both tasks are aborted before the peer connection is closed.
CloseAborts ==
    /\ psClose \in {"open", "failed"} /\ psClose' = "aborted"
    /\ psVideo' = [NewReceiver EXCEPT !.pc = "done"] /\ psAudio' = [psAudio EXCEPT !.pc = "done"]
    /\ UNCHANGED <<psState, psDue, psStream, psSets, psClient, psCount>>

\* close, after pc.close(); which may fail (external), and then nobody is told.
CloseEnds ==
    /\ psClose = "aborted"
    /\ \/ psClose' = "closed" /\ SendState("closed") /\ UNCHANGED psCount
       \/ /\ psCount.news < MaxNews /\ psCount' = [psCount EXCEPT !.news = @ + 1]
          /\ psClose' = "failed" /\ UNCHANGED <<psState, psVideo, psAudio>>
    /\ UNCHANGED <<psDue, psStream, psSets, psClient>>

-----------------------------------------------------------------------------
\* The encoder

\* broadcast_encoded: try_send into the one-slot queue, which a receiver that
\* ended has closed.
Broadcast(kind) ==
    IF psVideo.pc = "done" THEN UNCHANGED <<psQueue, psMissed, psCount>>
    ELSE IF psQueue = <<>>
    THEN psQueue' = <<[kind |-> kind, gap |-> psMissed]>> /\ psMissed' = FALSE /\ UNCHANGED psCount
    ELSE /\ psMissed' = TRUE /\ UNCHANGED psQueue
         /\ kind = "key" => psCount.lost < MaxLostKeys
         /\ psCount' = [psCount EXCEPT !.lost = IF kind = "key" THEN @ + 1 ELSE @]

\* encode_frame_sync: a keyframe when one was asked for, with its parameter
\* sets in it or in a unit of their own before it.
Encode ==
    /\ \/ ~psEnc.want /\ ~psEnc.idr /\ Broadcast("delta") /\ UNCHANGED psEnc
       \/ psEnc.want /\ ~psEnc.idr /\ psEnc.apart
          /\ Broadcast("sets") /\ psEnc' = [psEnc EXCEPT !.want = FALSE, !.idr = TRUE]
       \/ psEnc.idr /\ Broadcast("key") /\ psEnc' = [psEnc EXCEPT !.idr = FALSE]
       \/ psEnc.want /\ ~psEnc.idr /\ ~psEnc.apart /\ Broadcast("key") /\ psEnc' = [psEnc EXCEPT !.want = FALSE]
    /\ UNCHANGED <<psState, psVideo, psAudio, psDue, psSets, psClient, psClose>>

\* start_from_video_pipeline aborts the receiver there is and spawns another.
StartReceiver == psVideo' = NewReceiver /\ psQueue' = <<>> /\ psMissed' = FALSE

\* reconnect_sessions_to_current_pipeline works on a list of sessions: this
\* one may be closing, or closed.
Reconnect ==
    /\ psCount.events < MaxPsEvents /\ psCount' = [psCount EXCEPT !.events = @ + 1]
    /\ \E a \in BOOLEAN : psEnc' = [id |-> psEnc.id + 1, apart |-> a, want |-> FALSE, idr |-> FALSE]
    /\ StartReceiver
    /\ psClient' = [psClient EXCEPT !.intact = FALSE, !.told = FALSE, !.lame = FALSE]
    /\ UNCHANGED <<psState, psAudio, psDue, psSets, psClose>>

-----------------------------------------------------------------------------
\* The receivers

RequestKeyframe == psEnc' = [psEnc EXCEPT !.want = TRUE]

\* Before the connection: the queue is not read.
VideoWaits ==
    /\ psVideo.pc = "wait"
    /\ CASE psState = "connected" ->
              /\ psVideo' = [psVideo EXCEPT !.pc = "run", !.reqs = 1] /\ psDue' = FALSE /\ RequestKeyframe
         [] psState \in {"closed", "failed"} ->
              psVideo' = [NewReceiver EXCEPT !.pc = "done"] /\ UNCHANGED <<psDue, psEnc>>
         [] OTHER ->
              /\ psVideo.unseen /\ psVideo' = [psVideo EXCEPT !.unseen = FALSE] /\ UNCHANGED <<psDue, psEnc>>
    /\ UNCHANGED <<psState, psAudio, psQueue, psMissed, psSets, psClient, psClose, psCount>>

\* The select is biased: news of the connection come first.
VideoState ==
    /\ psVideo.pc = "run" /\ psVideo.unseen
    /\ psVideo' = IF psState \in Ended THEN [NewReceiver EXCEPT !.pc = "done"] ELSE [psVideo EXCEPT !.unseen = FALSE]
    /\ UNCHANGED <<psState, psAudio, psDue, psStream, psSets, psClient, psClose, psCount>>

\* keyframe_feedback.recv(), which comes before the frames.
AskAgain ==
    /\ psVideo.pc = "run" /\ ~psVideo.unseen
    /\ RequestKeyframe /\ psVideo' = [psVideo EXCEPT !.waiting = TRUE, !.reqs = 1] /\ psDue' = FALSE

\* PLI or FIR, forwarded by the task that reads RTCP.
Feedback ==
    /\ psCount.events < MaxPsEvents /\ psCount' = [psCount EXCEPT !.events = @ + 1]
    /\ AskAgain
    /\ UNCHANGED <<psState, psAudio, psQueue, psMissed, psSets, psClient, psClose>>

Gap(f) == ~psVideo.fresh /\ f.gap

\* Mutant of Skips: a gap is not looked at.
Skips_NoGap(f) == psVideo.waiting /\ f.kind = "delta"

\* Frames that are not forwarded; parameter sets are, for the keyframe that follows.
Skips(f) == (psVideo.waiting \/ Gap(f)) /\ f.kind = "delta"

\* What is written to the track.
Forwards(f) == ~Skips(f)

\* The retry budget, spent on frames that cannot be used.
MayRetry(reqs) == reqs < RetryLimit

\* The receiver after frame f, before it is written.
Gated(f, ok) ==
    LET begins == Gap(f) /\ ~psVideo.waiting
        reqs == IF begins THEN 0 ELSE psVideo.reqs
        asks == MayRetry(reqs) /\ (psDue \/ begins)
    IN CASE f.kind = "key" -> psVideo' = [psVideo EXCEPT !.waiting = FALSE, !.reqs = IF psVideo.waiting \/ Gap(f) THEN 0 ELSE @,
                                                          !.fresh = @ /\ ~ok]
                              /\ psDue' = FALSE /\ UNCHANGED psEnc
         [] f.kind # "key" /\ (psVideo.waiting \/ Gap(f)) ->
              /\ psVideo' = [psVideo EXCEPT !.waiting = TRUE, !.reqs = IF asks THEN reqs + 1 ELSE reqs,
                                            !.fresh = @ /\ (f.kind = "delta" \/ ~ok)]
              /\ IF asks THEN RequestKeyframe /\ psDue' = FALSE
                 ELSE psDue' = (psDue \/ begins) /\ UNCHANGED psEnc
         [] OTHER -> psVideo' = [psVideo EXCEPT !.fresh = @ /\ ~ok] /\ UNCHANGED <<psDue, psEnc>>

\* write_h264_frame: sets are remembered, a keyframe without them gets them.
Track(f) ==
    psSets' = IF Forwards(f) /\ (f.kind = "sets" \/ (f.kind = "key" /\ ~psEnc.apart)) THEN psEnc.id ELSE psSets

Sees(f, ok) ==
    psClient' =
      [intact |-> IF f.kind = "key" THEN ok ELSE psClient.intact /\ ~f.gap /\ ok,
       broken |-> psClient.broken \/ (ok /\ f.kind = "delta" /\ ~psClient.lame /\ ~(psClient.intact /\ ~f.gap)),
       bare   |-> psClient.bare \/ (ok /\ f.kind = "key" /\ psEnc.apart /\ psClient.told /\ psSets # psEnc.id),
       told   |-> psClient.told \/ f.kind = "sets",
       lame   |-> IF f.kind = "key" THEN ~ok /\ psVideo.fresh ELSE psClient.lame]

\* recv and write_frame_bytes
VideoFrame ==
    LET f == Head(psQueue) IN
    /\ psVideo.pc = "run" /\ ~psVideo.unseen /\ psQueue # <<>>
    /\ psQueue' = <<>>
    /\ \/ /\ Forwards(f) /\ UNCHANGED <<psCount, psMissed>>
          /\ Gated(f, TRUE) /\ Track(f) /\ Sees(f, TRUE)
       \/ /\ Forwards(f) /\ psCount.events < MaxPsEvents
          /\ psCount' = [psCount EXCEPT !.events = @ + 1] /\ psMissed' = TRUE
          /\ Gated(f, FALSE) /\ Track(f) /\ Sees(f, FALSE)
       \/ /\ ~Forwards(f) /\ psMissed' = TRUE /\ UNCHANGED psCount
          /\ Gated(f, FALSE) /\ UNCHANGED psSets
          /\ psClient' = [psClient EXCEPT !.intact = FALSE, !.told = @ \/ f.kind = "sets"]
    /\ UNCHANGED <<psState, psAudio, psClose>>

\* The delay of a second or more is longer than the encoder takes to answer.
RetryDue ==
    /\ psVideo.pc = "run" /\ psVideo.waiting /\ ~psEnc.want /\ ~psEnc.idr
    /\ ~psDue /\ psDue' = TRUE
    /\ UNCHANGED <<psState, psVideo, psAudio, psStream, psSets, psClient, psClose, psCount>>

\* start_audio_from_opus: the task waits and stops like the other one.
AudioStep ==
    /\ \/ psAudio.pc = "wait" /\ psState = "connected" /\ psAudio' = [psAudio EXCEPT !.pc = "run"]
       \/ psAudio.pc = "wait" /\ psState \in {"closed", "failed"} /\ psAudio' = [psAudio EXCEPT !.pc = "done"]
       \/ psAudio.pc = "wait" /\ psState \notin {"connected", "closed", "failed"} /\ psAudio.unseen
          /\ psAudio' = [psAudio EXCEPT !.unseen = FALSE]
       \/ psAudio.pc = "run" /\ psAudio.unseen
          /\ psAudio' = [psAudio EXCEPT !.unseen = FALSE, !.pc = IF psState \in Ended THEN "done" ELSE @]
    /\ UNCHANGED <<psState, psVideo, psDue, psStream, psSets, psClient, psClose, psCount>>

PsNext ==
    \/ \E s \in PsStates : PcState(s) \/ IceState(s)
    \/ CloseAborts \/ CloseEnds \/ Encode \/ Reconnect
    \/ VideoWaits \/ VideoState \/ Feedback \/ VideoFrame \/ RetryDue \/ AudioStep

\* Spawned tasks run; frames keep coming; time passes; close() goes on to its end.
PsTurn(i) ==
    CASE i = 1 -> VideoWaits \/ VideoState \/ VideoFrame
      [] i = 2 -> AudioStep
      [] i = 3 -> Encode
      [] i = 4 -> RetryDue
      [] i = 5 -> CloseEnds
      [] OTHER -> FALSE

PsFairness == \A i \in 1..5 : WF_psVars(PsTurn(i))

PsSpec == PsInit /\ [][PsNext]_psVars /\ PsFairness

-----------------------------------------------------------------------------

\* The browser is never given a frame that refers to one it has not got,
\* whatever the queue dropped and whatever write failed; except after a first
\* keyframe that could not be written.
PictureNeverBroken == ~psClient.broken

\* A keyframe whose parameter sets came in a unit of their own goes out with
\* them, also after a change of pipeline has left older ones in the track.
KeysCarrySets == ~psClient.bare

\* Keyframes that find the queue full are asked for again: up to two of them
\* may be lost and the picture comes back, without a keyframe of the encoder's
\* own accord.
PictureComesBack == []<>(psVideo.pc # "run" \/ ~psVideo.waiting)

\* A session that was closed lets go of its frames: also a receiver that a
\* reconnection started while close() was waiting for the peer connection.
CloseEndsReceivers == []<>(psClose # "closed" \/ (psVideo.pc = "done" /\ psAudio.pc = "done"))
====
