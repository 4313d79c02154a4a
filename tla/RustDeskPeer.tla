---- MODULE RustDeskPeer ----
(***************************************************************************)
(* One incoming RustDesk connection (rustdesk/connection.rs): the task of  *)
(* handle_tcp with its select loop, the video and audio tasks that feed it *)
(* through bounded channels, the peer at the other end of the socket, and  *)
(* the service that closes all connections when it stops.                  *)
(*                                                                         *)
(* Contents are reduced to kinds.  What is kept is the order of things:    *)
(* which frame is sealed with which number, in which state a message is    *)
(* accepted, and what a select branch does to a frame that is half read.   *)
(***************************************************************************)
EXTENDS Naturals, FiniteSets

CONSTANTS
    PeKeys,         \* session keys a peer may propose
    NoKey,          \* no session key: the connection is not encrypted
    FrameSlots,     \* capacity of the video and of the audio channel
    MaxPeerSends,   \* bound: messages of the peer
    MaxFrames       \* bound: frames each stream produces

ASSUME PeerAssumption ==
    /\ NoKey \notin PeKeys
    /\ FrameSlots \in Nat \ {0}
    /\ MaxPeerSends \in Nat
    /\ MaxFrames \in Nat

VARIABLES
    peTask,     \* the spawned handle_tcp: "none", "spawned", "run", "ended"
    peState,    \* ConnectionState, shared with the connection manager
    peListed,   \* the connection is in ConnectionManager.connections
    pePassword, \* the device has a password
    peKey,      \* session_key
    peEnc,      \* enc_seqnum
    peDec,      \* dec_seqnum
    peDelay,    \* last_test_delay_sent.is_some()
    peStarted,  \* video_streaming and audio_streaming
    peVideo,    \* the video task: [pc, made, queue]
    peAudio,    \* the audio task, which announces its format first
    peNet,      \* the message of the peer on the socket, NoMsg if none
    peHalf,     \* read_frame has consumed a part of peNet
    peSkewed,   \* a part of a frame was dropped: the stream is out of step
    peClient,   \* the peer: [key, sent, open], sent its own sequence number
    peSends,    \* messages sent by the peer
    peStopped,  \* the service was stopped (close_all)
    peLogin,    \* history: a login with the right password was accepted
    peInput,    \* history: "none", or who sent the input last forwarded to HID
    peSealed    \* history: the pairs (key, number) used to seal a frame

peVars == <<peTask, peState, peListed, pePassword, peKey, peEnc, peDec, peDelay,
            peStarted, peVideo, peAudio, peNet, peHalf, peSkewed, peClient,
            peSends, peStopped, peLogin, peInput, peSealed>>

NoMsg == [kind |-> "none", key |-> NoKey, num |-> 0]

PlainKinds == {"login_good", "login_bad", "input", "misc", "delay_ask", "delay_echo", "signed_id"}
PkKinds == {"pk_sealed", "pk_empty"}
MsgKinds == PlainKinds \cup PkKinds \cup {"junk"}

Messages == [kind : MsgKinds, key : PeKeys \cup {NoKey}, num : 0..MaxPeerSends]

Idle == [pc |-> "none", made |-> 0, queue |-> 0]

StreamType == [pc : {"none", "run", "ended"}, made : 0..MaxFrames, queue : 0..FrameSlots]

PeInit ==
    /\ peTask = "none" /\ peState = "Pending" /\ peListed = FALSE
    /\ pePassword \in BOOLEAN
    /\ peKey = NoKey /\ peEnc = 0 /\ peDec = 0 /\ peDelay = FALSE
    /\ peStarted = FALSE /\ peVideo = Idle /\ peAudio = Idle
    /\ peNet = NoMsg /\ peHalf = FALSE /\ peSkewed = FALSE
    /\ peClient = [key |-> NoKey, sent |-> 0, open |-> FALSE]
    /\ peSends = 0 /\ peStopped = FALSE
    /\ peLogin = FALSE /\ peInput = "none" /\ peSealed = {}

-----------------------------------------------------------------------------
(* The connection manager *)

\* accept_connection: the state is listed, then the task is spawned.  The
\* spawned callbacks of the listener, the punch and the relay may get here
\* after the service was stopped.
AcceptConnection ==
    /\ peTask = "none"
    /\ peTask' = "spawned" /\ peListed' = TRUE
    /\ peClient' = [peClient EXCEPT !.open = TRUE]
    /\ UNCHANGED <<peState, pePassword, peKey, peEnc, peDec, peDelay, peStarted, peVideo, peAudio,
                   peNet, peHalf, peSkewed, peSends, peStopped, peLogin, peInput, peSealed>>

\* close_all: only the shared state changes.
CloseAll ==
    /\ ~peStopped
    /\ peStopped' = TRUE
    /\ peState' = IF peListed THEN "Closed" ELSE peState
    /\ UNCHANGED <<peTask, peListed, pePassword, peKey, peEnc, peDec, peDelay, peStarted, peVideo,
                   peAudio, peNet, peHalf, peSkewed, peClient, peSends, peLogin, peInput, peSealed>>

-----------------------------------------------------------------------------
(* The task *)

\* The streams die with the task: both handles are aborted, then the state is
\* set, whatever made the loop break.
EndTask ==
    /\ peTask' = "ended" /\ peState' = "Closed"
    /\ peVideo' = [peVideo EXCEPT !.pc = IF @ = "none" THEN @ ELSE "ended", !.queue = 0]
    /\ peAudio' = [peAudio EXCEPT !.pc = IF @ = "none" THEN @ ELSE "ended", !.queue = 0]

\* handle_tcp up to its loop: the SignedId goes out in plain text; an error
\* leaves the task without any clean-up (there is nothing to clean up yet).
HandleTcp ==
    /\ peTask = "spawned"
    /\ peState' = "Handshaking"
    /\ peTask' \in {"run", "ended"}
    /\ peClient' = IF peTask' = "run" THEN peClient ELSE [peClient EXCEPT !.open = FALSE]
    /\ UNCHANGED <<peListed, pePassword, peKey, peEnc, peDec, peDelay, peStarted, peVideo, peAudio,
                   peNet, peHalf, peSkewed, peSends, peStopped, peLogin, peInput, peSealed>>

\* send_encrypted_arc, and the inlined sealing of video and audio frames: the
\* next number, in plain text as long as there is no key.  `key' is the key in
\* force when the frame is sealed.
SendEncrypted(key) ==
    IF key = NoKey THEN UNCHANGED <<peEnc, peSealed>>
    ELSE /\ peEnc' = peEnc + 1
         /\ peSealed' = peSealed \cup {<<key, peEnc + 1>>}

\* A select branch other than the read completed: the future of read_frame is
\* dropped and with it the bytes it had taken from the socket.
CutRead ==
    /\ peHalf' = FALSE
    /\ peSkewed' = (peSkewed \/ peHalf)
    /\ peNet' = IF peHalf THEN [NoMsg EXCEPT !.kind = "junk"] ELSE peNet

\* read_frame took the head of a frame and waits for the rest.
ReadHalf ==
    /\ peTask = "run" /\ peNet # NoMsg /\ ~peHalf
    /\ peHalf' = TRUE
    /\ UNCHANGED <<peTask, peState, peListed, pePassword, peKey, peEnc, peDec, peDelay, peStarted,
                   peVideo, peAudio, peNet, peSkewed, peClient, peSends, peStopped, peLogin, peInput,
                   peSealed>>

\* secretbox::open with the next number of the receiver.
Opens(m) == peKey # NoKey /\ m.key = peKey /\ m.num = peDec + 1

\* What decode_message makes of a frame: a sealed one that does not open is
\* tried as plain text and does not parse; a skewed stream yields anything.
Readable(m) == m.kind # "junk" /\ (m.key = NoKey \/ Opens(m))

\* The reader is done with the frame.
Consumed(m) ==
    /\ peNet' = NoMsg /\ peHalf' = FALSE
    /\ peDec' = IF Opens(m) THEN peDec + 1 ELSE peDec
    /\ UNCHANGED <<peListed, pePassword, peSkewed, peClient, peSends, peStopped>>

\* Mutant of HandlePeerPublicKey.
HandlePeerPublicKey_Reset(m, k) ==
    /\ m.kind \in PkKinds
    /\ peKey' = IF m.kind = "pk_sealed" THEN k ELSE peKey
    /\ peEnc' = IF peKey' = NoKey THEN peEnc ELSE 1
    /\ peSealed' = peSealed \cup (IF peKey' = NoKey THEN {} ELSE {<<peKey', 1>>})
    /\ UNCHANGED <<peTask, peState, peDelay, peStarted, peVideo, peAudio, peLogin, peInput>>

\* handle_peer_public_key: a sealed symmetric key that opens becomes the
\* session key; otherwise the one in force stays.  The Hash answer is sealed
\* with the result.
HandlePeerPublicKey(m, k) ==
    /\ m.kind \in PkKinds
    /\ peKey' = IF m.kind = "pk_sealed" THEN k ELSE peKey
    /\ SendEncrypted(peKey')
    /\ UNCHANGED <<peTask, peState, peDelay, peStarted, peVideo, peAudio, peLogin, peInput>>

\* verify_password, after the test for an empty device password.
PasswordAccepted(m) == ~pePassword \/ m.kind = "login_good"

\* start_video_streaming, start_audio_streaming: a task is spawned, once.
StartStreaming(stream) == IF peStarted THEN stream ELSE [stream EXCEPT !.pc = "run"]

\* handle_login_request_arc and what its caller does with the answer: a wrong
\* or missing password is answered and changes nothing; a good one activates
\* the connection and starts the two streams unless they were started before.
HandleLoginRequest(m) ==
    /\ m.kind \in {"login_good", "login_bad"}
    /\ SendEncrypted(peKey)
    /\ IF PasswordAccepted(m)
       THEN /\ peState' = "Active" /\ peStarted' = TRUE
            /\ peLogin' = TRUE
            /\ peVideo' = StartStreaming(peVideo) /\ peAudio' = StartStreaming(peAudio)
       ELSE UNCHANGED <<peState, peStarted, peVideo, peAudio, peLogin>>
    /\ UNCHANGED <<peTask, peKey, peDelay, peInput>>

\* handle_key_event and handle_mouse_event: only in the active state, converted
\* and handed to the HID controller; a failing send is logged.  A pure move
\* that follows another too soon is dropped.
HandleInput(m) ==
    /\ m.kind = "input"
    /\ peInput' \in IF peState = "Active" THEN {peInput, IF peLogin THEN "user" ELSE "stranger"}
                    ELSE {peInput}
    /\ UNCHANGED <<peTask, peState, peKey, peEnc, peSealed, peDelay, peStarted, peVideo, peAudio, peLogin>>

\* handle_misc_arc, handle_option_message and the messages that are ignored:
\* they ask the video manager for a key frame or a bit rate, nothing else.
HandleMisc(m) ==
    /\ m.kind = "misc"
    /\ UNCHANGED <<peTask, peState, peKey, peEnc, peSealed, peDelay, peStarted, peVideo, peAudio,
                   peLogin, peInput>>

\* handle_test_delay: a question of the client is answered, its echo of ours
\* lets the next tick ask again.
HandleTestDelay(m) ==
    /\ m.kind \in {"delay_ask", "delay_echo"}
    /\ IF m.kind = "delay_ask" THEN SendEncrypted(peKey) /\ UNCHANGED peDelay
       ELSE peDelay' = FALSE /\ UNCHANGED <<peEnc, peSealed>>
    /\ UNCHANGED <<peTask, peState, peKey, peStarted, peVideo, peAudio, peLogin, peInput>>

\* handle_signed_id: our SignedId again, always in plain text.
HandleSignedId(m) ==
    /\ m.kind = "signed_id"
    /\ UNCHANGED <<peTask, peState, peKey, peEnc, peSealed, peDelay, peStarted, peVideo, peAudio,
                   peLogin, peInput>>

\* handle_message_arc.
HandleMessage ==
    /\ peTask = "run" /\ peNet # NoMsg
    /\ Consumed(peNet)
    /\ \/ /\ Readable(peNet)
          /\ \/ \E k \in PeKeys : HandlePeerPublicKey(peNet, k) /\ (peNet.kind = "pk_sealed" => k = peClient.key)
             \/ HandleLoginRequest(peNet)
             \/ HandleInput(peNet)
             \/ HandleMisc(peNet)
             \/ HandleTestDelay(peNet)
             \/ HandleSignedId(peNet)
       \/ /\ ~Readable(peNet)            \* decode_message fails: the loop breaks
          /\ EndTask
          /\ UNCHANGED <<peKey, peEnc, peSealed, peDelay, peStarted, peLogin, peInput>>
       \/ /\ peNet.kind = "junk"         \* or it parses as something ignored
          /\ UNCHANGED <<peTask, peState, peKey, peEnc, peSealed, peDelay, peStarted, peVideo,
                         peAudio, peLogin, peInput>>

\* End of file, a read error, or an answer that cannot be written.
ConnectionLost ==
    /\ peTask = "run" /\ ~peClient.open
    /\ EndTask
    /\ peNet' = NoMsg /\ peHalf' = FALSE
    /\ UNCHANGED <<peListed, pePassword, peKey, peEnc, peDec, peDelay, peStarted, peSkewed, peClient,
                   peSends, peStopped, peLogin, peInput, peSealed>>

\* video_rx: the frame is sealed and written.
SendVideo ==
    /\ peTask = "run" /\ peVideo.queue > 0
    /\ SendEncrypted(peKey) /\ CutRead
    /\ peVideo' = [peVideo EXCEPT !.queue = @ - 1]
    /\ UNCHANGED <<peTask, peState, peListed, pePassword, peKey, peDec, peDelay, peStarted, peAudio,
                   peClient, peSends, peStopped, peLogin, peInput>>

\* audio_rx.
SendAudio ==
    /\ peTask = "run" /\ peAudio.queue > 0
    /\ SendEncrypted(peKey) /\ CutRead
    /\ peAudio' = [peAudio EXCEPT !.queue = @ - 1]
    /\ UNCHANGED <<peTask, peState, peListed, pePassword, peKey, peDec, peDelay, peStarted, peVideo,
                   peClient, peSends, peStopped, peLogin, peInput>>

\* The tick of one second: a TestDelay when active and none is outstanding.
SendTestDelay ==
    /\ peTask = "run"
    /\ peState = "Active" /\ ~peDelay
    /\ SendEncrypted(peKey) /\ CutRead
    /\ peDelay' = TRUE
    /\ UNCHANGED <<peTask, peState, peListed, pePassword, peKey, peDec, peStarted, peVideo, peAudio,
                   peClient, peSends, peStopped, peLogin, peInput>>

\* The tick with nothing to send ends the select all the same.
IdleTick ==
    /\ peTask = "run" /\ peHalf
    /\ peState # "Active" \/ peDelay
    /\ CutRead
    /\ UNCHANGED <<peTask, peState, peListed, pePassword, peKey, peEnc, peDec, peDelay, peStarted,
                   peVideo, peAudio, peClient, peSends, peStopped, peLogin, peInput, peSealed>>

-----------------------------------------------------------------------------
(* The streams *)

\* run_video_streaming: both loops leave when the connection is not active.
VideoStream ==
    /\ peVideo.pc = "run"
    /\ \/ peState # "Active" /\ peVideo' = [peVideo EXCEPT !.pc = "ended"]
       \/ /\ peState = "Active" /\ peVideo.made < MaxFrames /\ peVideo.queue < FrameSlots
          /\ peVideo' = [peVideo EXCEPT !.made = @ + 1, !.queue = @ + 1]
    /\ UNCHANGED <<peTask, peState, peListed, pePassword, peKey, peEnc, peDec, peDelay, peStarted,
                   peAudio, peNet, peHalf, peSkewed, peClient, peSends, peStopped, peLogin, peInput,
                   peSealed>>

\* run_audio_streaming: the first message of a subscription is the format.
AudioStream ==
    /\ peAudio.pc = "run"
    /\ \/ peState # "Active" /\ peAudio' = [peAudio EXCEPT !.pc = "ended"]
       \/ /\ peState = "Active" /\ peAudio.made < MaxFrames /\ peAudio.queue < FrameSlots
          /\ peAudio' = [peAudio EXCEPT !.made = @ + 1, !.queue = @ + 1]
    /\ UNCHANGED <<peTask, peState, peListed, pePassword, peKey, peEnc, peDec, peDelay, peStarted,
                   peVideo, peNet, peHalf, peSkewed, peClient, peSends, peStopped, peLogin, peInput,
                   peSealed>>

-----------------------------------------------------------------------------
(* The peer (external) *)

\* The peer sends a message, sealed with its next number once it has proposed
\* a key; a PublicKey is always plain.  On a skewed stream nothing it sends is
\* read as what it is.
PeerSends ==
    /\ peClient.open /\ peTask = "run" /\ peNet = NoMsg /\ peSends < MaxPeerSends
    /\ peSends' = peSends + 1
    /\ \/ \E kind \in PlainKinds :
             /\ peClient' = [peClient EXCEPT !.sent = IF peClient.key = NoKey THEN @ ELSE @ + 1]
             /\ peNet' = IF peSkewed THEN [NoMsg EXCEPT !.kind = "junk"]
                         ELSE [kind |-> kind, key |-> peClient.key, num |-> peClient'.sent]
       \/ \E kind \in PkKinds : \E k \in PeKeys :
             /\ peClient' = IF kind = "pk_sealed" THEN [peClient EXCEPT !.key = k] ELSE peClient
             /\ peNet' = [NoMsg EXCEPT !.kind = IF peSkewed THEN "junk" ELSE kind]
    /\ UNCHANGED <<peTask, peState, peListed, pePassword, peKey, peEnc, peDec, peDelay, peStarted,
                   peVideo, peAudio, peHalf, peSkewed, peStopped, peLogin, peInput, peSealed>>

PeerCloses ==
    /\ peClient.open /\ peTask = "run"
    /\ peClient' = [peClient EXCEPT !.open = FALSE]
    /\ UNCHANGED <<peTask, peState, peListed, pePassword, peKey, peEnc, peDec, peDelay, peStarted,
                   peVideo, peAudio, peNet, peHalf, peSkewed, peSends, peStopped, peLogin, peInput,
                   peSealed>>

PeNext ==
    \/ AcceptConnection \/ CloseAll \/ HandleTcp
    \/ ReadHalf \/ HandleMessage \/ ConnectionLost
    \/ SendVideo \/ SendAudio \/ SendTestDelay \/ IdleTick
    \/ VideoStream \/ AudioStream
    \/ PeerSends \/ PeerCloses

PeSpec == PeInit /\ [][PeNext]_peVars

-----------------------------------------------------------------------------

PeTypeOK ==
    /\ peTask \in {"none", "spawned", "run", "ended"}
    /\ peState \in {"Pending", "Handshaking", "Active", "Closed"}
    /\ peListed \in BOOLEAN /\ pePassword \in BOOLEAN /\ peDelay \in BOOLEAN
    /\ peKey \in PeKeys \cup {NoKey}
    /\ peEnc \in Nat /\ peDec \in 0..MaxPeerSends
    /\ peStarted \in BOOLEAN
    /\ peVideo \in StreamType /\ peAudio \in StreamType
    /\ peNet \in Messages \cup {NoMsg}
    /\ peHalf \in BOOLEAN /\ peSkewed \in BOOLEAN
    /\ peClient \in [key : PeKeys \cup {NoKey}, sent : 0..MaxPeerSends, open : BOOLEAN]
    /\ peSends \in 0..MaxPeerSends
    /\ peStopped \in BOOLEAN /\ peLogin \in BOOLEAN
    /\ peInput \in {"none", "user", "stranger"}
    /\ peSealed \in SUBSET (PeKeys \X Nat)

\* A nonce is used once: no step seals a frame with a number that was used
\* before under the same key, whether the frame is an answer, a video or an
\* audio frame or a delay test, and however often the peer proposes a key.
NonceNeverReused ==
    [][peEnc' # peEnc => <<peKey', peEnc'>> \notin peSealed]_peVars

\* Input reaches the HID controller only from a peer whose password was
\* accepted on this connection: failed attempts, which leave the connection
\* open, never add up to a login.
InputNeedsLogin == peInput # "stranger"

\* The streams of a connection end with its task.
StreamsEndWithTask == peTask = "ended" => peVideo.pc # "run" /\ peAudio.pc # "run"

\* What the comment on close_all promises: a connection task notices that the
\* service was stopped, so none is active afterwards.
StoppedServesNobody == ~(peStopped /\ peState = "Active")

\* What a RustDesk connection promises: input only after a login, streams that
\* end with their task, and no nonce used twice under one key.
RustDeskPeerPromise == [](PeTypeOK /\ InputNeedsLogin /\ StreamsEndWithTask) /\ NonceNeverReused
====
