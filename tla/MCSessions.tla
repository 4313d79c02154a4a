----------------------------- MODULE MCSessions -----------------------------
(***************************************************************************)
(* The parts that keep a session with somebody else alive: the             *)
(* registration of RustDesk, computer use, the browser's peer connection,  *)
(* its MJPEG stream and its event socket.  One run checks them all: a      *)
(* behaviour chooses a part and runs that part alone, under the fairness   *)
(* of that part.                                                           *)
(***************************************************************************)
EXTENDS RustDeskService, ComputerUse, PeerSession, MjpegClients, EventHub

CONSTANTS c1, c2, u1, u2, w1

VARIABLE part   \* the part that runs

vars == <<part, rsVars, cuVars, psVars, mjVars, ehVars>>

\* Two requests of one browser.
MCId == [c \in MjConns |-> "browser"]

\* Either one request and events, starts with raw frames counting as one, or
\* two requests that compete for their place while nothing is captured.
OneReads == mjConn = [c \in MjConns |-> IF c = c2 THEN Spent ELSE NewConn] /\ mjEvents = IF mjRaw THEN 1 ELSE 0
BothCompete == mjConn = [c \in MjConns |-> NewConn] /\ mjEvents = MaxMjEvents /\ ~mjOnline /\ ~mjRaw

\* Either one publisher and a client that asks twice, or two and one question.
AsksTwice == ehPub[u1].pc = "idle" /\ ehPub[u2].pc = "gone" /\ ehSock[w1].asks = 0
TwoPublish == ehPub[u1].pc = "idle" /\ ehPub[u2].pc = "idle" /\ ehSock[w1].asks = MaxEhAsks - 1

\* The parts that do not run have one initial state.
MCInit ==
    /\ part \in {"rustdesk", "computer", "peer", "mjpeg", "events"}
    /\ IF part = "peer" THEN TRUE ELSE psEnc = [id |-> 1, apart |-> TRUE, want |-> FALSE, idr |-> FALSE]
    /\ RsInit /\ CuInit /\ PsInit /\ MjInit /\ EhInit
    /\ mjSrc = "p" /\ IF part = "mjpeg" THEN OneReads \/ BothCompete ELSE OneReads /\ mjRaw /\ mjOnline
    /\ IF part = "events" THEN AsksTwice \/ TwoPublish ELSE AsksTwice

\* Only the part that was chosen steps.
Alone ==
    /\ UNCHANGED part
    /\ part # "rustdesk" => UNCHANGED rsVars
    /\ part # "computer" => UNCHANGED cuVars
    /\ part # "peer" => UNCHANGED psVars
    /\ part # "mjpeg" => UNCHANGED mjVars
    /\ part # "events" => UNCHANGED ehVars

MCNext ==
    /\ Alone
    /\ \/ part = "rustdesk" /\ RsNext
       \/ part = "computer" /\ CuNext
       \/ part = "peer" /\ PsNext
       \/ part = "mjpeg" /\ MjNext
       \/ part = "events" /\ EhNext

\* The fairness of the part that runs.
MCFairness ==
    /\ \A i \in 1..6 : WF_rsVars(part = "rustdesk" /\ RsTurn(i))
    /\ \A i \in 1..4 : WF_cuVars(part = "computer" /\ CuTurn(i))
    /\ \A i \in 1..5 : WF_psVars(part = "peer" /\ PsTurn(i))
    /\ \A i \in 1..4 : WF_mjVars(part = "mjpeg" /\ MjTurn(i))
    /\ \A c \in MjConns : WF_mjVars(part = "mjpeg" /\ TaskSteps(c))
    /\ \A w \in EhSockets, i \in 1..5 : WF_ehVars(part = "events" /\ EhTurn(w, i))

\* What the sessions keep in every state: a stopped RustDesk service leaves
\* nothing running but what a stop given up before let go of, and a server that
\* fell silent shows; computer use acts on the screen it asked for; the picture of a peer connection is whole and comes with
\* its parameter sets; a client that is counted is alive; an event is heard once.
SessionsSafe ==
    /\ RsTypeOK /\ StoppedLeavesNothing /\ SilenceShows
    /\ ActsOnFreshScreen
    /\ PictureNeverBroken /\ KeysCarrySets
    /\ CountedIsAlive
    /\ HeardOnce

\* What the sessions promise: computer use comes to rest with no key down, the
\* service is registered, pictures and events come to those who watch, and those
\* who left are let go of.
SessionsPromise ==
    /\ []NoKeyLeftDown /\ StopComesToRest
    /\ RegistersInTheEnd
    /\ PictureComesBack /\ CloseEndsReceivers
    /\ PictureArrives /\ LeaverIsForgotten
    /\ InfoArrives /\ StateArrives

MCSpec == MCInit /\ [][MCNext]_vars /\ MCFairness
=============================================================================
