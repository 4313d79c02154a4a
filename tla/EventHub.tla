------------------------------ MODULE EventHub ------------------------------
(***************************************************************************)
(* What the browser is told of the devices (EventBus in events/mod.rs, the *)
(* device information of state.rs, its broadcaster in main.rs and the      *)
(* event WebSocket in web/ws.rs).  A component changes, then publishes the *)
(* change or marks it; the broadcaster collects a snapshot at most every   *)
(* 100 ms and leaves it in a watch.  Each socket has a task per topic,     *)
(* rebuilt whenever its subscription changes, and one queue to the client. *)
(*                                                                         *)
(* A forwarding task takes a message and queues it in one step: there is   *)
(* no await between the two.                                               *)
(***************************************************************************)
EXTENDS Integers, Sequences, FiniteSets

CONSTANTS
    EhSockets,     \* WebSocket clients
    EhPublishers,  \* tasks that publish stream.state_changed for video
    EhTopicSets,   \* the subscriptions clients ask for
    EhCapacity,    \* EVENT_CHANNEL_CAPACITY (256 in the code)
    MaxEhChanges,  \* bound: changes of the components
    MaxEhAsks      \* bound: subscriptions, and unsubscriptions

Parts == {"video", "hid"}
Topics == {"*", "system.*", "system.device_info", "stream.*",
           "stream.state_changed", "stream.stats_update"}

ASSUME EhAssumption ==
    EhTopicSets \subseteq SUBSET Topics /\ EhCapacity \in Nat \ {0}

VARIABLES
    ehDev,      \* the components: how often each one has changed
    ehOwed,     \* hid has changed and is not marked yet
    ehPub,      \* each publisher: its control point and its event
    ehLatest,   \* latest_video_stream_state
    ehSignals,  \* what the broadcaster's forwarders have not received yet
    ehTriggers, \* trigger_tx
    ehCast,     \* the broadcaster
    ehWatch,    \* device_info_tx
    ehSock      \* the sockets

ehVars == <<ehDev, ehOwed, ehPub, ehLatest, ehSignals, ehTriggers, ehCast, ehWatch, ehSock>>
busVars == <<ehDev, ehOwed, ehPub, ehLatest, ehSignals>>
castVars == <<ehTriggers, ehCast, ehWatch>>

NoTask == [pc |-> "off", info |-> <<>>, fresh |-> FALSE]
\* A socket: its topics, the task of the device information, the receiver of
\* stream states, event_tx, what the client shows, and whether it was told
\* of the latest stream state.
NewSock == [topics |-> {}, asks |-> 0, up |-> TRUE, pc |-> "idle", infoTask |-> NoTask,
            queue |-> <<>>, listens |-> FALSE, out |-> <<>>, info |-> <<>>, state |-> 0,
            missed |-> FALSE]

\* A publisher may be gone already, and the questions of a client used up.
EhInit ==
    /\ ehDev = [p \in Parts |-> 0] /\ ehOwed = FALSE
    /\ ehPub \in [EhPublishers -> {[pc |-> pc, event |-> 0] : pc \in {"idle", "gone"}}]
    /\ ehLatest = 0
    /\ ehSignals = [p \in Parts |-> 0] /\ ehTriggers = 0
    /\ ehCast = [pc |-> "recv", pending |-> FALSE, cool |-> FALSE, info |-> <<>>]
    /\ ehWatch = ehDev
    /\ \E asks \in [EhSockets -> 0..MaxEhAsks] :
           ehSock = [w \in EhSockets |-> [NewSock EXCEPT !.asks = asks[w]]]

-----------------------------------------------------------------------------
(***************************************************************************)
(* Topics                                                                  *)
(***************************************************************************)

\* prefix_topics: the topics of a wildcard.
Prefix(topic) == CASE topic \in {"system.device_info"} -> "system.*"
                   [] topic \in {"stream.state_changed", "stream.stats_update"} -> "stream.*"
                   [] OTHER -> "none"

\* Mutant of NormalizeTopics: a topic stays beside its wildcard.
NormalizeTopics_All(topics) == IF "*" \in topics THEN {"*"} ELSE topics

\* The client hears every event once, whatever it asked for.
NormalizeTopics(topics) ==
    IF "*" \in topics THEN {"*"} ELSE {t \in topics : Prefix(t) \notin topics}

IsDeviceInfoTopic(topic) == topic \in {"*", "system.*", "system.device_info"}
IsStreamStateTopic(topic) == topic \in {"*", "stream.*", "stream.state_changed"}
WantsInfo(topics) == \E t \in NormalizeTopics(topics) : IsDeviceInfoTopic(t)
WantsState(topics) == \E t \in NormalizeTopics(topics) : IsStreamStateTopic(t)
\* The receivers of the bus that deliver a stream state.
Receivers(topics) == {t \in NormalizeTopics(topics) : IsStreamStateTopic(t)}

-----------------------------------------------------------------------------
(***************************************************************************)
(* Components, the bus and the broadcaster                                 *)
(***************************************************************************)

Lagging(n) == IF n > EhCapacity THEN n ELSE n + 1
Heard(n) == IF n > EhCapacity THEN EhCapacity ELSE n - 1

Change(p) ==
    /\ ehDev["video"] + ehDev["hid"] < MaxEhChanges
    /\ p = "hid" => ~ehOwed
    /\ p = "video" => \E u \in EhPublishers : ehPub[u].pc = "idle"
    /\ ehDev' = [ehDev EXCEPT ![p] = @ + 1]
    /\ ehOwed' = (ehOwed \/ p = "hid")
    /\ IF p = "hid" THEN UNCHANGED ehPub
       ELSE \E u \in EhPublishers :
              /\ ehPub[u].pc = "idle"
              /\ ehPub' = [ehPub EXCEPT ![u] = [pc |-> "compose", event |-> 0]]
    /\ UNCHANGED <<ehLatest, ehSignals, castVars, ehSock>>

\* mark_device_info_dirty, after the change.
MarkDeviceInfoDirty ==
    /\ ehOwed /\ ehOwed' = FALSE
    /\ ehSignals' = [ehSignals EXCEPT !["hid"] = Lagging(@)]
    /\ UNCHANGED <<ehDev, ehPub, ehLatest, castVars, ehSock>>

\* current_state_event, after the change.
Compose(u) ==
    /\ ehPub[u].pc = "compose"
    /\ ehPub' = [ehPub EXCEPT ![u] = [pc |-> "record", event |-> ehDev["video"]]]
    /\ UNCHANGED <<ehDev, ehOwed, ehLatest, ehSignals, castVars, ehSock>>

\* publish keeps the newest video state for those who come later ...
Record(u) ==
    /\ ehPub[u].pc = "record"
    /\ ehLatest' = ehPub[u].event
    /\ ehPub' = [ehPub EXCEPT ![u].pc = "send"]
    /\ UNCHANGED <<ehDev, ehOwed, ehSignals, castVars, ehSock>>

\* ... and sends it to those who listen; the oldest unheard event makes room.
\* A client that does not listen, or is told an older state than the one kept
\* by another publisher, is not up to date.
Told(sock, event) ==
    IF ~sock.listens THEN [sock EXCEPT !.missed = TRUE]
    ELSE [sock EXCEPT !.queue = Append(IF Len(@) = EhCapacity THEN Tail(@) ELSE @, event),
                      !.missed = event # ehLatest]

Publish(u) ==
    /\ ehPub[u].pc = "send"
    /\ ehSock' = [w \in EhSockets |-> Told(ehSock[w], ehPub[u].event)]
    /\ ehSignals' = [ehSignals EXCEPT !["video"] = Lagging(@)]
    /\ ehPub' = [ehPub EXCEPT ![u].pc = "idle", ![u].event = 0]
    /\ UNCHANGED <<ehDev, ehOwed, ehLatest, castVars>>

\* The forwarders of the broadcaster: a lag is a trigger as well.
Forward(p) ==
    /\ ehSignals[p] > 0
    /\ ehSignals' = [ehSignals EXCEPT ![p] = Heard(@)]
    /\ ehTriggers' = ehTriggers + 1
    /\ UNCHANGED <<ehDev, ehOwed, ehPub, ehLatest, ehCast, ehWatch, ehSock>>

\* A trigger within 100 ms of the last snapshot waits for them to pass.
Triggered ==
    /\ ehCast.pc = "recv" /\ ehTriggers > 0
    /\ ehTriggers' = ehTriggers - 1
    /\ ehCast' = [ehCast EXCEPT !.pending = TRUE, !.pc = IF ehCast.cool THEN "recv" ELSE "collect"]
    /\ UNCHANGED <<busVars, ehWatch, ehSock>>

DebouncePasses ==
    /\ ehCast.pc = "recv" /\ ehCast.cool
    /\ ehCast' = [ehCast EXCEPT !.cool = FALSE, !.pc = IF ehCast.pending THEN "collect" ELSE "recv"]
    /\ UNCHANGED <<busVars, ehTriggers, ehWatch, ehSock>>

\* get_device_info asks the components one by one.
Collected(info, p) == [q \in DOMAIN info \cup {p} |-> IF q = p THEN ehDev[p] ELSE info[q]]

Collect(p) ==
    /\ ehCast.pc = "collect" /\ p \notin DOMAIN ehCast.info
    /\ ehCast' = [ehCast EXCEPT !.info = Collected(@, p)]
    /\ UNCHANGED <<busVars, ehTriggers, ehWatch, ehSock>>

\* publish_device_info.
PublishDeviceInfo ==
    /\ ehCast.pc = "collect" /\ DOMAIN ehCast.info = Parts
    /\ ehWatch' = ehCast.info
    /\ ehCast' = [pc |-> "recv", pending |-> FALSE, cool |-> TRUE, info |-> <<>>]
    /\ ehSock' = [w \in EhSockets |-> [ehSock[w] EXCEPT !.infoTask.fresh = ehSock[w].infoTask.pc # "off"]]
    /\ UNCHANGED <<busVars, ehTriggers>>

-----------------------------------------------------------------------------
(***************************************************************************)
(* Sockets: handle_socket, rebuild_event_tasks                             *)
(***************************************************************************)

Put(w, sock) == ehSock' = [ehSock EXCEPT ![w] = sock] /\ UNCHANGED <<busVars, castVars>>
Queued(sock, kind, value) == [sock EXCEPT !.out = Append(@, [kind |-> kind, value |-> value])]

\* The client did not follow the stream state and does so now.
Begins(old, new) == ~WantsState(old) /\ WantsState(new)

\* Subscribe replaces the topics, Unsubscribe takes some away.  All tasks are
\* aborted, with what they have not received.  A client that begins to follow
\* the stream state is sent the latest one; the task of the device information
\* subscribes to the watch.
Ask(w, topics) ==
    LET sock == ehSock[w]
        begins == Begins(sock.topics, topics)
        lost == sock.queue # <<>> \/ sock.missed
        cut == [sock EXCEPT !.topics = topics, !.asks = @ + 1, !.queue = <<>>, !.listens = FALSE,
                !.pc = IF WantsState(topics) THEN "listen" ELSE "idle",
                !.infoTask = IF WantsInfo(topics) THEN [NoTask EXCEPT !.pc = "collect"] ELSE NoTask,
                !.missed = ~begins /\ lost] IN
    /\ sock.up /\ sock.pc = "idle" /\ sock.asks < MaxEhAsks
    /\ Put(w, IF begins THEN Queued(cut, "state", ehLatest) ELSE cut)

Subscribes(w) == \E topics \in EhTopicSets : Ask(w, topics)
Unsubscribes(w) == \E gone \in EhTopicSets \ {{}} : Ask(w, ehSock[w].topics \ gone)

\* subscribe_topic: from here on the bus reaches the client.
SubscribeTopic(w) ==
    /\ ehSock[w].pc = "listen"
    /\ Put(w, [ehSock[w] EXCEPT !.pc = "idle", !.listens = TRUE])

\* A task of a topic passes on the oldest event it has not received.
PassState(w) ==
    /\ ehSock[w].queue # <<>>
    /\ Put(w, Queued([ehSock[w] EXCEPT !.queue = Tail(@)], "state", Head(ehSock[w].queue)))

\* The task of the device information: a snapshot of its own first ...
CollectFor(w, p) ==
    /\ ehSock[w].infoTask.pc = "collect" /\ p \notin DOMAIN ehSock[w].infoTask.info
    /\ Put(w, [ehSock[w] EXCEPT !.infoTask.info = Collected(@, p)])

SendSnapshot(w) ==
    /\ ehSock[w].infoTask.pc = "collect" /\ DOMAIN ehSock[w].infoTask.info = Parts
    /\ Put(w, Queued([ehSock[w] EXCEPT !.infoTask.pc = "watch", !.infoTask.info = <<>>],
                     "info", ehSock[w].infoTask.info))

\* ... then whatever the watch holds when it has changed.
PassInfo(w) ==
    /\ ehSock[w].infoTask.pc = "watch" /\ ehSock[w].infoTask.fresh
    /\ Put(w, Queued([ehSock[w] EXCEPT !.infoTask.fresh = FALSE], "info", ehWatch))

\* The loop of the socket sends the oldest message.
Deliver(w) ==
    LET sock == ehSock[w]
        rest == [sock EXCEPT !.out = Tail(@)] IN
    /\ sock.up /\ sock.pc = "idle" /\ sock.out # <<>>
    /\ Put(w, IF Head(sock.out).kind = "info" THEN [rest EXCEPT !.info = Head(sock.out).value]
              ELSE [rest EXCEPT !.state = Head(sock.out).value])

\* The client goes, or a send fails: the tasks are aborted.
Closes(w) ==
    /\ ehSock[w].up /\ ehSock[w].pc = "idle"
    /\ Put(w, [NewSock EXCEPT !.up = FALSE])

BusSteps ==
    \/ MarkDeviceInfoDirty
    \/ \E u \in EhPublishers : Compose(u) \/ Record(u) \/ Publish(u)
    \/ \E p \in Parts : Forward(p)
CastSteps == Triggered \/ DebouncePasses \/ PublishDeviceInfo \/ \E p \in Parts : Collect(p)
InfoSteps(w) == SendSnapshot(w) \/ PassInfo(w) \/ \E p \in Parts : CollectFor(w, p)
SocketSteps(w) == SubscribeTopic(w) \/ Deliver(w)

EhNext ==
    \/ \E p \in Parts : Change(p)
    \/ BusSteps \/ CastSteps
    \/ \E w \in EhSockets : \/ Subscribes(w) \/ Unsubscribes(w) \/ Closes(w)
                            \/ SocketSteps(w) \/ PassState(w) \/ InfoSteps(w)

\* Publishers finish what they began, tasks on the runtime go on, and 100 ms pass.
EhTurn(w, i) ==
    CASE i = 1 -> BusSteps
      [] i = 2 -> CastSteps
      [] i = 3 -> SocketSteps(w)
      [] i = 4 -> PassState(w)
      [] OTHER -> InfoSteps(w)

EhFairness == \A w \in EhSockets, i \in 1..5 : WF_ehVars(EhTurn(w, i))

EhSpec == EhInit /\ [][EhNext]_ehVars /\ EhFairness

-----------------------------------------------------------------------------
\* Every stream state reaches a client once, whatever mixture of topics it
\* asked for, and none that it asked for is left out (normalize_topics).
HeardOnce ==
    \A w \in EhSockets :
        Cardinality(Receivers(ehSock[w].topics))
            = IF ehSock[w].topics \cap {"*", "stream.*", "stream.state_changed"} = {} THEN 0 ELSE 1

\* A client that follows the device information comes to show the components
\* as they are when they rest, although snapshots are collected piece by piece,
\* held back for 100 ms and overtaken by the client's own (state.rs 206-235).
InfoArrives ==
    \A w \in EhSockets :
        <>[](ehSock[w].up /\ WantsInfo(ehSock[w].topics)) => <>[](ehSock[w].info = ehDev)

\* A client that follows the stream state comes to show the latest one, unless
\* it was published while the client did not listen: between the replay and
\* the subscription, or in a receiver that was thrown away (ws.rs 65-78).
StateArrives ==
    \A w \in EhSockets :
        <>[](ehSock[w].up /\ WantsState(ehSock[w].topics) /\ ~ehSock[w].missed)
            => <>[](ehSock[w].state = ehLatest)
=============================================================================
