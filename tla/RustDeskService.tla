---- MODULE RustDeskService ----
(***************************************************************************)
(* The RustDesk service (rustdesk/mod.rs) and its rendezvous mediator      *)
(* (rustdesk/rendezvous.rs): start and stop, the listener task, the task   *)
(* that runs the mediator and restarts it after an error, the registration *)
(* with the rendezvous server over UDP, and the spawned tasks that answer  *)
(* the server's requests for a connection.                                 *)
(*                                                                         *)
(* start and stop hold the write lock of AppState.rustdesk, so only one of *)
(* them runs at a time.  stop waits in the request that called it, which   *)
(* is dropped, lock and all, when its client leaves: the tasks it took the *)
(* handles of go on without it.  Datagrams may be lost, delivered twice    *)
(* and in any order.  Time is counted in units of MIN_REG_TIMEOUT.         *)
(***************************************************************************)
EXTENDS Naturals, FiniteSets

CONSTANTS
    RegInterval,     \* REG_INTERVAL
    MaxRegTimeout,   \* MAX_REG_TIMEOUT
    OfflineAfter,    \* OFFLINE_AFTER_TIMEOUTS
    MaxRsFaults,     \* bound: losses, restarts and refusals of the server, network errors, and
                     \* clients that leave a stop
    MaxRsOps         \* bound: calls of start and stop

ASSUME RsAssumption ==
    /\ RegInterval \in Nat \ {0}
    /\ MaxRegTimeout \in Nat \ {0}
    /\ OfflineAfter \in Nat \ {0}
    /\ MaxRsFaults \in Nat /\ MaxRsOps \in Nat

VARIABLES
    rsStatus,   \* ServiceStatus
    rsOp,       \* where start or stop is: "none", "starting", "waiting", "listeners"
    rsOps,      \* start and stop calls made
    rsListener, \* the tasks that accept TCP connections
    rsTask,     \* the mediator task: "none", "begin", "resolving", "loop", "sleeping", "ended"
    rsHeld,     \* rendezvous_handle and tcp_listener_handle: the tasks they hold
    rsLost,     \* history: the tasks of the last start whose handle went with a dropped stop
    rsOld,      \* a mediator of an earlier start goes on
    rsReg,      \* RendezvousMediator.status
    rsKey,      \* key_confirmed
    rsTrk,      \* RegistrationTracker: [sent, age, timeouts, limit]
    rsNet,      \* datagrams under way
    rsServer,   \* the server knows our key (external)
    rsCalls,    \* a connection callback was spawned and has not ended
    rsFaults

rsHandles == <<rsHeld, rsLost, rsOld>>
rsVars == <<rsStatus, rsOp, rsOps, rsListener, rsTask, rsReg, rsKey, rsTrk, rsNet, rsServer,
            rsCalls, rsFaults, rsHandles>>

\* `sent' is last_sent.is_some(), `age' the time since the last request or,
\* without one, since the last response.
NewTracker == [sent |-> FALSE, age |-> RegInterval, timeouts |-> 0, limit |-> 1]

TimeCap == IF MaxRegTimeout > RegInterval THEN MaxRegTimeout ELSE RegInterval

Requests == {"ask_peer", "ask_pk"}
Responses == {"peer_ok", "peer_want_pk", "pk_ok", "pk_mismatch", "pk_refused", "punch"}

RsInit ==
    /\ rsStatus = "Stopped" /\ rsOp = "none" /\ rsOps = 0
    /\ rsListener = "none" /\ rsTask = "none"
    /\ rsHeld = {} /\ rsLost = {} /\ rsOld = FALSE
    /\ rsReg = "Disconnected" /\ rsKey = FALSE /\ rsTrk = NewTracker
    /\ rsNet = {} /\ rsServer = FALSE
    /\ rsCalls = FALSE /\ rsFaults = 0

-----------------------------------------------------------------------------
(* The service *)

Fault == rsFaults < MaxRsFaults /\ rsFaults' = rsFaults + 1

TaskGone(task) == task \in {"none", "ended"}

\* start, up to the listener: nothing happens when it runs already.  A new
\* mediator replaces the old one, whose task may still run when its handle was lost.
Start ==
    /\ rsOp = "none" /\ rsOps < MaxRsOps /\ rsStatus # "Running"
    /\ rsOps' = rsOps + 1 /\ rsOp' = "starting" /\ rsStatus' = "Starting"
    /\ rsReg' = "Disconnected" /\ rsKey' = FALSE
    /\ rsOld' = (rsOld \/ ~TaskGone(rsTask)) /\ rsTask' = "none"
    /\ rsLost' = rsLost \ {"mediator"}
    /\ UNCHANGED <<rsListener, rsHeld, rsTrk, rsNet, rsServer, rsCalls, rsFaults>>

\* start_tcp_listener_with_port: the fixed port, else any port; then the
\* mediator task is spawned.
StartTasks ==
    /\ rsOp = "starting"
    /\ rsOp' = "none"
    /\ \/ /\ rsStatus' = "Running" /\ rsListener' = "run" /\ rsTask' = "begin"
          /\ rsHeld' = {"mediator", "listener"} /\ rsLost' = {}
          /\ UNCHANGED rsFaults
       \/ /\ rsFaults < MaxRsFaults /\ rsFaults' = rsFaults + 1
          /\ rsStatus' = "Error" /\ UNCHANGED <<rsListener, rsTask, rsHeld, rsLost>>
    /\ UNCHANGED <<rsOps, rsOld, rsReg, rsKey, rsTrk, rsNet, rsServer, rsCalls>>

\* A broadcast reaches the tasks that are subscribed: the listener always is,
\* the mediator only inside registration_loop.
Signalled(task) == IF task = "loop" THEN "leaving" ELSE task

\* stop: both shutdown signals and close_all, then the mediator is marked
\* disconnected and its handle taken, if there is one; the waiting begins.
Stop ==
    /\ rsOp = "none" /\ rsOps < MaxRsOps /\ rsStatus # "Stopped"
    /\ rsOps' = rsOps + 1
    /\ rsOp' = IF "mediator" \in rsHeld THEN "waiting" ELSE "listeners"
    /\ rsHeld' = rsHeld \ {"mediator"}
    /\ rsListener' = IF rsListener = "run" THEN "leaving" ELSE rsListener
    /\ rsTask' = Signalled(rsTask)
    /\ rsOld' \in {rsOld, FALSE}
    /\ rsReg' = "Disconnected"
    /\ UNCHANGED <<rsStatus, rsLost, rsKey, rsTrk, rsNet, rsServer, rsCalls, rsFaults>>

\* wait_for_service_task for the mediator: two seconds, then it is aborted.
WaitForServiceTask ==
    /\ rsOp = "waiting"
    /\ rsOp' = "listeners" /\ rsTask' = "ended"
    /\ UNCHANGED <<rsStatus, rsOps, rsListener, rsHandles, rsReg, rsKey, rsTrk, rsNet, rsServer, rsCalls, rsFaults>>

\* The same for the listeners, when their handles are there, and the end of stop.
Stopped ==
    /\ rsOp = "listeners"
    /\ rsOp' = "none" /\ rsStatus' = "Stopped"
    /\ rsListener' = IF "listener" \in rsHeld THEN "ended" ELSE rsListener
    /\ rsHeld' = {}
    /\ UNCHANGED <<rsOps, rsTask, rsLost, rsOld, rsReg, rsKey, rsTrk, rsNet, rsServer, rsCalls, rsFaults>>

\* The client of the request leaves while stop waits for the mediator or for the
\* listeners: the handle that was waited on is lost, the status stays.
StopDropped ==
    /\ \/ /\ rsOp = "waiting"
          /\ rsLost' = rsLost \cup {"mediator"} /\ rsTask' \in {rsTask, "ended"} /\ UNCHANGED rsHeld
       \/ /\ rsOp = "listeners" /\ "listener" \in rsHeld
          /\ rsLost' = rsLost \cup {"listener"} /\ rsHeld' = {} /\ UNCHANGED rsTask
    /\ Fault /\ rsOp' = "none"
    /\ UNCHANGED <<rsStatus, rsOps, rsListener, rsOld, rsReg, rsKey, rsTrk, rsNet, rsServer, rsCalls>>

\* A mediator that was left behind registers on a socket of its own, with the same
\* key; the callbacks it spawns go the way of Callback.
OldMediator ==
    /\ rsOld /\ ~rsServer
    /\ rsServer' = TRUE
    /\ UNCHANGED <<rsStatus, rsOp, rsOps, rsListener, rsTask, rsHandles, rsReg, rsKey, rsTrk, rsNet, rsCalls,
                   rsFaults>>

\* The listener takes the signal; a connection it accepts goes to the connection
\* manager and changes nothing here.
Listener ==
    /\ rsListener = "leaving" /\ rsListener' = "ended"
    /\ UNCHANGED <<rsHandles, rsStatus, rsOp, rsOps, rsTask, rsReg, rsKey, rsTrk, rsNet, rsServer, rsCalls, rsFaults>>

\* The callbacks of PunchHole, RequestRelay and FetchLocalAddr: spawned, never
\* joined.  They connect (directly, through the relay or the rendezvous
\* server) and hand the socket to the connection manager, or fail.
Callback ==
    /\ rsCalls
    /\ rsCalls' = FALSE
    /\ UNCHANGED <<rsHandles, rsStatus, rsOp, rsOps, rsListener, rsTask, rsReg, rsKey, rsTrk, rsNet, rsServer, rsFaults>>

-----------------------------------------------------------------------------
(* The mediator *)

\* RendezvousMediator::start.
MediatorStart ==
    /\ rsTask = "begin"
    /\ rsReg' = "Connecting" /\ rsTask' = "resolving"
    /\ UNCHANGED <<rsHandles, rsStatus, rsOp, rsOps, rsListener, rsKey, rsTrk, rsNet, rsServer, rsCalls, rsFaults>>

\* run: the address is resolved and a new socket connected, to which no answer to
\* an older request comes; only then does registration_loop subscribe to the
\* shutdown signal.
MediatorRun ==
    /\ rsTask = "resolving"
    /\ \/ /\ rsTask' = "loop" /\ rsTrk' = NewTracker /\ rsNet' = {}
          /\ rsServer' \in {rsServer, rsServer \/ "ask_pk" \in rsNet}
          /\ UNCHANGED <<rsReg, rsFaults>>
       \/ /\ Fault /\ rsTask' = "sleeping" /\ rsReg' = "Error"
          /\ UNCHANGED <<rsTrk, rsNet, rsServer>>
    /\ UNCHANGED <<rsHandles, rsStatus, rsOp, rsOps, rsListener, rsKey, rsCalls>>

\* The service's loop: five seconds after an error it starts the mediator again.
MediatorRetry ==
    /\ rsTask = "sleeping" /\ rsTask' = "begin"
    /\ UNCHANGED <<rsHandles, rsStatus, rsOp, rsOps, rsListener, rsReg, rsKey, rsTrk, rsNet, rsServer, rsCalls, rsFaults>>

\* The shutdown signal is taken: run returns and start clears the status.
MediatorLeaves ==
    /\ rsTask = "leaving"
    /\ rsTask' = "ended" /\ rsReg' = "Disconnected"
    /\ UNCHANGED <<rsHandles, rsStatus, rsOp, rsOps, rsListener, rsKey, rsTrk, rsNet, rsServer, rsCalls, rsFaults>>

\* The socket fails inside the loop.
MediatorFails ==
    /\ rsTask = "loop" /\ Fault
    /\ rsTask' = "sleeping" /\ rsReg' = "Error"
    /\ UNCHANGED <<rsHandles, rsStatus, rsOp, rsOps, rsListener, rsKey, rsTrk, rsNet, rsServer, rsCalls>>

\* send_register.
SendRegister == {IF rsKey THEN "ask_peer" ELSE "ask_pk"}

\* mark_sent.
MarkSent(trk) == [trk EXCEPT !.sent = TRUE, !.age = 0]

\* status_after_timeout.
StatusAfterTimeout(n) == IF n >= OfflineAfter THEN "Disconnected" ELSE "Connecting"

\* A timer tick at which poll answers Send or Retry.  The count of time-outs
\* saturates at the number that changes the status (in the code it goes on).
Poll ==
    /\ rsTask = "loop"
    /\ \/ /\ ~rsTrk.sent /\ rsTrk.age >= RegInterval
          /\ rsTrk' = MarkSent(rsTrk)
          /\ UNCHANGED rsReg
       \/ /\ rsTrk.sent /\ rsTrk.age >= rsTrk.limit
          /\ rsTrk' = MarkSent([rsTrk EXCEPT
                          !.timeouts = IF @ < OfflineAfter THEN @ + 1 ELSE @,
                          !.limit = IF @ < MaxRegTimeout THEN @ + 1 ELSE @])
          /\ rsReg' = StatusAfterTimeout(rsTrk'.timeouts)
    /\ rsNet' = rsNet \cup SendRegister
    /\ UNCHANGED <<rsHandles, rsStatus, rsOp, rsOps, rsListener, rsTask, rsKey, rsServer, rsCalls, rsFaults>>

\* Mutant of MarkResponse: the time-outs of before the answer still count.
MarkResponse_Counting(trk) == [trk EXCEPT !.sent = FALSE, !.age = 0, !.limit = 1]

\* mark_response.
MarkResponse(trk) == [sent |-> FALSE, age |-> 0, timeouts |-> 0, limit |-> 1]

\* handle_response for the two answers of the registration.
HandleRegistration(m) ==
    /\ \/ /\ m = "peer_ok"
          /\ rsTrk' = MarkResponse(rsTrk) /\ rsReg' = "Registered"
          /\ UNCHANGED rsKey
       \/ /\ m = "peer_want_pk"
          /\ rsKey' = FALSE /\ rsReg' = "Connecting"
          /\ rsTrk' = MarkSent(MarkResponse(rsTrk))
       \/ /\ m = "pk_ok"
          /\ rsKey' = TRUE /\ rsReg' = "Registered" /\ rsTrk' = MarkResponse(rsTrk)
       \/ /\ m = "pk_mismatch"
          /\ rsKey' = FALSE /\ rsReg' = "Connecting" /\ rsTrk' = MarkResponse(rsTrk)
       \/ /\ m = "pk_refused"        \* too frequent, identifier taken or invalid, unknown
          /\ rsReg' \in {"Connecting", "Error", rsReg} /\ rsTrk' = MarkResponse(rsTrk)
          /\ UNCHANGED rsKey
    /\ UNCHANGED rsCalls

\* handle_response for a request of a peer: a callback is spawned when a relay
\* server is known.
HandlePunch(m) ==
    /\ m = "punch"
    /\ rsCalls' = TRUE
    /\ UNCHANGED <<rsTrk, rsReg, rsKey>>

\* A datagram arrives, and may arrive again.
HandleResponse ==
    /\ rsTask = "loop"
    /\ \E m \in rsNet \cap Responses :
          /\ HandleRegistration(m) \/ HandlePunch(m)
          /\ \/ UNCHANGED rsFaults
                /\ rsNet' = (rsNet \ {m}) \cup (IF m = "peer_want_pk" THEN {"ask_pk"} ELSE {})
             \/ Fault
                /\ rsNet' = rsNet \cup (IF m = "peer_want_pk" THEN {"ask_pk"} ELSE {})
    /\ UNCHANGED <<rsHandles, rsStatus, rsOp, rsOps, rsListener, rsTask, rsServer>>

TimePasses ==
    /\ rsTask = "loop" /\ rsTrk.age < TimeCap
    /\ rsTrk' = [rsTrk EXCEPT !.age = @ + 1]
    /\ UNCHANGED <<rsHandles, rsStatus, rsOp, rsOps, rsListener, rsTask, rsReg, rsKey, rsNet, rsServer, rsCalls, rsFaults>>

-----------------------------------------------------------------------------
(* The rendezvous server and the network (external) *)

ServerAnswers ==
    /\ \E m \in rsNet \cap Requests :
          \/ /\ m = "ask_peer"
             /\ rsNet' = (rsNet \ {m}) \cup {IF rsServer THEN "peer_ok" ELSE "peer_want_pk"}
             /\ UNCHANGED <<rsServer, rsFaults>>
          \/ /\ m = "ask_pk"
             /\ rsNet' = (rsNet \ {m}) \cup {"pk_ok"} /\ rsServer' = TRUE
             /\ UNCHANGED rsFaults
          \/ /\ m = "ask_pk" /\ Fault
             /\ \E a \in {"pk_mismatch", "pk_refused"} : rsNet' = (rsNet \ {m}) \cup {a}
             /\ UNCHANGED rsServer
    /\ UNCHANGED <<rsHandles, rsStatus, rsOp, rsOps, rsListener, rsTask, rsReg, rsKey, rsTrk, rsCalls>>

\* Loss of a datagram, a server that lost its data, a peer that wants to connect.
NetworkFault ==
    /\ Fault
    /\ \/ \E m \in rsNet : rsNet' = rsNet \ {m} /\ UNCHANGED rsServer
       \/ rsServer /\ rsServer' = FALSE /\ UNCHANGED rsNet
       \/ rsTask = "loop" /\ rsNet' = rsNet \cup {"punch"} /\ UNCHANGED rsServer
    /\ UNCHANGED <<rsHandles, rsStatus, rsOp, rsOps, rsListener, rsTask, rsReg, rsKey, rsTrk, rsCalls>>

RsNext ==
    \/ Start \/ StartTasks \/ Stop \/ WaitForServiceTask \/ Stopped
    \/ StopDropped \/ OldMediator
    \/ Listener \/ Callback
    \/ MediatorStart \/ MediatorRun \/ MediatorRetry \/ MediatorLeaves \/ MediatorFails
    \/ Poll \/ HandleResponse \/ TimePasses
    \/ ServerAnswers \/ NetworkFault

\* The runtime polls its tasks and timers; a server that is up answers, and a
\* datagram that is not lost (losses are counted) arrives.
RsTurn(i) ==
    CASE i = 1 -> StartTasks \/ WaitForServiceTask \/ Stopped
      [] i = 2 -> MediatorStart \/ MediatorRun \/ MediatorRetry
      [] i = 3 -> Poll
      [] i = 4 -> HandleResponse
      [] i = 5 -> TimePasses
      [] i = 6 -> ServerAnswers
      [] OTHER -> FALSE

RsFairness == \A i \in 1..6 : WF_rsVars(RsTurn(i))

RsSpec == RsInit /\ [][RsNext]_rsVars /\ RsFairness

-----------------------------------------------------------------------------

RsTypeOK ==
    /\ rsStatus \in {"Stopped", "Starting", "Running", "Error"}
    /\ rsOp \in {"none", "starting", "waiting", "listeners"}
    /\ rsOps \in 0..MaxRsOps /\ rsFaults \in 0..MaxRsFaults
    /\ rsListener \in {"none", "run", "leaving", "ended"}
    /\ rsTask \in {"none", "begin", "resolving", "loop", "leaving", "sleeping", "ended"}
    /\ rsHeld \subseteq {"mediator", "listener"} /\ rsLost \subseteq {"mediator", "listener"} /\ rsOld \in BOOLEAN
    /\ rsReg \in {"Disconnected", "Connecting", "Registered", "Error"}
    /\ rsKey \in BOOLEAN /\ rsServer \in BOOLEAN /\ rsCalls \in BOOLEAN
    /\ rsTrk \in [sent : BOOLEAN, age : 0..TimeCap, timeouts : 0..OfflineAfter, limit : 1..MaxRegTimeout]
    /\ rsNet \subseteq Requests \cup Responses

\* A stopped service accepts no connection, and runs nothing whose handle it had:
\* asleep between two attempts and resolving the server's name the mediator does
\* not hear the signal and is aborted.  A task can only outlive its service when
\* the request that stopped it was given up before; what a later start spawns is
\* stopped as a whole again.
StoppedLeavesNothing ==
    rsOp = "none" /\ rsStatus = "Stopped" =>
       /\ rsListener # "run"
       /\ TaskGone(rsTask) \/ "mediator" \in rsLost
       /\ TaskGone(rsListener) \/ "listener" \in rsLost

\* A server that stays silent shows: after OFFLINE_AFTER_TIMEOUTS requests
\* without an answer the status is Disconnected and stays so until one comes.
SilenceShows ==
    rsTask = "loop" /\ rsTrk.timeouts >= OfflineAfter => rsReg = "Disconnected"

\* A running service gets registered with the key the server holds, however
\* many datagrams were lost, doubled or reordered, requests refused, sockets
\* lost or servers restarted before, unless it is stopped, or a stop was given up
\* by its client, after which it is shown as running and is not.
RegistersInTheEnd ==
    []<>(rsStatus # "Running" \/ rsOp # "none" \/ rsLost # {} \/ (rsReg = "Registered" /\ rsServer))
====
