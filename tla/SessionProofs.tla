---- MODULE SessionProofs ----
(***************************************************************************)
(* Proofs about the parts that keep a session with somebody else alive     *)
(* (MCSessions), for every value of the constants: an inductive invariant  *)
(* for each part, which holds in every behaviour since only the chosen     *)
(* part steps.                                                             *)
(***************************************************************************)
EXTENDS MCSessions, FiniteSetTheorems, TLAPS

-----------------------------------------------------------------------------
\* The registration of RustDesk

\* A task that goes on has its handle held, waited on or lost; a service that is not
\* shown as running holds none and accepts no connection.
RsInv ==
    /\ RsTypeOK /\ SilenceShows
    /\ TaskGone(rsTask) \/ "mediator" \in rsHeld \cup rsLost \/ rsOp = "waiting"
    /\ TaskGone(rsListener) \/ "listener" \in rsHeld \cup rsLost
    /\ rsStatus # "Running" => rsHeld = {} /\ rsListener # "run"
    /\ rsOp \in {"waiting", "listeners"} => "mediator" \notin rsHeld /\ rsListener # "run"
    /\ rsOp = "starting" => rsStatus = "Starting" /\ rsTask = "none"

RsTrackers == [sent : BOOLEAN, age : 0..TimeCap, timeouts : 0..OfflineAfter, limit : 1..MaxRegTimeout]

\* A tracker as it is made, marked or reset is a tracker.
LEMMA RsTracks ==
    /\ NewTracker \in RsTrackers /\ NewTracker.timeouts = 0
    /\ \A t \in RsTrackers : /\ MarkSent(t) \in RsTrackers /\ MarkSent(t).timeouts = t.timeouts
                             /\ MarkResponse(t) \in RsTrackers /\ MarkResponse(t).timeouts = 0
<1>1. TimeCap \in Nat /\ RegInterval \in 0..TimeCap /\ 1 \in 1..MaxRegTimeout /\ 0 \in 0..OfflineAfter
  BY RsAssumption DEF TimeCap
<1>2. NewTracker \in RsTrackers /\ NewTracker.timeouts = 0
  BY <1>1 DEF RsTrackers, NewTracker
<1>3. ASSUME NEW t \in RsTrackers PROVE MarkSent(t) \in RsTrackers /\ MarkSent(t).timeouts = t.timeouts
  <2>a. PICK b \in BOOLEAN : b = TRUE
    BY Zenon
  <2>1. PICK n \in 0..TimeCap : n = 0
    BY <1>1
  <2>2. PICK u : u = [t EXCEPT !.sent = b]
    OBVIOUS
  <2>3. u \in RsTrackers
    BY <2>2 DEF RsTrackers
  <2>4. [u EXCEPT !.age = n] \in RsTrackers
    BY <2>3 DEF RsTrackers
  <2>5. MarkSent(t) = [u EXCEPT !.age = n]
    BY <2>a, <2>1, <2>2 DEF MarkSent
  <2>6. u.timeouts = t.timeouts
    BY <2>2 DEF RsTrackers
  <2>7. [u EXCEPT !.age = n].timeouts = u.timeouts
    BY <2>3 DEF RsTrackers
  <2> QED
    BY <2>4, <2>5, <2>6, <2>7
<1>4. ASSUME NEW t \in RsTrackers PROVE MarkResponse(t) \in RsTrackers /\ MarkResponse(t).timeouts = 0
  BY <1>1 DEF RsTrackers, MarkResponse
<1> QED
  BY <1>2, <1>3, <1>4

\* A service that was never started runs nothing.
LEMMA RsStarts == RsInit => RsInv
<1> SUFFICES ASSUME RsInit PROVE RsInv
  OBVIOUS
<1>a. rsKey \in BOOLEAN /\ rsServer \in BOOLEAN /\ rsCalls \in BOOLEAN /\ rsOld \in BOOLEAN
  BY Zenon DEF RsInit
<1>b. rsTrk \in RsTrackers
  BY RsTracks DEF RsInit
<1>1. RsTypeOK
  BY <1>a, <1>b, RsAssumption DEF RsInit, RsTypeOK, RsTrackers
<1> QED
  BY <1>1 DEF RsInit, RsInv, SilenceShows, TaskGone

\* start and stop, and a stop that is given up.
LEMMA RsCalls == ASSUME RsInv, Start \/ StartTasks \/ Stop \/ WaitForServiceTask \/ Stopped \/ StopDropped PROVE RsInv'
<1>a. MaxRsOps \in Nat /\ MaxRsFaults \in Nat
  BY RsAssumption
<1>1. CASE Start
  <2>1. rsKey' \in BOOLEAN /\ rsOld' \in BOOLEAN
    BY <1>1, Zenon DEF Start, RsInv, RsTypeOK
  <2> QED
    BY <1>1, <1>a, <2>1 DEF Start, RsInv, RsTypeOK, SilenceShows, TaskGone
<1>2. CASE StartTasks
  <2>1. CASE /\ rsStatus' = "Running" /\ rsListener' = "run" /\ rsTask' = "begin"
             /\ rsHeld' = {"mediator", "listener"} /\ rsLost' = {} /\ UNCHANGED rsFaults
    BY <1>2, <1>a, <2>1 DEF StartTasks, RsInv, RsTypeOK, SilenceShows, TaskGone
  <2>2. CASE /\ rsFaults < MaxRsFaults /\ rsFaults' = rsFaults + 1 /\ rsStatus' = "Error"
             /\ UNCHANGED <<rsListener, rsTask, rsHeld, rsLost>>
    <3>1. rsStatus = "Starting"
      BY <1>2 DEF StartTasks, RsInv
    <3> QED
      BY <1>2, <1>a, <2>2, <3>1 DEF StartTasks, RsInv, RsTypeOK, SilenceShows, TaskGone
  <2> QED
    BY <1>2, <2>1, <2>2 DEF StartTasks
<1>3. CASE Stop
  <2>1. rsOld' \in BOOLEAN
    BY <1>3, Zenon DEF Stop, RsInv, RsTypeOK
  <2> QED
    BY <1>3, <1>a, <2>1 DEF Stop, Signalled, RsInv, RsTypeOK, SilenceShows, TaskGone
<1>4. CASE WaitForServiceTask
  BY <1>4, <1>a DEF WaitForServiceTask, rsHandles, RsInv, RsTypeOK, SilenceShows, TaskGone
<1>5. CASE Stopped
  BY <1>5, <1>a DEF Stopped, RsInv, RsTypeOK, SilenceShows, TaskGone
<1>6. CASE StopDropped
  <2>a. rsListener # "run" /\ "mediator" \notin rsHeld
    BY <1>6 DEF StopDropped, RsInv
  <2>b. rsFaults' \in 0..MaxRsFaults
    BY <1>6, <1>a DEF StopDropped, Fault, RsInv, RsTypeOK
  <2>1. CASE rsOp = "waiting"
    <3>1. rsLost' = rsLost \cup {"mediator"} /\ rsTask' \in {rsTask, "ended"} /\ UNCHANGED rsHeld
      BY <1>6, <2>1 DEF StopDropped
    <3> QED
      BY <1>6, <2>a, <2>b, <3>1 DEF StopDropped, RsInv, RsTypeOK, SilenceShows, TaskGone
  <2>2. CASE rsOp = "listeners"
    <3>1. rsLost' = rsLost \cup {"listener"} /\ rsHeld' = {} /\ UNCHANGED rsTask
      BY <1>6, <2>2 DEF StopDropped
    <3>2. TaskGone(rsTask) \/ "mediator" \in rsLost
      BY <2>a, <2>2 DEF RsInv
    <3> QED
      BY <1>6, <2>a, <2>b, <3>1, <3>2 DEF StopDropped, RsInv, RsTypeOK, SilenceShows, TaskGone
  <2> QED
    BY <1>6, <2>1, <2>2 DEF StopDropped
<1> QED
  BY <1>1, <1>2, <1>3, <1>4, <1>5, <1>6

\* The tasks, up to the loop of the mediator.
LEMMA RsTasks ==
    ASSUME RsInv,
           Listener \/ Callback \/ OldMediator \/ MediatorStart \/ MediatorRun \/ MediatorRetry \/ MediatorLeaves \/ MediatorFails
    PROVE  RsInv'
<1>a. MaxRsFaults \in Nat /\ OfflineAfter \in Nat \ {0} /\ NewTracker \in RsTrackers /\ NewTracker.timeouts = 0
  BY RsAssumption, RsTracks
<1> USE DEF RsInv, RsTypeOK, SilenceShows, TaskGone, Fault, rsHandles
<1>1. CASE Listener
  BY <1>1 DEF Listener
<1>2. CASE Callback
  <2>1. rsCalls' \in BOOLEAN
    BY <1>2, Zenon DEF Callback
  <2> QED
    BY <1>2, <2>1 DEF Callback
<1>3. CASE MediatorStart
  BY <1>3 DEF MediatorStart
<1>4. CASE MediatorRun
  <2>1. rsServer' \in BOOLEAN
    BY <1>4, Zenon DEF MediatorRun
  <2> QED
    BY <1>4, <1>a, <2>1 DEF MediatorRun, RsTrackers
<1>5. CASE MediatorRetry
  BY <1>5 DEF MediatorRetry
<1>6. CASE MediatorLeaves
  BY <1>6 DEF MediatorLeaves
<1>7. CASE MediatorFails
  BY <1>7, <1>a DEF MediatorFails
<1>8. CASE OldMediator
  <2>1. rsServer' \in BOOLEAN
    BY <1>8, Zenon DEF OldMediator
  <2> QED
    BY <1>8, <2>1 DEF OldMediator
<1> QED
  BY <1>1, <1>2, <1>3, <1>4, <1>5, <1>6, <1>7, <1>8

\* A tick: the time-outs that are counted show.
LEMMA RsPolls == ASSUME RsInv, Poll PROVE RsInv'
<1>a. OfflineAfter \in Nat \ {0} /\ MaxRegTimeout \in Nat \ {0} /\ rsTrk \in RsTrackers /\ rsTask = "loop" /\ rsTask' = "loop"
  BY RsAssumption DEF RsInv, RsTypeOK, RsTrackers, Poll
<1>1. rsTrk' \in RsTrackers /\ SilenceShows' /\ rsReg' \in {"Disconnected", "Connecting", "Registered", "Error"}
  <2>1. CASE rsTrk' = MarkSent(rsTrk) /\ rsReg' = rsReg
    BY <2>1, <1>a, RsTracks DEF RsInv, RsTypeOK, SilenceShows
  <2>2. CASE /\ rsTrk' = MarkSent([rsTrk EXCEPT !.timeouts = IF @ < OfflineAfter THEN @ + 1 ELSE @,
                                                !.limit = IF @ < MaxRegTimeout THEN @ + 1 ELSE @])
             /\ rsReg' = StatusAfterTimeout(rsTrk'.timeouts)
    <3>a. PICK n \in 0..OfflineAfter, k \in 1..MaxRegTimeout :
            n = (IF rsTrk.timeouts < OfflineAfter THEN rsTrk.timeouts + 1 ELSE rsTrk.timeouts)
              /\ k = (IF rsTrk.limit < MaxRegTimeout THEN rsTrk.limit + 1 ELSE rsTrk.limit)
      <4>1. rsTrk.timeouts \in 0..OfflineAfter /\ rsTrk.limit \in 1..MaxRegTimeout
        BY <1>a DEF RsTrackers
      <4> QED
        BY <4>1, <1>a
    <3>1. PICK t \in RsTrackers : t = [rsTrk EXCEPT !.timeouts = IF @ < OfflineAfter THEN @ + 1 ELSE @,
                                                    !.limit = IF @ < MaxRegTimeout THEN @ + 1 ELSE @]
      <4>1. [rsTrk EXCEPT !.timeouts = n, !.limit = k] \in RsTrackers
        BY <1>a DEF RsTrackers
      <4> QED
        BY <4>1, <3>a
    <3>2. rsTrk' = MarkSent(t)
      BY <2>2, <3>1
    <3> QED
      BY <2>2, <3>2, <1>a, RsTracks DEF StatusAfterTimeout, SilenceShows
  <2> QED
    BY <2>1, <2>2 DEF Poll
<1>2. rsNet' \subseteq Requests \cup Responses
  BY DEF Poll, SendRegister, Requests, RsInv, RsTypeOK
<1> QED
  BY <1>1, <1>2 DEF Poll, RsInv, RsTypeOK, RsTrackers, TaskGone, rsHandles

\* An answer: the time-outs begin anew, and the status is what it says.
LEMMA RsHears == ASSUME RsInv, HandleResponse \/ TimePasses PROVE RsInv'
<1>a. OfflineAfter \in Nat \ {0} /\ MaxRsFaults \in Nat /\ TimeCap \in Nat /\ rsTrk \in RsTrackers
  BY RsAssumption DEF RsInv, RsTypeOK, RsTrackers, TimeCap
<1>1. CASE HandleResponse
  <2>1. PICK m \in rsNet \cap Responses :
          /\ HandleRegistration(m) \/ HandlePunch(m)
          /\ \/ UNCHANGED rsFaults
                /\ rsNet' = (rsNet \ {m}) \cup (IF m = "peer_want_pk" THEN {"ask_pk"} ELSE {})
             \/ Fault
                /\ rsNet' = rsNet \cup (IF m = "peer_want_pk" THEN {"ask_pk"} ELSE {})
    BY <1>1 DEF HandleResponse
  <2>2. rsNet' \subseteq Requests \cup Responses
    BY <2>1 DEF RsInv, RsTypeOK, Requests
  <2>f. rsFaults' \in 0..MaxRsFaults
    BY <2>1, <1>a DEF RsInv, RsTypeOK, Fault
  <2>3. /\ rsTrk' \in RsTrackers /\ SilenceShows' /\ rsKey' \in BOOLEAN /\ rsCalls' \in BOOLEAN
        /\ rsReg' \in {"Disconnected", "Connecting", "Registered", "Error"}
    <3>1. CASE HandleRegistration(m)
      <4>1. rsTrk' \in RsTrackers /\ rsTrk'.timeouts = 0
        <5>1. PICK t \in RsTrackers : t = MarkResponse(rsTrk) /\ t.timeouts = 0
          BY <1>a, RsTracks
        <5> QED
          BY <3>1, <5>1, RsTracks DEF HandleRegistration
      <4>2. rsKey' \in BOOLEAN
        BY <3>1, Zenon DEF HandleRegistration, RsInv, RsTypeOK
      <4>3. rsReg' \in {"Disconnected", "Connecting", "Registered", "Error"}
        BY <3>1 DEF HandleRegistration, RsInv, RsTypeOK
      <4>4. rsCalls' \in BOOLEAN
        BY <3>1, Zenon DEF HandleRegistration, RsInv, RsTypeOK
      <4> QED
        BY <4>1, <4>2, <4>3, <4>4, <1>a DEF SilenceShows
    <3>2. CASE HandlePunch(m)
      <4>1. rsCalls' \in BOOLEAN
        BY <3>2, Zenon DEF HandlePunch
      <4> QED
        BY <3>2, <4>1, <1>1, <1>a DEF HandlePunch, HandleResponse, SilenceShows, RsInv, RsTypeOK, RsTrackers
    <3> QED
      BY <2>1, <3>1, <3>2
  <2> QED
    BY <1>1, <2>2, <2>f, <2>3 DEF HandleResponse, RsInv, RsTypeOK, RsTrackers, TaskGone, rsHandles
<1>2. CASE TimePasses
  <2>1. rsTrk' \in RsTrackers /\ rsTrk'.timeouts = rsTrk.timeouts
    BY <1>2, <1>a DEF TimePasses, RsTrackers
  <2> QED
    BY <1>2, <2>1 DEF TimePasses, RsInv, RsTypeOK, RsTrackers, SilenceShows, TaskGone, rsHandles
<1> QED
  BY <1>1, <1>2

\* The server and the network.
LEMMA RsNetwork == ASSUME RsInv, ServerAnswers \/ NetworkFault PROVE RsInv'
<1>a. MaxRsFaults \in Nat
  BY RsAssumption
<1>1. rsNet' \subseteq Requests \cup Responses
  BY DEF ServerAnswers, NetworkFault, Requests, Responses, RsInv, RsTypeOK
<1>2. rsServer' \in BOOLEAN
  BY Zenon DEF ServerAnswers, NetworkFault, RsInv, RsTypeOK
<1>3. rsFaults' \in 0..MaxRsFaults
  BY <1>a DEF ServerAnswers, NetworkFault, Fault, RsInv, RsTypeOK
<1>4. UNCHANGED <<rsHandles, rsStatus, rsOp, rsOps, rsListener, rsTask, rsReg, rsKey, rsTrk, rsCalls>>
  BY DEF ServerAnswers, NetworkFault
<1> QED
  BY <1>1, <1>2, <1>3, <1>4 DEF ServerAnswers, NetworkFault, RsInv, RsTypeOK, SilenceShows, TaskGone, rsHandles

\* Every step of the service, its tasks and the network keeps the invariant.
LEMMA RsSteps == RsInv /\ [RsNext]_rsVars => RsInv'
<1> SUFFICES ASSUME RsInv, [RsNext]_rsVars PROVE RsInv'
  OBVIOUS
<1>1. CASE UNCHANGED rsVars
  BY <1>1 DEF rsVars, RsInv, RsTypeOK, SilenceShows, TaskGone, rsHandles
<1> QED
  BY <1>1, RsCalls, RsTasks, RsPolls, RsHears, RsNetwork DEF RsNext

\* What the invariant says of the service.
LEMMA RsPromised == RsInv => RsTypeOK /\ StoppedLeavesNothing /\ SilenceShows
BY DEF RsInv, RsTypeOK, StoppedLeavesNothing

-----------------------------------------------------------------------------
\* Computer use

\* A task acts only on a fresh screen, and has not asked for one later than now.
CuTaskOK(t, acts) ==
    /\ {"pc", "shot", "need"} \subseteq DOMAIN t
    /\ t.need \in Nat /\ t.need <= acts
    /\ t.shot \in {"none", "fresh"} /\ (t.pc \in {"check", "down", "press"} => t.shot = "fresh")

\* A screenshot for the request that is waited for shows what the request asks for.
CuAwaits(x, tasks, shots, n) ==
    x.id # 0 =>
      /\ x.id \in CuIds /\ x.req \in Nat /\ x.req <= n
      /\ \A s \in shots : s.req = x.req => s.seen >= tasks[x.id].need

CuInv ==
    /\ cuActs \in Nat /\ cuReqs \in Nat
    /\ DOMAIN cuTask = CuIds /\ \A i \in CuIds : CuTaskOK(cuTask[i], cuActs)
    /\ \A s \in cuShots : s.req \in Nat /\ s.req <= cuReqs /\ s.seen \in Nat
    /\ "waiter" \in DOMAIN cuState /\ CuAwaits(cuState.waiter, cuTask, cuShots, cuReqs)

\* Nothing is asked for when the program starts.
LEMMA CuBegins == CuInit => CuInv
<1> SUFFICES ASSUME CuInit PROVE CuInv
  OBVIOUS
<1>1. CuTaskOK(NewTask, 0)
  BY DEF CuTaskOK, NewTask
<1>2. "waiter" \in DOMAIN cuState /\ cuState.waiter.id = 0
  BY DEF CuInit, NoWaiter
<1> QED
  BY <1>1, <1>2 DEF CuInit, CuInv, CuAwaits

\* The tasks are as they were but for signals, or one of them has moved; nothing is
\* asked for and nothing arrives.
CuQuiet ==
    /\ UNCHANGED <<cuReqs, cuShots>> /\ cuActs' \in Nat /\ cuActs <= cuActs'
    /\ DOMAIN cuTask' = CuIds
    /\ \A i \in CuIds : CuTaskOK(cuTask'[i], cuActs) /\ cuTask'[i].need = cuTask[i].need
    /\ "waiter" \in DOMAIN cuState' /\ cuState'.waiter \in {cuState.waiter, NoWaiter}

\* Whatever asks for nothing and captures nothing keeps the invariant.
LEMMA CuQuieter == ASSUME CuInv, CuQuiet PROVE CuInv'
<1>1. \A i \in CuIds : CuTaskOK(cuTask'[i], cuActs')
  BY DEF CuInv, CuQuiet, CuTaskOK
<1>2. NoWaiter.id = 0
  BY DEF NoWaiter
<1>3. CuAwaits(cuState'.waiter, cuTask', cuShots', cuReqs')
  BY <1>2 DEF CuInv, CuQuiet, CuAwaits
<1> QED
  BY <1>1, <1>3 DEF CuInv, CuQuiet

\* A signal changes nothing in what a task knows, nor does a move elsewhere than to act.
CuAs(u, t) == DOMAIN u = DOMAIN t /\ u.pc = t.pc /\ u.shot = t.shot /\ u.need = t.need

\* A task that knows what it knew is as good as before.
LEMMA CuKept == ASSUME NEW t, NEW u, NEW n, CuTaskOK(t, n), CuAs(u, t) PROVE CuTaskOK(u, n) /\ u.need = t.need
BY DEF CuTaskOK, CuAs

\* A task that moves, to act on a fresh screen only, changes nothing else.
LEMMA CuMoved ==
    ASSUME NEW i \in CuIds, NEW p, cuActs \in Nat, cuActs' \in Nat, cuActs <= cuActs', DOMAIN cuTask = CuIds,
           \A j \in CuIds : CuTaskOK(cuTask[j], cuActs), "waiter" \in DOMAIN cuState,
           UNCHANGED <<cuReqs, cuShots>>, "waiter" \in DOMAIN cuState', cuState'.waiter = cuState.waiter,
           cuTask' = [cuTask EXCEPT ![i].pc = p],
           p \notin {"check", "down", "press"} \/ cuTask[i].shot = "fresh"
    PROVE  CuQuiet
<1>1. CuTaskOK([cuTask[i] EXCEPT !.pc = p], cuActs) /\ [cuTask[i] EXCEPT !.pc = p].need = cuTask[i].need
  BY DEF CuTaskOK
<1>2. cuTask' = [cuTask EXCEPT ![i] = [cuTask[i] EXCEPT !.pc = p]]
  OBVIOUS
<1>3. DOMAIN cuTask' = CuIds /\ \A j \in CuIds : CuTaskOK(cuTask'[j], cuActs) /\ cuTask'[j].need = cuTask[j].need
  BY <1>1, <1>2
<1> QED
  BY <1>3 DEF CuQuiet

\* start and stop.
LEMMA CuAsks == ASSUME CuInv, Start1 \/ Start2 \/ Stop1 \/ Stop2 PROVE CuQuiet
<1>a. /\ cuActs \in Nat /\ DOMAIN cuTask = CuIds /\ \A i \in CuIds : CuTaskOK(cuTask[i], cuActs)
      /\ "waiter" \in DOMAIN cuState
  BY DEF CuInv
<1>b. UNCHANGED <<cuActs, cuReqs, cuShots>>
  BY DEF Start1, Start2, Stop1, Stop2
<1>1. CASE Start1
  <2>1. /\ cuTask' = [j \in CuIds |->
                       [cuTask[j] EXCEPT !.aborted = @ \/ (j = cuState.task),
                                         !.cancel = IF j = cuState.cancelTx THEN "dropped" ELSE @,
                                         !.stop = @ \/ (j = cuState.stopTx)]]
        /\ cuState' = [cuState EXCEPT !.status = "Thinking", !.stopTx = cuStart.id + 1,
                                      !.cancelTx = cuStart.id + 1, !.task = 0]
    BY <1>1 DEF Start1
  <2>2. ASSUME NEW j \in CuIds PROVE CuAs(cuTask'[j], cuTask[j])
    <3>1. {"pc", "shot", "need"} \subseteq DOMAIN cuTask[j]
      BY <1>a DEF CuTaskOK
    <3> QED
      BY <2>1, <3>1 DEF CuAs
  <2>3. "waiter" \in DOMAIN cuState' /\ cuState'.waiter = cuState.waiter
    BY <2>1, <1>a
  <2>4. DOMAIN cuTask' = CuIds /\ \A j \in CuIds : CuTaskOK(cuTask'[j], cuActs) /\ cuTask'[j].need = cuTask[j].need
    BY <2>1, <2>2, <1>a, CuKept
  <2> QED
    BY <1>a, <1>b, <2>3, <2>4 DEF CuQuiet
<1>2. CASE Start2
  <2>1. CASE cuTask' = cuTask
    <3>1. "waiter" \in DOMAIN cuState' /\ cuState'.waiter = cuState.waiter
      BY <1>2, <1>a DEF Start2
    <3> QED
      BY <3>1, <2>1, <1>a, <1>b DEF CuQuiet
  <2>2. CASE cuTask' = [cuTask EXCEPT ![cuStart.id].pc = "begin"] /\ cuState' = cuState
    <3>1. CASE cuStart.id \in CuIds
      <4>1. PICK i, p : i = cuStart.id /\ p = "begin"
        OBVIOUS
      <4>2. cuTask' = [cuTask EXCEPT ![i].pc = p] /\ p \notin {"check", "down", "press"} /\ i \in CuIds
        BY <3>1, <4>1, <2>2
      <4>3. cuActs' \in Nat /\ cuActs <= cuActs'
        BY <1>a, <1>b
      <4>4. UNCHANGED <<cuReqs, cuShots>>
        BY <1>b
      <4>5. "waiter" \in DOMAIN cuState' /\ cuState'.waiter = cuState.waiter
        BY <1>a, <2>2
      <4> QED
        BY <1>a, <4>2, <4>3, <4>4, <4>5, CuMoved
    <3>2. CASE cuStart.id \notin CuIds
      <4>1. DOMAIN cuTask' = CuIds /\ \A j \in CuIds : cuTask'[j] = cuTask[j]
        BY <3>2, <2>2, <1>a
      <4> QED
        BY <4>1, <2>2, <1>a, <1>b DEF CuQuiet
    <3> QED
      BY <3>1, <3>2
  <2> QED
    BY <1>2, <2>1, <2>2 DEF Start2
<1>3. CASE Stop1
  <2>1. /\ cuTask' = [j \in CuIds |->
               [cuTask[j] EXCEPT !.stop = @ \/ (j = cuState.stopTx),
                                 !.cancel = IF j = cuState.cancelTx THEN "sent" ELSE @]]
        /\ cuState' = [cuState EXCEPT !.status = "Stopped", !.stopTx = 0, !.cancelTx = 0, !.waiter = NoWaiter]
    BY <1>3 DEF Stop1
  <2>2. ASSUME NEW j \in CuIds PROVE CuAs(cuTask'[j], cuTask[j])
    <3>1. {"pc", "shot", "need"} \subseteq DOMAIN cuTask[j]
      BY <1>a DEF CuTaskOK
    <3> QED
      BY <2>1, <3>1 DEF CuAs
  <2>3. "waiter" \in DOMAIN cuState' /\ cuState'.waiter = NoWaiter
    BY <2>1, <1>a
  <2>4. DOMAIN cuTask' = CuIds /\ \A j \in CuIds : CuTaskOK(cuTask'[j], cuActs) /\ cuTask'[j].need = cuTask[j].need
    BY <2>1, <2>2, <1>a, CuKept
  <2> QED
    BY <1>a, <1>b, <2>3, <2>4 DEF CuQuiet
<1>4. CASE Stop2
  <2>1. UNCHANGED <<cuTask, cuState>>
    BY <1>4 DEF Stop2
  <2> QED
    BY <2>1, <1>a, <1>b DEF CuQuiet
<1> QED
  BY <1>1, <1>2, <1>3, <1>4

\* The steps of a task that ask for no screen: it acts on a fresh one only.
LEMMA CuRuns ==
    ASSUME CuInv, NEW i \in CuIds,
           Begin(i) \/ StopSeen(i) \/ Answered(i) \/ Check(i) \/ Down(i) \/ Up(i) \/ ScreenshotFails(i) \/ ResetHid(i)
    PROVE  CuQuiet
<1>a. /\ cuActs \in Nat /\ DOMAIN cuTask = CuIds /\ \A j \in CuIds : CuTaskOK(cuTask[j], cuActs)
      /\ "waiter" \in DOMAIN cuState
  BY DEF CuInv
<1>b. UNCHANGED <<cuReqs, cuShots>>
  BY DEF Begin, StopSeen, Answered, Check, Down, Up, ScreenshotFails, ResetHid
<1>c. cuActs' = cuActs \/ cuActs' = cuActs + 1
  BY DEF Begin, StopSeen, Answered, Check, Down, Up, ScreenshotFails, ResetHid
<1>d. cuState' = cuState \/ \E s : cuState' = [cuState EXCEPT !.status = s]
  BY DEF Begin, StopSeen, Answered, Check, Down, Up, ScreenshotFails, ResetHid, Shows
<1>e. "waiter" \in DOMAIN cuState' /\ cuState'.waiter = cuState.waiter
  BY <1>a, <1>d
<1>f. cuActs' \in Nat /\ cuActs <= cuActs'
  BY <1>a, <1>c
<1>1. PICK p : cuTask' = [cuTask EXCEPT ![i].pc = p] /\ (p \notin {"check", "down", "press"} \/ cuTask[i].shot = "fresh")
  <2>1. CASE Begin(i)
    <3>1. PICK q : q = "think"
      OBVIOUS
    <3>2. cuTask' = [cuTask EXCEPT ![i].pc = q]
      BY <2>1, <3>1 DEF Begin, Shows
    <3>3. q \notin {"check", "down", "press"}
      BY <3>1
    <3> QED
      BY <3>2, <3>3
  <2>2. CASE StopSeen(i)
    <3>1. PICK q : q = "stopping"
      OBVIOUS
    <3>2. cuTask' = [cuTask EXCEPT ![i].pc = q]
      BY <2>2, <3>1 DEF StopSeen
    <3>3. q \notin {"check", "down", "press"}
      BY <3>1
    <3> QED
      BY <3>2, <3>3
  <2>3. CASE ScreenshotFails(i)
    <3>1. PICK q : q = "failing"
      OBVIOUS
    <3>2. cuTask' = [cuTask EXCEPT ![i].pc = q]
      BY <2>3, <3>1 DEF ScreenshotFails
    <3>3. q \notin {"check", "down", "press"}
      BY <3>1
    <3> QED
      BY <3>2, <3>3
  <2>4. CASE ResetHid(i)
    <3>1. PICK q : q = "ended"
      OBVIOUS
    <3>2. cuTask' = [cuTask EXCEPT ![i].pc = q]
      BY <2>4, <3>1 DEF ResetHid
    <3>3. q \notin {"check", "down", "press"}
      BY <3>1
    <3> QED
      BY <3>2, <3>3
  <2>5. CASE Answered(i)
    <3>1. cuTask[i].shot = "none" \/ cuTask[i].shot = "fresh"
      BY <1>a DEF CuTaskOK
    <3>2. PICK a \in ProviderAnswers :
            cuTask' = [cuTask EXCEPT ![i].pc =
               IF ~NextActions(a, cuTask[i].shot # "none") THEN "failing"
               ELSE IF cuTask[i].cancel = "sent" THEN "stopping"
               ELSE IF a.reply.done THEN "completing"
               ELSE IF Len(a.reply.actions) = 1 THEN "shoot"
               ELSE IF cuTask[i].shot = "none" THEN "failing" ELSE "check"]
      BY <2>5 DEF Answered
    <3> DEFINE q == IF ~NextActions(a, cuTask[i].shot # "none") THEN "failing"
               ELSE IF cuTask[i].cancel = "sent" THEN "stopping"
               ELSE IF a.reply.done THEN "completing"
               ELSE IF Len(a.reply.actions) = 1 THEN "shoot"
               ELSE IF cuTask[i].shot = "none" THEN "failing" ELSE "check"
    <3>3. q \notin {"check", "down", "press"} \/ cuTask[i].shot # "none"
      OBVIOUS
    <3>4. cuTask' = [cuTask EXCEPT ![i].pc = q]
      BY <3>2
    <3> HIDE DEF q
    <3> QED
      BY <3>1, <3>3, <3>4
  <2>6. CASE Check(i)
    <3>1. cuTask[i].shot = "fresh"
      BY <2>6, <1>a DEF Check, CuTaskOK
    <3>2. cuTask' = [cuTask EXCEPT ![i].pc = IF cuTask[i].cancel = "sent" THEN "stopping" ELSE "down"]
      BY <2>6 DEF Check, Shows
    <3> QED
      BY <3>1, <3>2
  <2>7. CASE Down(i)
    <3>1. cuTask[i].shot = "fresh"
      BY <2>7, <1>a DEF Down, CuTaskOK
    <3>2. \/ cuTask' = [cuTask EXCEPT ![i].pc = "press"]
          \/ cuTask' = [cuTask EXCEPT ![i].pc = IF cuTask[i].cancel = "sent" THEN "stopping" ELSE "failing"]
      BY <2>7 DEF Down
    <3> QED
      BY <3>1, <3>2
  <2>8. CASE Up(i)
    <3> DEFINE q == CASE cuTask[i].cancel = "sent" -> "stopping" [] cuTask[i].cancel = "dropped" -> "failing" [] OTHER -> "shoot"
    <3>1. cuTask' = [cuTask EXCEPT ![i].pc = q]
      BY <2>8 DEF Up
    <3>2. q \notin {"check", "down", "press"}
      OBVIOUS
    <3> HIDE DEF q
    <3> QED
      BY <3>1, <3>2
  <2> QED
    BY <2>1, <2>2, <2>3, <2>4, <2>5, <2>6, <2>7, <2>8
<1> QED
  BY <1>1, <1>a, <1>b, <1>e, <1>f, CuMoved

\* The end of a task signals whose stop sender it drops.
LEMMA CuFinishes == ASSUME CuInv, NEW i \in CuIds, Finish(i) PROVE CuQuiet
<1>a. /\ cuActs \in Nat /\ DOMAIN cuTask = CuIds /\ \A j \in CuIds : CuTaskOK(cuTask[j], cuActs)
      /\ "waiter" \in DOMAIN cuState
  BY DEF CuInv
<1>b. UNCHANGED <<cuActs, cuReqs, cuShots>>
  BY DEF Finish
<1>1. cuTask' = [j \in CuIds |-> [cuTask[j] EXCEPT !.pc = IF j = i THEN "reset" ELSE @, !.stop = @ \/ (j = cuState.stopTx)]]
  BY DEF Finish
<1>2. ASSUME NEW j \in CuIds PROVE CuTaskOK(cuTask'[j], cuActs) /\ cuTask'[j].need = cuTask[j].need
  <2>0. CuTaskOK(cuTask[j], cuActs)
    BY <1>a
  <2>1. /\ DOMAIN cuTask'[j] = DOMAIN cuTask[j] /\ cuTask'[j].shot = cuTask[j].shot /\ cuTask'[j].need = cuTask[j].need
        /\ cuTask'[j].pc \in {cuTask[j].pc, "reset"}
    BY <2>0, <1>1 DEF CuTaskOK
  <2> QED
    BY <2>0, <2>1 DEF CuTaskOK
<1>3. \E s, x : cuState' = [cuState EXCEPT !.stopTx = s, !.status = x]
  BY DEF Finish
<1>4. "waiter" \in DOMAIN cuState' /\ cuState'.waiter = cuState.waiter
  BY <1>a, <1>3
<1>5. DOMAIN cuTask' = CuIds
  BY <1>1
<1>6. cuActs' \in Nat /\ cuActs <= cuActs' /\ cuReqs' = cuReqs /\ cuShots' = cuShots
  BY <1>a, <1>b
<1> QED
  BY <1>2, <1>4, <1>5, <1>6 DEF CuQuiet

\* A request for a screen: none has arrived for its number yet.
LEMMA CuShoots == ASSUME CuInv, NEW i \in CuIds, RequestScreenshot(i) PROVE CuInv'
<1>a. /\ cuActs \in Nat /\ cuReqs \in Nat /\ DOMAIN cuTask = CuIds /\ \A j \in CuIds : CuTaskOK(cuTask[j], cuActs)
      /\ "waiter" \in DOMAIN cuState /\ \A s \in cuShots : s.req \in Nat /\ s.req <= cuReqs /\ s.seen \in Nat
  BY DEF CuInv
<1>1. CuTaskOK([cuTask[i] EXCEPT !.pc = "wait", !.need = cuActs], cuActs)
  BY <1>a DEF CuTaskOK
<1>2. cuTask' = [cuTask EXCEPT ![i] = [cuTask[i] EXCEPT !.pc = "wait", !.need = cuActs]]
  BY <1>a DEF RequestScreenshot
<1>3. DOMAIN cuTask' = CuIds /\ \A j \in CuIds : CuTaskOK(cuTask'[j], cuActs)
  BY <1>1, <1>2, <1>a
<1>4. "waiter" \in DOMAIN cuState' /\ cuState'.waiter = [req |-> cuReqs + 1, id |-> i]
  BY <1>a DEF RequestScreenshot
<1>5. cuState'.waiter.req = cuReqs + 1 /\ cuState'.waiter.id = i
  BY <1>4
<1>6. cuReqs' = cuReqs + 1 /\ cuShots' = cuShots /\ cuActs' = cuActs
  BY DEF RequestScreenshot
<1>7. CuAwaits(cuState'.waiter, cuTask', cuShots', cuReqs')
  BY <1>5, <1>6, <1>a DEF CuAwaits
<1> QED
  BY <1>3, <1>4, <1>6, <1>7, <1>a DEF CuInv

\* The browser captures what is there now, and it is given to the request it is for.
LEMMA CuShows == ASSUME CuInv, Captures \/ SubmitScreenshot PROVE CuInv'
<1>a. /\ cuActs \in Nat /\ cuReqs \in Nat /\ DOMAIN cuTask = CuIds /\ \A j \in CuIds : CuTaskOK(cuTask[j], cuActs)
      /\ "waiter" \in DOMAIN cuState /\ \A s \in cuShots : s.req \in Nat /\ s.req <= cuReqs /\ s.seen \in Nat
  BY DEF CuInv
<1>1. CASE Captures
  <2>1. PICK r \in 1..cuReqs : cuShots' = cuShots \cup {[req |-> r, seen |-> cuActs]}
    BY <1>1 DEF Captures
  <2>2. \A s \in cuShots' : s \in cuShots \/ (s.req = r /\ s.seen = cuActs)
    BY <2>1
  <2>3. UNCHANGED <<cuState, cuTask, cuActs, cuReqs>>
    BY <1>1 DEF Captures
  <2>4. \A s \in cuShots' : s.req \in Nat /\ s.req <= cuReqs /\ s.seen \in Nat
    BY <2>2, <1>a
  <2>5. CuAwaits(cuState.waiter, cuTask, cuShots', cuReqs)
    <3> SUFFICES ASSUME cuState.waiter.id # 0 PROVE CuAwaits(cuState.waiter, cuTask, cuShots', cuReqs)
      BY DEF CuAwaits
    <3>1. cuState.waiter.id \in CuIds /\ cuTask[cuState.waiter.id].need <= cuActs /\ cuTask[cuState.waiter.id].need \in Nat
      BY <1>a DEF CuInv, CuAwaits, CuTaskOK
    <3> QED
      BY <3>1, <2>2, <1>a DEF CuInv, CuAwaits
  <2> QED
    BY <2>3, <2>4, <2>5, <1>a DEF CuInv
<1>2. CASE SubmitScreenshot
  <2> DEFINE i == cuState.waiter.id
  <2>1. PICK s \in cuShots :
          /\ s.req = cuState.waiter.req /\ cuState' = [cuState EXCEPT !.waiter = NoWaiter]
          /\ cuTask' = IF Running(i) /\ cuTask[i].pc = "wait"
                       THEN [cuTask EXCEPT ![i].shot = IF s.seen >= cuTask[i].need THEN "fresh" ELSE "old", ![i].pc = "begin"]
                       ELSE cuTask
    BY <1>2 DEF SubmitScreenshot
  <2>2. i # 0 /\ UNCHANGED <<cuActs, cuReqs, cuShots>>
    BY <1>2 DEF SubmitScreenshot
  <2>3. i \in CuIds /\ s.seen >= cuTask[i].need
    BY <2>1, <2>2 DEF CuInv, CuAwaits
  <2> HIDE DEF i
  <2>4. CuTaskOK([cuTask[i] EXCEPT !.shot = "fresh", !.pc = "begin"], cuActs)
        /\ [cuTask[i] EXCEPT !.shot = "fresh", !.pc = "begin"].need = cuTask[i].need
    BY <2>3, <1>a DEF CuTaskOK
  <2>5. cuTask' = cuTask \/ cuTask' = [cuTask EXCEPT ![i] = [cuTask[i] EXCEPT !.shot = "fresh", !.pc = "begin"]]
    BY <2>1, <2>3, <1>a
  <2>6. DOMAIN cuTask' = CuIds /\ \A j \in CuIds : CuTaskOK(cuTask'[j], cuActs) /\ cuTask'[j].need = cuTask[j].need
    BY <2>4, <2>5, <1>a
  <2>7. "waiter" \in DOMAIN cuState' /\ cuState'.waiter = NoWaiter
    BY <2>1, <1>a
  <2> QED
    BY <2>2, <2>6, <2>7, <1>a, CuQuieter DEF CuQuiet
<1> QED
  BY <1>1, <1>2

\* Every step keeps the invariant.
LEMMA CuSteps == CuInv /\ [CuNext]_cuVars => CuInv'
<1> SUFFICES ASSUME CuInv, [CuNext]_cuVars PROVE CuInv'
  OBVIOUS
<1>1. CASE UNCHANGED cuVars
  BY <1>1 DEF cuVars, CuInv
<1>2. CASE \E i \in CuIds : CuTaskStep(i)
  BY <1>2, CuRuns, CuFinishes, CuShoots, CuQuieter DEF CuTaskStep
<1> QED
  BY <1>1, <1>2, CuAsks, CuShows, CuQuieter DEF CuNext

\* Whoever acts acts on a fresh screen.
LEMMA CuPromised == CuInv => ActsOnFreshScreen
BY DEF CuInv, CuTaskOK, ActsOnFreshScreen

-----------------------------------------------------------------------------
\* The peer connection of a browser

\* The next frame the receiver will see, or else the next one encoded, comes after a gap.
PsGap == (psQueue = <<>> /\ psMissed) \/ (psQueue # <<>> /\ Head(psQueue).gap)

\* A receiver that forwards deltas has begun with a keyframe, and what its browser
\* lacks shows as a gap; sets the receiver was given are those of the encoder.
PsInv ==
    /\ {"waiting", "fresh"} \subseteq DOMAIN psVideo /\ "id" \in DOMAIN psEnc
    /\ DOMAIN psClient = {"intact", "broken", "bare", "told", "lame"}
    /\ ~psVideo.waiting /\ ~psClient.lame => ~psVideo.fresh /\ (psClient.intact \/ PsGap)
    /\ psClient.told => psSets = psEnc.id
    /\ ~psClient.broken /\ ~psClient.bare

\* A connection starts with nothing received.
LEMMA PsStarts == PsInit => PsInv
<1> SUFFICES ASSUME PsInit PROVE PsInv
  OBVIOUS
<1>1. psVideo = NewReceiver /\ psClient = NewClient /\ "id" \in DOMAIN psEnc
  BY DEF PsInit
<1>2. {"waiting", "fresh"} \subseteq DOMAIN NewReceiver /\ NewReceiver.waiting
  BY DEF NewReceiver
<1>3. DOMAIN NewClient = {"intact", "broken", "bare", "told", "lame"}
  BY DEF NewClient
<1>4. ~NewClient.told /\ ~NewClient.broken /\ ~NewClient.bare
  BY DEF NewClient
<1> QED
  BY <1>1, <1>2, <1>3, <1>4 DEF PsInv

\* The stream and the client are as they were, and the receiver waits as it did, or anew.
PsRests ==
    /\ UNCHANGED <<psQueue, psMissed, psSets, psClient>> /\ "id" \in DOMAIN psEnc' /\ psEnc'.id = psEnc.id
    /\ {"waiting", "fresh"} \subseteq DOMAIN psVideo'
    /\ psVideo'.waiting \/ (psVideo'.waiting = psVideo.waiting /\ psVideo'.fresh = psVideo.fresh)

\* A step that leaves the picture alone keeps the invariant.
LEMMA PsRested == PsInv /\ PsRests => PsInv'
BY DEF PsInv, PsRests, PsGap

\* The connection, and what the receivers do with its news.
LEMMA PsConnects ==
    ASSUME PsInv,
           (\E s \in PsStates : PcState(s) \/ IceState(s)) \/ CloseAborts \/ CloseEnds \/ VideoWaits \/ VideoState \/ Feedback
             \/ RetryDue \/ AudioStep
    PROVE  PsRests
<1>a. {"waiting", "fresh"} \subseteq DOMAIN psVideo /\ "id" \in DOMAIN psEnc
  BY DEF PsInv
<1>b. {"waiting", "fresh"} \subseteq DOMAIN NewReceiver /\ NewReceiver.waiting
  BY DEF NewReceiver
<1>c. "id" \in DOMAIN [psEnc EXCEPT !.want = TRUE] /\ [psEnc EXCEPT !.want = TRUE].id = psEnc.id
  BY <1>a
<1> USE DEF PsRests, psStream, SendState
<1>1. CASE \E s \in PsStates : PcState(s) \/ IceState(s)
  BY <1>1, <1>a DEF PcState, IceState
<1>2. CASE CloseAborts
  BY <1>2, <1>a, <1>b DEF CloseAborts
<1>3. CASE CloseEnds
  BY <1>3, <1>a DEF CloseEnds
<1>4. CASE VideoWaits
  <2>1. CASE psState = "connected"
    BY <1>4, <2>1, <1>a, <1>c DEF VideoWaits, RequestKeyframe
  <2>2. CASE psState \in {"closed", "failed"}
    BY <1>4, <2>2, <1>a, <1>b DEF VideoWaits
  <2>3. CASE psState \notin {"connected", "closed", "failed"}
    BY <1>4, <2>3, <1>a DEF VideoWaits
  <2> QED
    BY <2>1, <2>2, <2>3
<1>5. CASE VideoState
  BY <1>5, <1>a, <1>b DEF VideoState
<1>6. CASE Feedback
  <2>1. psVideo' = [psVideo EXCEPT !.waiting = TRUE, !.reqs = 1] /\ psEnc' = [psEnc EXCEPT !.want = TRUE]
    BY <1>6 DEF Feedback, AskAgain, RequestKeyframe
  <2>2. {"waiting", "fresh"} \subseteq DOMAIN psVideo' /\ psVideo'.waiting
    BY <2>1, <1>a
  <2> QED
    BY <1>6, <2>1, <2>2, <1>c DEF Feedback
<1>7. CASE RetryDue \/ AudioStep
  BY <1>7, <1>a DEF RetryDue, AudioStep
<1> QED
  BY <1>1, <1>2, <1>3, <1>4, <1>5, <1>6, <1>7

\* A frame is queued with the gap before it, or is a gap before the next.
LEMMA PsEncodes == ASSUME PsInv, Encode PROVE PsInv'
<1>1. /\ "id" \in DOMAIN psEnc' /\ psEnc'.id = psEnc.id
      /\ \E kind \in {"delta", "sets", "key"} : Broadcast(kind)
  BY DEF Encode, PsInv
<1>2. UNCHANGED <<psVideo, psSets, psClient>>
  BY DEF Encode
<1>3. PICK kind : Broadcast(kind)
  BY <1>1
<1>4. PsGap => PsGap'
  <2>1. CASE UNCHANGED <<psQueue, psMissed>>
    BY <2>1 DEF PsGap
  <2>2. CASE psQueue = <<>> /\ psQueue' = <<[kind |-> kind, gap |-> psMissed]>>
    BY <2>2 DEF PsGap
  <2>3. CASE psQueue # <<>> /\ UNCHANGED psQueue
    BY <2>3 DEF PsGap
  <2> QED
    BY <1>3, <2>1, <2>2, <2>3 DEF Broadcast
<1> QED
  BY <1>1, <1>2, <1>4 DEF PsInv

\* Another pipeline: receiver and queue are new, and nothing is known of its sets.
LEMMA PsReconnects == ASSUME PsInv, Reconnect PROVE PsInv'
<1>1. psVideo' = NewReceiver /\ "id" \in DOMAIN psEnc'
  BY DEF Reconnect, StartReceiver
<1>2. psClient' = [psClient EXCEPT !.intact = FALSE, !.told = FALSE, !.lame = FALSE]
  BY DEF Reconnect
<1>3. {"waiting", "fresh"} \subseteq DOMAIN NewReceiver /\ NewReceiver.waiting
  BY DEF NewReceiver
<1>4. DOMAIN psClient' = DOMAIN psClient
  BY <1>2
<1>5. ~psClient'.told /\ psClient'.broken = psClient.broken /\ psClient'.bare = psClient.bare
  BY <1>2 DEF PsInv
<1> QED
  BY <1>1, <1>3, <1>4, <1>5 DEF PsInv

\* The receiver after a frame: a keyframe ends the waiting, any other frame at a gap
\* begins it, and it forgets that it is new with what it has written.
LEMMA PsGates ==
    ASSUME PsInv, NEW f, NEW ok \in BOOLEAN, Gated(f, ok)
    PROVE  /\ {"waiting", "fresh"} \subseteq DOMAIN psVideo' /\ "id" \in DOMAIN psEnc' /\ psEnc'.id = psEnc.id
           /\ f.kind = "key" => ~psVideo'.waiting
           /\ f.kind # "key" /\ (psVideo.waiting \/ Gap(f)) => psVideo'.waiting
           /\ f.kind # "key" /\ ~(psVideo.waiting \/ Gap(f)) => ~psVideo'.waiting
           /\ f.kind = "key" \/ ~(psVideo.waiting \/ Gap(f)) => (psVideo'.fresh <=> psVideo.fresh /\ ~ok)
<1>a. {"waiting", "fresh"} \subseteq DOMAIN psVideo /\ "id" \in DOMAIN psEnc
  BY DEF PsInv
<1>b. "id" \in DOMAIN [psEnc EXCEPT !.want = TRUE] /\ [psEnc EXCEPT !.want = TRUE].id = psEnc.id
  BY <1>a
<1>1. CASE f.kind = "key"
  <2>1. PICK r : /\ psVideo' = [psVideo EXCEPT !.waiting = FALSE, !.reqs = r, !.fresh = @ /\ ~ok]
                 /\ psEnc' = psEnc
    BY <1>1 DEF Gated
  <2> QED
    BY <1>1, <2>1, <1>a
<1>2. CASE f.kind # "key" /\ (psVideo.waiting \/ Gap(f))
  <2>1. PICK r, x : psVideo' = [psVideo EXCEPT !.waiting = TRUE, !.reqs = r, !.fresh = x]
    BY <1>2 DEF Gated
  <2>2. psEnc' = psEnc \/ psEnc' = [psEnc EXCEPT !.want = TRUE]
    BY <1>2 DEF Gated, RequestKeyframe
  <2>3. {"waiting", "fresh"} \subseteq DOMAIN psVideo' /\ psVideo'.waiting
    BY <2>1, <1>a
  <2> QED
    BY <1>2, <2>2, <2>3, <1>a, <1>b
<1>3. CASE f.kind # "key" /\ ~(psVideo.waiting \/ Gap(f))
  <2>1. psVideo' = [psVideo EXCEPT !.fresh = @ /\ ~ok] /\ psEnc' = psEnc
    BY <1>3 DEF Gated
  <2> QED
    BY <1>3, <2>1, <1>a
<1> QED
  BY <1>1, <1>2, <1>3

\* A frame that is taken from the queue: written, not written, or passed over.
LEMMA PsTakes == ASSUME PsInv, VideoFrame PROVE PsInv'
<1> DEFINE f == Head(psQueue)
<1>1. psQueue # <<>> /\ psQueue' = <<>>
  BY DEF VideoFrame
<1>g. PsGap <=> f.gap
  BY <1>1 DEF PsGap
<1>i. ~psVideo.waiting /\ ~psClient.lame => ~psVideo.fresh /\ (psClient.intact \/ f.gap)
  BY <1>g DEF PsInv
<1>2. CASE \E ok \in BOOLEAN : Forwards(f) /\ Gated(f, ok) /\ Track(f) /\ Sees(f, ok) /\ (ok \/ psMissed')
  <2>1. PICK ok \in BOOLEAN : Forwards(f) /\ Gated(f, ok) /\ Track(f) /\ Sees(f, ok) /\ (ok \/ psMissed')
    BY <1>2
  <2> HIDE DEF f
  <2>2. /\ {"waiting", "fresh"} \subseteq DOMAIN psVideo' /\ "id" \in DOMAIN psEnc' /\ psEnc'.id = psEnc.id
        /\ f.kind = "key" => ~psVideo'.waiting
        /\ f.kind # "key" /\ (psVideo.waiting \/ Gap(f)) => psVideo'.waiting
        /\ f.kind # "key" /\ ~(psVideo.waiting \/ Gap(f)) => ~psVideo'.waiting
        /\ f.kind = "key" \/ ~(psVideo.waiting \/ Gap(f)) => (psVideo'.fresh <=> psVideo.fresh /\ ~ok)
    BY <2>1, PsGates
  <2>3. f.kind = "delta" => ~psVideo.waiting /\ ~Gap(f)
    BY <2>1 DEF Forwards, Skips
  <2>4. /\ DOMAIN psClient' = {"intact", "broken", "bare", "told", "lame"}
        /\ f.kind = "key" => (psClient'.intact <=> ok) /\ (psClient'.lame <=> ~ok /\ psVideo.fresh)
        /\ f.kind # "key" => (psClient'.intact <=> psClient.intact /\ ~f.gap /\ ok) /\ (psClient'.lame <=> psClient.lame)
        /\ psClient'.told <=> psClient.told \/ f.kind = "sets"
        /\ psClient'.broken <=> psClient.broken \/ (ok /\ f.kind = "delta" /\ ~psClient.lame /\ ~(psClient.intact /\ ~f.gap))
        /\ psClient'.bare <=> psClient.bare \/ (ok /\ f.kind = "key" /\ psEnc.apart /\ psClient.told /\ psSets # psEnc.id)
    BY <2>1 DEF Sees
  <2>5. psClient'.told => psSets' = psEnc.id
    <3>1. CASE f.kind = "sets"
      BY <3>1, <2>1 DEF Track
    <3>2. CASE f.kind # "sets"
      BY <3>2, <2>1, <2>4 DEF Track, PsInv
    <3> QED
      BY <3>1, <3>2
  <2>6. ~psClient'.bare
    BY <2>4 DEF PsInv
  <2>7. ~psClient'.broken
    BY <2>3, <2>4, <1>i DEF PsInv, Gap
  <2>8. PsGap' <=> psMissed'
    BY <1>1 DEF PsGap
  <2>9. ~psVideo'.waiting /\ ~psClient'.lame => ~psVideo'.fresh /\ (psClient'.intact \/ PsGap')
    <3>1. CASE f.kind = "key"
      BY <3>1, <2>1, <2>2, <2>4, <2>8
    <3>2. CASE f.kind # "key"
      BY <3>2, <2>1, <2>2, <2>4, <2>8, <1>i DEF Gap
    <3> QED
      BY <3>1, <3>2
  <2> QED
    BY <2>2, <2>4, <2>5, <2>6, <2>7, <2>9 DEF PsInv
<1>3. CASE ~Forwards(f) /\ Gated(f, FALSE) /\ UNCHANGED psSets
             /\ psClient' = [psClient EXCEPT !.intact = FALSE, !.told = @ \/ f.kind = "sets"]
  <2> HIDE DEF f
  <2>1. f.kind = "delta" /\ (psVideo.waiting \/ Gap(f))
    BY <1>3 DEF Forwards, Skips
  <2>2. {"waiting", "fresh"} \subseteq DOMAIN psVideo' /\ "id" \in DOMAIN psEnc' /\ psEnc'.id = psEnc.id /\ psVideo'.waiting
    BY <1>3, <2>1, PsGates
  <2>3. DOMAIN psClient' = DOMAIN psClient
    BY <1>3
  <2>4. (psClient'.told <=> psClient.told) /\ psClient'.broken = psClient.broken /\ psClient'.bare = psClient.bare
    BY <1>3, <2>1 DEF PsInv
  <2> QED
    BY <1>3, <2>2, <2>3, <2>4 DEF PsInv
<1> QED
  BY <1>2, <1>3 DEF VideoFrame

\* Every step of the session keeps the invariant.
LEMMA PsSteps == PsInv /\ [PsNext]_psVars => PsInv'
<1> SUFFICES ASSUME PsInv, [PsNext]_psVars PROVE PsInv'
  OBVIOUS
<1>1. CASE UNCHANGED psVars
  BY <1>1 DEF psVars, PsInv, PsGap
<1> QED
  BY <1>1, PsConnects, PsRested, PsEncodes, PsReconnects, PsTakes DEF PsNext

\* The picture is whole and keyframes come with their sets.
LEMMA PsPromised == PsInv => PictureNeverBroken /\ KeysCarrySets
BY DEF PsInv, PictureNeverBroken, KeysCarrySets

-----------------------------------------------------------------------------
\* The MJPEG stream of a browser

\* Requests and places are records, and who is counted holds its guard.
MjInv ==
    /\ DOMAIN mjConn = MjConns /\ \A c \in MjConns : "guard" \in DOMAIN mjConn[c]
    /\ DOMAIN mjClients = MjIds /\ \A i \in MjIds : "conn" \in DOMAIN mjClients[i]
    /\ CountedIsAlive

\* x is conn further on, with the guard it had.
MjOn(conn, x) == "guard" \in DOMAIN x /\ x.guard = conn.guard

\* The requests go on and the places are as they were.
MjGoesOn ==
    /\ mjClients' = mjClients
    /\ DOMAIN mjConn' = MjConns /\ \A c \in MjConns : MjOn(mjConn[c], mjConn'[c])

\* Nobody is counted at first.
LEMMA MjStarts == MjInit => MjInv
<1> SUFFICES ASSUME MjInit PROVE MjInv
  OBVIOUS
<1>1. "guard" \in DOMAIN NewConn /\ "guard" \in DOMAIN Spent
  BY DEF NewConn, Spent
<1>2. DOMAIN mjConn = MjConns /\ \A c \in MjConns : "guard" \in DOMAIN mjConn[c]
  BY <1>1 DEF MjInit
<1>3. DOMAIN mjClients = MjIds /\ \A i \in MjIds : "conn" \in DOMAIN mjClients[i] /\ mjClients[i].conn = NoConn
  BY DEF MjInit, Vacant
<1>4. CountedIsAlive
  BY <1>3, MjAssumption DEF CountedIsAlive, Counted
<1> QED
  BY <1>2, <1>3, <1>4 DEF MjInv

\* What a request becomes keeps its guard.
LEMMA MjForms ==
    ASSUME NEW conn, "guard" \in DOMAIN conn, NEW rel
    PROVE  MjOn(conn, OverConn(conn)) /\ MjOn(conn, Loops(conn)) /\ MjOn(conn, Sending(conn, rel))
<1>1. MjOn(conn, OverConn(conn))
  BY DEF MjOn, OverConn, NewConn
<1>2. MjOn(conn, [conn EXCEPT !.pc = "wait"])
  BY DEF MjOn
<1>3. MjOn(conn, Loops(conn))
  BY <1>1, <1>2 DEF Loops
<1>4. MjOn(conn, [conn EXCEPT !.pc = "send", !.part = [pic |-> mjFrame, rel |-> rel]])
  BY DEF MjOn
<1> QED
  BY <1>1, <1>3, <1>4 DEF Sending

\* One request goes on, the others stay.
LEMMA MjTells ==
    ASSUME MjInv, NEW c \in MjConns, NEW x, MjOn(mjConn[c], x), Tell(c, x)
    PROVE  DOMAIN mjConn' = MjConns /\ \A d \in MjConns : MjOn(mjConn[d], mjConn'[d])
BY DEF MjInv, MjOn, Tell

\* A new frame and its ring.
LEMMA MjFrames ==
    ASSUME MjInv
    PROVE  /\ DOMAIN Rung = MjConns /\ \A c \in MjConns : MjOn(mjConn[c], Rung[c])
           /\ \A lucky \in SUBSET MjConns : DOMAIN Renumbered(lucky) = MjConns
                /\ \A c \in MjConns : MjOn(mjConn[c], Renumbered(lucky)[c])
<1>1. ASSUME NEW c \in MjConns PROVE MjOn(mjConn[c], Rung[c])
  <2>1. MjOn(mjConn[c], mjConn[c]) /\ \A x : MjOn(mjConn[c], [mjConn[c] EXCEPT !.rings = x])
    BY DEF MjInv, MjOn
  <2>2. \E x : Rung[c] = [mjConn[c] EXCEPT !.rings = x] \/ Rung[c] = mjConn[c]
    BY DEF Rung
  <2> QED
    BY <2>1, <2>2
<1>2. ASSUME NEW lucky \in SUBSET MjConns, NEW c \in MjConns PROVE MjOn(mjConn[c], Renumbered(lucky)[c])
  <2>1. MjOn(mjConn[c], mjConn[c])
    BY DEF MjInv, MjOn
  <2>2. \A x : MjOn(mjConn[c], [mjConn[c] EXCEPT !.last = x])
    BY DEF MjInv, MjOn
  <2>4. CASE Listens(c) /\ mjConn[c].pc # "send"
    <3>1. Renumbered(lucky)[c] = [mjConn[c] EXCEPT !.last = Passed(@, c \in lucky)]
      BY <2>4 DEF Renumbered
    <3> QED
      BY <3>1, <2>2
  <2>5. CASE mjConn[c].pc = "send"
    <3>1. Renumbered(lucky)[c] = [mjConn[c] EXCEPT !.last = Passed(@, c \in lucky), !.part.rel = Passed(@, c \in lucky)]
      BY <2>5 DEF Renumbered
    <3>2. MjOn(mjConn[c], [mjConn[c] EXCEPT !.last = Passed(@, c \in lucky), !.part.rel = Passed(@, c \in lucky)])
      BY DEF MjInv, MjOn
    <3> QED
      BY <3>1, <3>2
  <2>6. CASE ~Listens(c)
    <3>1. Renumbered(lucky)[c] = mjConn[c]
      BY <2>6 DEF Renumbered, Listens
    <3> QED
      BY <3>1, <2>1
  <2> QED
    BY <2>4, <2>5, <2>6
<1>3. DOMAIN Rung = MjConns /\ \A lucky \in SUBSET MjConns : DOMAIN Renumbered(lucky) = MjConns
  BY DEF Rung, Renumbered
<1> QED
  BY <1>1, <1>2, <1>3

\* The capture thread and the host leave places and guards alone.
LEMMA MjCaptures ==
    ASSUME MjInv,
           CaptureSteps \/ TornFrameArrives \/ EncodeFails \/ CaptureStarts \/ CaptureStops \/ HostShows \/ GoesOffline \/ CleanupScans
    PROVE  MjGoesOn
<1>1. CASE UNCHANGED <<mjClients, mjConn>>
  BY <1>1 DEF MjGoesOn, MjInv, MjOn
<1>2. CASE UNCHANGED mjClients /\ mjConn' = Rung
  BY <1>2, MjFrames DEF MjGoesOn
<1>3. CASE UNCHANGED mjClients /\ \E lucky \in SUBSET MjConns : mjConn' = Renumbered(lucky)
  BY <1>3, MjFrames DEF MjGoesOn
<1> QED
  BY <1>1, <1>2, <1>3
  DEF CaptureSteps, FrameArrives, Arrives, StoreUnseen, DropSame, StoreSeen, Ring, TornFrameArrives, EncodeFails, CaptureStarts,
      CaptureStops, HostShows, GoesOffline, CleanupScans

\* What a task, its body and its browser do before the guard is dropped.
LEMMA MjRuns ==
    ASSUME MjInv, NEW c \in MjConns,
           Subscribe(c) \/ First(c) \/ SendFails(c) \/ Hear(c) \/ BodyEnds(c) \/ TimesOut(c) \/ BrowserGoes(c)
    PROVE  MjGoesOn
<1>a. "guard" \in DOMAIN mjConn[c]
  BY DEF MjInv
<1>1. mjClients' = mjClients
  BY DEF Subscribe, First, SendFails, Hear, BodyEnds, TimesOut, BrowserGoes, OnlyConn
<1>2. \E x : MjOn(mjConn[c], x) /\ Tell(c, x)
  <2>1. CASE Subscribe(c)
    <3>1. MjOn(mjConn[c], [mjConn[c] EXCEPT !.pc = "first"])
      BY <1>a DEF MjOn
    <3> QED
      BY <2>1, <3>1 DEF Subscribe
  <2>2. CASE First(c)
    BY <2>2, <1>a, MjForms DEF First
  <2>3. CASE SendFails(c)
    BY <2>3, <1>a, MjForms DEF SendFails
  <2>4. CASE Hear(c)
    <3> DEFINE lag == mjConn[c].rings > MjBell
               heard == [mjConn[c] EXCEPT !.rings = IF lag THEN MjBell ELSE @ - 1]
    <3>1. "guard" \in DOMAIN heard /\ heard.guard = mjConn[c].guard
      BY <1>a
    <3>2. Tell(c, CASE mjOnline /\ (lag \/ mjConn[c].last # "cur") -> Sending(heard, "cur") [] OTHER -> Loops(heard))
      BY <2>4 DEF Hear
    <3> HIDE DEF heard
    <3>3. MjOn(heard, Sending(heard, "cur")) /\ MjOn(heard, Loops(heard))
      BY <3>1, MjForms
    <3>4. MjOn(mjConn[c], Sending(heard, "cur")) /\ MjOn(mjConn[c], Loops(heard))
      BY <3>1, <3>3 DEF MjOn
    <3>5. Tell(c, Sending(heard, "cur")) \/ Tell(c, Loops(heard))
      BY <3>2
    <3> QED
      BY <3>4, <3>5
  <2>5. CASE BodyEnds(c) \/ BrowserGoes(c)
    <3>1. MjOn(mjConn[c], [mjConn[c] EXCEPT !.body = "closed"])
      BY <1>a DEF MjOn
    <3> QED
      BY <2>5, <3>1 DEF BodyEnds, BrowserGoes
  <2>6. CASE TimesOut(c)
    <3>1. PICK rel : Tell(c, OverConn(mjConn[c])) \/ Tell(c, Sending(mjConn[c], rel))
      BY <2>6 DEF TimesOut
    <3> QED
      BY <3>1, <1>a, MjForms
  <2> QED
    BY <2>1, <2>2, <2>3, <2>4, <2>5, <2>6
<1> QED
  BY <1>1, <1>2, MjTells DEF MjGoesOn

\* Requests that go on keep the invariant, and nobody loses a place.
LEMMA MjOns ==
    ASSUME MjInv, MjGoesOn
    PROVE  MjInv' /\ \A c \in MjConns : Counted(c) => mjClients'[MjId[c]] # Vacant
BY MjAssumption DEF MjInv, MjGoesOn, MjOn, CountedIsAlive, Counted, Vacant

\* What a step takes from a request it takes by a disconnection, the cleanup of a
\* stale client or the request's end.
MjLoses ==
    \A c \in MjConns : Counted(c) /\ mjClients'[MjId[c]] = Vacant =>
        mjCutting' \/ MjId[c] \in mjStale \/ ~mjConn'[c].guard

\* A request is counted, takes part or is dropped; its place is not another's to take.
LEMMA MjCounts ==
    ASSUME MjInv, NEW c \in MjConns, Connect(c) \/ TakesPart(c) \/ Unregister(c)
    PROVE  MjInv' /\ MjLoses
<1>a. MjId[c] \in MjIds /\ NoConn \notin MjConns /\ \A d \in MjConns : MjId[d] \in MjIds
  BY MjAssumption
<1>1. CASE Connect(c)
  <2>1. PICK x : x = [mjConn[c] EXCEPT !.pc = "born", !.guard = TRUE]
    OBVIOUS
  <2>2. "guard" \in DOMAIN x /\ x.guard
    BY <2>1 DEF MjInv
  <2>3. mjConn' = [mjConn EXCEPT ![c] = x] /\ mjClients' = [mjClients EXCEPT ![MjId[c]] = [conn |-> c, stale |-> FALSE]]
    BY <1>1, <2>1 DEF Connect, Registers, Tell
  <2>4. DOMAIN mjConn' = MjConns /\ DOMAIN mjClients' = MjIds /\ mjConn'[c].guard
        /\ \A d \in MjConns : d # c => mjConn'[d] = mjConn[d]
    BY <2>2, <2>3 DEF MjInv
  <2>5. mjClients'[MjId[c]] = [conn |-> c, stale |-> FALSE] /\ \A i \in MjIds : i # MjId[c] => mjClients'[i] = mjClients[i]
    BY <2>3, <1>a DEF MjInv
  <2>6. mjClients'[MjId[c]].conn = c /\ "conn" \in DOMAIN mjClients'[MjId[c]]
    BY <2>5
  <2>7. CountedIsAlive'
    BY <2>4, <2>5, <2>6, <1>a DEF MjInv, CountedIsAlive, Counted
  <2>8. MjInv'
    <3>1. \A d \in MjConns : "guard" \in DOMAIN mjConn'[d]
      BY <2>2, <2>3 DEF MjInv
    <3>2. \A i \in MjIds : "conn" \in DOMAIN mjClients'[i]
      BY <2>5, <2>6 DEF MjInv
    <3> QED
      BY <3>1, <3>2, <2>4, <2>7 DEF MjInv
  <2>9. Vacant.conn = NoConn
    BY DEF Vacant
  <2> QED
    BY <2>5, <2>6, <2>8, <2>9, <1>a DEF MjLoses, Counted
<1>2. CASE TakesPart(c)
  <2>1. PICK s : s = [mjConn[c] EXCEPT !.shown = mjConn[c].part.pic, !.last = mjConn[c].part.rel, !.part = Unread]
    OBVIOUS
  <2>2. "guard" \in DOMAIN s /\ s.guard = mjConn[c].guard
    BY <2>1 DEF MjInv
  <2>3. MjOn(mjConn[c], Loops(s))
    BY <2>2, MjForms DEF MjOn
  <2>4. Tell(c, Loops(s)) /\ Active(c)
    BY <1>2, <2>1 DEF TakesPart
  <2>5. DOMAIN mjConn' = MjConns /\ \A d \in MjConns : MjOn(mjConn[d], mjConn'[d])
    BY <2>3, <2>4, MjTells
  <2>6. DOMAIN mjClients' = MjIds /\ \A i \in MjIds : "conn" \in DOMAIN mjClients'[i] /\ mjClients'[i].conn = mjClients[i].conn
    BY <2>4 DEF MjInv, Active
  <2> QED
    BY <2>5, <2>6, <1>a DEF MjInv, MjOn, MjLoses, CountedIsAlive, Counted, Vacant
<1>3. CASE Unregister(c)
  <2>1. PICK x : x = [mjConn[c] EXCEPT !.guard = FALSE]
    OBVIOUS
  <2>2. "guard" \in DOMAIN x /\ ~x.guard
    BY <2>1 DEF MjInv
  <2>3. mjConn' = [mjConn EXCEPT ![c] = x]
        /\ mjClients' = [mjClients EXCEPT ![MjId[c]] = IF @.conn = c THEN Vacant ELSE @]
    BY <1>3, <2>1 DEF Unregister, Tell
  <2>4. DOMAIN mjConn' = MjConns /\ DOMAIN mjClients' = MjIds /\ mjConn'[c] = x
        /\ \A d \in MjConns : d # c => mjConn'[d] = mjConn[d]
    BY <2>3 DEF MjInv
  <2>5. /\ mjClients[MjId[c]].conn = c => mjClients'[MjId[c]] = Vacant
        /\ mjClients[MjId[c]].conn # c => mjClients'[MjId[c]] = mjClients[MjId[c]]
        /\ \A i \in MjIds : i # MjId[c] => mjClients'[i] = mjClients[i]
    BY <2>3, <1>a DEF MjInv
  <2>6. Vacant.conn = NoConn /\ "conn" \in DOMAIN Vacant
    BY DEF Vacant
  <2>7. MjInv'
    <3>1. \A d \in MjConns : "guard" \in DOMAIN mjConn'[d]
      BY <2>2, <2>4 DEF MjInv
    <3>2. \A i \in MjIds : "conn" \in DOMAIN mjClients'[i]
      BY <2>5, <2>6 DEF MjInv
    <3>3. ASSUME NEW d \in MjConns, mjClients'[MjId[d]].conn = d PROVE mjConn'[d].guard
      <4>1. d # c
        BY <3>3, <2>5, <2>6, <1>a
      <4>2. mjClients[MjId[d]].conn = d
        BY <3>3, <2>5, <2>6, <1>a
      <4> QED
        BY <4>1, <4>2, <2>4 DEF MjInv, CountedIsAlive, Counted
    <3> QED
      BY <3>1, <3>2, <3>3, <2>4 DEF MjInv, CountedIsAlive, Counted
  <2>8. MjLoses
    <3> SUFFICES ASSUME NEW d \in MjConns, Counted(d), mjClients'[MjId[d]] = Vacant PROVE ~mjConn'[d].guard
      BY DEF MjLoses
    <3>1. mjClients[MjId[d]].conn = d /\ d # NoConn
      BY <1>a DEF Counted
    <3>2. d = c
      BY <3>1, <2>5, <2>6, <1>a
    <3> QED
      BY <3>2, <2>2, <2>4
  <2> QED
    BY <2>7, <2>8
<1> QED
  BY <1>1, <1>2, <1>3

\* The cleanup takes only places that are stale.
LEMMA MjCleans ==
    ASSUME MjInv, Disconnects \/ CleanupRemoves \/ \E i \in MjIds : Ages(i)
    PROVE  MjInv' /\ MjLoses
<1>a. NoConn \notin MjConns /\ \A d \in MjConns : MjId[d] \in MjIds
  BY MjAssumption
<1>b. Vacant.conn = NoConn /\ "conn" \in DOMAIN Vacant
  BY DEF Vacant
<1>1. mjConn' = mjConn
  BY DEF Disconnects, CleanupRemoves, Ages
<1>2. /\ DOMAIN mjClients' = MjIds
      /\ \A i \in MjIds : mjClients'[i] = Vacant
            \/ ("conn" \in DOMAIN mjClients'[i] /\ mjClients'[i].conn = mjClients[i].conn)
  <2>1. CASE Disconnects
    BY <2>1 DEF Disconnects
  <2>2. CASE CleanupRemoves
    BY <2>2 DEF CleanupRemoves, MjInv
  <2>3. CASE \E i \in MjIds : Ages(i)
    BY <2>3 DEF Ages, MjInv
  <2> QED
    BY <2>1, <2>2, <2>3
<1>3. MjInv'
  BY <1>1, <1>2, <1>a, <1>b DEF MjInv, CountedIsAlive, Counted
<1>4. MjLoses
  <2>1. CASE Disconnects
    BY <2>1 DEF Disconnects, MjLoses
  <2>2. CASE CleanupRemoves
    BY <2>2, <1>a, <1>b DEF CleanupRemoves, MjLoses, Counted
  <2>3. CASE \E i \in MjIds : Ages(i)
    <3>1. \A i \in MjIds : mjClients'[i].conn = mjClients[i].conn
      BY <2>3 DEF Ages, MjInv
    <3> QED
      BY <3>1, <1>a, <1>b DEF MjLoses, Counted
  <2> QED
    BY <2>1, <2>2, <2>3
<1> QED
  BY <1>3, <1>4

\* Every step keeps the invariant and the places.
LEMMA MjSteps == MjInv /\ [MjNext]_mjVars => MjInv' /\ (MjLoses \/ UNCHANGED mjVars)
<1> SUFFICES ASSUME MjInv, [MjNext]_mjVars PROVE MjInv' /\ (MjLoses \/ UNCHANGED mjVars)
  OBVIOUS
<1>1. CASE UNCHANGED mjVars
  BY <1>1 DEF mjVars, MjInv, CountedIsAlive, Counted
<1>2. CASE MjGoesOn
  BY <1>2, MjOns DEF MjLoses
<1>3. CASE \E c \in MjConns : Connect(c) \/ TakesPart(c) \/ Unregister(c)
  BY <1>3, MjCounts
<1> QED
  BY <1>1, <1>2, <1>3, MjCaptures, MjRuns, MjCleans DEF MjNext, TaskSteps

\* Whoever is counted is alive.
LEMMA MjPromised == MjInv => CountedIsAlive
BY DEF MjInv

-----------------------------------------------------------------------------
\* The event socket of a browser

\* A socket has topics, all of them known.
EhSocket(s) == "topics" \in DOMAIN s /\ s.topics \subseteq Topics

EhInv == DOMAIN ehSock = EhSockets /\ \A w \in EhSockets : EhSocket(ehSock[w])

\* No client follows anything at first.
LEMMA EhStarts == EhInit => EhInv
<1> SUFFICES ASSUME EhInit PROVE EhInv
  OBVIOUS
<1>1. PICK asks \in [EhSockets -> 0..MaxEhAsks] : ehSock = [w \in EhSockets |-> [NewSock EXCEPT !.asks = asks[w]]]
  BY DEF EhInit
<1>2. EhSocket(NewSock)
  BY DEF EhSocket, NewSock
<1>3. ASSUME NEW x PROVE EhSocket([NewSock EXCEPT !.asks = x])
  BY <1>2 DEF EhSocket
<1> QED
  BY <1>1, <1>3 DEF EhInv

\* A step that puts a socket in its place keeps the others.
LEMMA EhPuts ==
    ASSUME EhInv, NEW w \in EhSockets, NEW sock, EhSocket(sock), ehSock' = [ehSock EXCEPT ![w] = sock]
    PROVE  EhInv'
BY DEF EhInv

\* The bus and the broadcaster leave the topics alone.
LEMMA EhBus ==
    ASSUME EhInv, (\E p \in Parts : Change(p)) \/ BusSteps \/ CastSteps
    PROVE  EhInv'
<1>1. CASE ehSock' = ehSock
  BY <1>1 DEF EhInv
<1>2. CASE \E u \in EhPublishers : Publish(u)
  <2>1. PICK u \in EhPublishers : ehSock' = [w \in EhSockets |-> Told(ehSock[w], ehPub[u].event)]
    BY <1>2 DEF Publish
  <2>2. ASSUME NEW s, NEW e, EhSocket(s) PROVE EhSocket(Told(s, e))
    <3>1. CASE ~s.listens
      BY <2>2, <3>1 DEF EhSocket, Told
    <3>2. CASE s.listens
      <4>1. PICK q, m : Told(s, e) = [s EXCEPT !.queue = q, !.missed = m]
        BY <3>2 DEF Told
      <4> QED
        BY <4>1, <2>2 DEF EhSocket
    <3> QED
      BY <3>1, <3>2
  <2> QED
    BY <2>1, <2>2 DEF EhInv
<1>3. CASE PublishDeviceInfo
  <2>1. ehSock' = [w \in EhSockets |-> [ehSock[w] EXCEPT !.infoTask.fresh = ehSock[w].infoTask.pc # "off"]]
    BY <1>3 DEF PublishDeviceInfo
  <2>2. ASSUME NEW s, NEW x, EhSocket(s) PROVE EhSocket([s EXCEPT !.infoTask.fresh = x])
    BY <2>2 DEF EhSocket
  <2> QED
    BY <2>1, <2>2 DEF EhInv
<1> QED
  BY <1>1, <1>2, <1>3
  DEF BusSteps, CastSteps, Change, MarkDeviceInfoDirty, Compose, Record, Forward, Triggered, DebouncePasses, Collect, busVars, castVars

\* A message more leaves the topics of a socket alone.
LEMMA EhQueues ==
    ASSUME NEW s, EhSocket(s), NEW kind, NEW value
    PROVE  EhSocket(Queued(s, kind, value))
BY DEF EhSocket, Queued

\* A client asks, within what there is to ask for.
LEMMA EhAsks ==
    ASSUME EhInv, NEW w \in EhSockets, Subscribes(w) \/ Unsubscribes(w)
    PROVE  EhInv'
<1>1. PICK t : Ask(w, t) /\ t \subseteq Topics
  <2>1. CASE Subscribes(w)
    BY <2>1, EhAssumption DEF Subscribes
  <2>2. CASE Unsubscribes(w)
    BY <2>2 DEF Unsubscribes, EhInv, EhSocket
  <2> QED
    BY <2>1, <2>2
<1> DEFINE sock == ehSock[w]
           begins == Begins(sock.topics, t)
           lost == sock.queue # <<>> \/ sock.missed
           cut == [sock EXCEPT !.topics = t, !.asks = @ + 1, !.queue = <<>>, !.listens = FALSE,
                   !.pc = IF WantsState(t) THEN "listen" ELSE "idle",
                   !.infoTask = IF WantsInfo(t) THEN [NoTask EXCEPT !.pc = "collect"] ELSE NoTask,
                   !.missed = ~begins /\ lost]
<1>2. ehSock' = [ehSock EXCEPT ![w] = IF begins THEN Queued(cut, "state", ehLatest) ELSE cut]
  BY <1>1 DEF Ask, Put
<1>3. EhSocket(cut)
  <2>1. PICK a, p, i, m : cut = [sock EXCEPT !.topics = t, !.asks = a, !.queue = <<>>, !.listens = FALSE,
                                  !.pc = p, !.infoTask = i, !.missed = m]
    OBVIOUS
  <2>2. EhSocket(sock)
    BY DEF EhInv
  <2> HIDE DEF cut, sock
  <2> QED
    BY <1>1, <2>1, <2>2 DEF EhSocket
<1> HIDE DEF cut
<1>4. EhSocket(Queued(cut, "state", ehLatest))
  BY <1>3, EhQueues
<1> HIDE DEF begins
<1>5. PICK put : put = (IF begins THEN Queued(cut, "state", ehLatest) ELSE cut)
  OBVIOUS
<1>6. EhSocket(put)
  BY <1>3, <1>4, <1>5
<1> QED
  BY <1>2, <1>5, <1>6, EhPuts

\* Whatever else a socket does it does not change its topics; one that closes has none.
LEMMA EhRuns ==
    ASSUME EhInv, NEW w \in EhSockets, Closes(w) \/ SocketSteps(w) \/ PassState(w) \/ InfoSteps(w)
    PROVE  EhInv'
<1>a. EhSocket(ehSock[w])
  BY DEF EhInv
<1>1. \E sock : EhSocket(sock) /\ ehSock' = [ehSock EXCEPT ![w] = sock]
  <2>1. CASE Closes(w)
    <3>1. EhSocket([NewSock EXCEPT !.up = FALSE])
      BY DEF EhSocket, NewSock
    <3> QED
      BY <2>1, <3>1 DEF Closes, Put
  <2>2. CASE SubscribeTopic(w)
    <3>1. EhSocket([ehSock[w] EXCEPT !.pc = "idle", !.listens = TRUE])
      BY <1>a DEF EhSocket
    <3> QED
      BY <2>2, <3>1 DEF SubscribeTopic, Put
  <2>3. CASE Deliver(w)
    <3> DEFINE rest == [ehSock[w] EXCEPT !.out = Tail(@)]
               put == IF Head(ehSock[w].out).kind = "info" THEN [rest EXCEPT !.info = Head(ehSock[w].out).value]
                      ELSE [rest EXCEPT !.state = Head(ehSock[w].out).value]
    <3>1. EhSocket(rest)
      BY <1>a DEF EhSocket
    <3>2. ASSUME NEW s, NEW x, EhSocket(s) PROVE EhSocket([s EXCEPT !.info = x]) /\ EhSocket([s EXCEPT !.state = x])
      BY <3>2 DEF EhSocket
    <3>3. ehSock' = [ehSock EXCEPT ![w] = put]
      BY <2>3 DEF Deliver, Put
    <3> HIDE DEF rest
    <3>4. EhSocket(put)
      BY <3>1, <3>2
    <3> QED
      BY <3>3, <3>4
  <2>4. CASE PassState(w)
    <3>1. EhSocket([ehSock[w] EXCEPT !.queue = Tail(@)])
      BY <1>a DEF EhSocket
    <3>2. PICK s : s = [ehSock[w] EXCEPT !.queue = Tail(@)]
      OBVIOUS
    <3>3. EhSocket(Queued(s, "state", Head(ehSock[w].queue)))
      BY <3>1, <3>2, EhQueues
    <3> QED
      BY <2>4, <3>2, <3>3 DEF PassState, Put
  <2>5. CASE SendSnapshot(w)
    <3>1. PICK s : s = [ehSock[w] EXCEPT !.infoTask.pc = "watch", !.infoTask.info = <<>>]
      OBVIOUS
    <3>2. EhSocket(s)
      BY <1>a, <3>1 DEF EhSocket
    <3>3. EhSocket(Queued(s, "info", ehSock[w].infoTask.info))
      BY <3>2, EhQueues
    <3> QED
      BY <2>5, <3>1, <3>3 DEF SendSnapshot, Put
  <2>6. CASE PassInfo(w)
    <3>1. PICK s : s = [ehSock[w] EXCEPT !.infoTask.fresh = FALSE]
      OBVIOUS
    <3>2. EhSocket(s)
      BY <1>a, <3>1 DEF EhSocket
    <3>3. EhSocket(Queued(s, "info", ehWatch))
      BY <3>2, EhQueues
    <3> QED
      BY <2>6, <3>1, <3>3 DEF PassInfo, Put
  <2>7. CASE \E p \in Parts : CollectFor(w, p)
    <3>1. PICK p \in Parts : CollectFor(w, p)
      BY <2>7
    <3>2. EhSocket([ehSock[w] EXCEPT !.infoTask.info = Collected(@, p)])
      BY <1>a DEF EhSocket
    <3> QED
      BY <3>1, <3>2 DEF CollectFor, Put
  <2> QED
    BY <2>1, <2>2, <2>3, <2>4, <2>5, <2>6, <2>7 DEF SocketSteps, InfoSteps
<1> QED
  BY <1>1, EhPuts

\* Every step keeps what is known of the sockets.
LEMMA EhSteps == EhInv /\ [EhNext]_ehVars => EhInv'
<1> SUFFICES ASSUME EhInv, [EhNext]_ehVars PROVE EhInv'
  OBVIOUS
<1>1. CASE UNCHANGED ehVars
  BY <1>1 DEF ehVars, EhInv
<1>2. CASE \E w \in EhSockets : Subscribes(w) \/ Unsubscribes(w)
  BY <1>2, EhAsks
<1>3. CASE \E w \in EhSockets : Closes(w) \/ SocketSteps(w) \/ PassState(w) \/ InfoSteps(w)
  BY <1>3, EhRuns
<1> QED
  BY <1>1, <1>2, <1>3, EhBus DEF EhNext

\* Of the topics there are, at most one that delivers a stream state is left.
LEMMA EhOne ==
    ASSUME NEW t, t \subseteq Topics
    PROVE  Cardinality(Receivers(t)) = IF t \cap {"*", "stream.*", "stream.state_changed"} = {} THEN 0 ELSE 1
<1>1. CASE "*" \in t
  <2>1. Receivers(t) = {"*"}
    BY <1>1 DEF Receivers, NormalizeTopics, IsStreamStateTopic
  <2> QED
    BY <1>1, <2>1, FS_Singleton
<1>2. CASE "*" \notin t /\ "stream.*" \in t
  <2>1. Receivers(t) = {"stream.*"}
    BY <1>2 DEF Receivers, NormalizeTopics, IsStreamStateTopic, Prefix, Topics
  <2> QED
    BY <1>2, <2>1, FS_Singleton
<1>3. CASE "*" \notin t /\ "stream.*" \notin t /\ "stream.state_changed" \in t
  <2>1. Receivers(t) = {"stream.state_changed"}
    BY <1>3 DEF Receivers, NormalizeTopics, IsStreamStateTopic, Prefix, Topics
  <2> QED
    BY <1>3, <2>1, FS_Singleton
<1>4. CASE "*" \notin t /\ "stream.*" \notin t /\ "stream.state_changed" \notin t
  <2>1. Receivers(t) = {}
    BY <1>4 DEF Receivers, NormalizeTopics, IsStreamStateTopic
  <2> QED
    BY <1>4, <2>1, FS_EmptySet
<1> QED
  BY <1>1, <1>2, <1>3, <1>4

\* Every stream state reaches a client once.
LEMMA EhPromised == EhInv => HeardOnce
BY EhOne DEF EhInv, EhSocket, HeardOnce

-----------------------------------------------------------------------------
\* The whole

\* The service and its server alone step, so their invariant holds of the whole.
LEMMA RsHolds == MCSpec => []RsInv
<1>1. MCInit => RsInit
  BY DEF MCInit
<1>2. [MCNext]_vars => [RsNext]_rsVars
  BY DEF MCNext, Alone, vars
<1> QED
  BY <1>1, <1>2, RsStarts, RsSteps, PTL DEF MCSpec

\* The user, the tasks and the browser alone step, so their invariant holds of the whole.
LEMMA CuHolds == MCSpec => []CuInv
<1>1. MCInit => CuInit
  BY DEF MCInit
<1>2. [MCNext]_vars => [CuNext]_cuVars
  BY DEF MCNext, Alone, vars
<1> QED
  BY <1>1, <1>2, CuBegins, CuSteps, PTL DEF MCSpec

\* The connection and its encoder alone step, so their invariant holds of the whole.
LEMMA PsHolds == MCSpec => []PsInv
<1>1. MCInit => PsInit
  BY DEF MCInit
<1>2. [MCNext]_vars => [PsNext]_psVars
  BY DEF MCNext, Alone, vars
<1> QED
  BY <1>1, <1>2, PsStarts, PsSteps, PTL DEF MCSpec

\* The requests, the capture and the cleanup alone step, so their invariant holds of the whole.
LEMMA MjHolds == MCSpec => []MjInv
<1>1. MCInit => MjInit
  BY DEF MCInit
<1>2. [MCNext]_vars => [MjNext]_mjVars
  BY DEF MCNext, Alone, vars
<1> QED
  BY <1>1, <1>2, MjStarts, MjSteps, PTL DEF MCSpec

\* The sockets and the publishers alone step, so their invariant holds of the whole.
LEMMA EhHolds == MCSpec => []EhInv
<1>1. MCInit => EhInit
  BY DEF MCInit
<1>2. [MCNext]_vars => [EhNext]_ehVars
  BY DEF MCNext, Alone, vars
<1> QED
  BY <1>1, <1>2, EhStarts, EhSteps, PTL DEF MCSpec

\* A stopped RustDesk service leaves no task and a server that fell silent shows
\* (rustdesk/mod.rs, rustdesk/rendezvous.rs); computer use acts on no screen that
\* is older than its actions (computer_use/manager.rs); a browser never shows a
\* picture that lacks its reference or its parameter sets
\* (webrtc/universal_session.rs, webrtc/video_track.rs); a counted MJPEG client
\* has a request that is alive (stream/mjpeg.rs); an event is heard once
\* (web/ws.rs).
THEOREM SessionsKeepSafe == MCSpec => []SessionsSafe
<1>1. RsInv /\ CuInv /\ PsInv /\ MjInv /\ EhInv => SessionsSafe
  BY RsPromised, CuPromised, PsPromised, MjPromised, EhPromised DEF SessionsSafe
<1> QED
  BY <1>1, RsHolds, CuHolds, PsHolds, MjHolds, EhHolds, PTL

\* An MJPEG client loses its place by its own end, a disconnection or the cleanup
\* of stale clients only, never by the end of an older request of the same id
\* (stream/mjpeg.rs).
THEOREM PlacesAreKept == MCSpec => PlaceIsKept
<1>1. [MCNext]_vars => [MjNext]_mjVars
  BY DEF MCNext, Alone, vars
<1>2. MjInv /\ [MjNext]_mjVars => [MjLoses]_mjVars
  BY MjSteps
<1>3. MCSpec => [][MjLoses]_mjVars
  BY <1>1, <1>2, MjHolds, PTL DEF MCSpec
<1> QED
  BY <1>3, PTL DEF PlaceIsKept, MjLoses
====
