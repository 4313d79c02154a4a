---- MODULE ComputerUse ----
(***************************************************************************)
(* Computer use (computer_use/manager.rs): a model provider is asked for   *)
(* actions, the actions go to HID, and the browser of the user is asked    *)
(* for a screenshot of the result.  One session at a time; every start     *)
(* spawns a task of its own, stop signals it through two channels, and the *)
(* next start aborts what is left of it.                                   *)
(*                                                                         *)
(* A batch of actions is one key pressed and released.  What the provider  *)
(* answers (computer_use/openai.rs) is reduced to what the loop does with  *)
(* it.  Screenshots carry the number of actions the screen had seen.       *)
(***************************************************************************)
EXTENDS Naturals, Sequences, FiniteSets

CONSTANTS
    MaxCuStarts,  \* bound: sessions
    MaxCuStops,   \* bound: stop requests
    MaxCuShots    \* bound: screenshot requests

ASSUME CuAssumption == MaxCuStarts \in Nat \ {0} /\ MaxCuStops \in Nat /\ MaxCuShots \in Nat

VARIABLES
    cuState,   \* ManagerState: [status, stopTx, cancelTx, task, waiter]; 0 is None
    cuTask,    \* per session: [pc, cancel, stop, aborted, shot, need]
    cuStart,   \* the handler of start: [pc, id]
    cuStop,    \* the handler of stop: "idle" or "reset"
    cuHeld,    \* sessions whose key the host sees pressed
    cuActs,    \* actions the host has seen
    cuReqs,    \* screenshot requests made
    cuShots,   \* external: screenshots on their way from the browser
    cuAsked,   \* the last request of the user that took effect
    cuStops

cuVars == <<cuState, cuTask, cuStart, cuStop, cuHeld, cuActs, cuReqs, cuShots, cuAsked, cuStops>>

CuIds == 1..MaxCuStarts
NoWaiter == [req |-> 0, id |-> 0]
ActiveStatus == {"Thinking", "Executing", "WaitingScreenshot"}
NewTask == [pc |-> "none", cancel |-> "no", stop |-> FALSE, aborted |-> FALSE, shot |-> "none", need |-> 0]

CuInit ==
    /\ cuState = [status |-> "Idle", stopTx |-> 0, cancelTx |-> 0, task |-> 0, waiter |-> NoWaiter]
    /\ cuTask = [i \in CuIds |-> NewTask]
    /\ cuStart = [pc |-> "idle", id |-> 0]
    /\ cuStop = "idle" /\ cuHeld = {} /\ cuActs = 0 /\ cuReqs = 0 /\ cuShots = {}
    /\ cuAsked = "none" /\ cuStops = 0

Running(i) == cuTask[i].pc \notin {"none", "ended"} /\ ~cuTask[i].aborted

-----------------------------------------------------------------------------
(* Requests *)

\* start up to the end of its critical section: refused while a session is
\* active; the task of the session before is aborted, and the senders that the
\* new ones replace are dropped.
Start1 ==
    /\ cuStart.pc = "idle" /\ cuStart.id < MaxCuStarts
    /\ cuState.status \notin ActiveStatus
    /\ LET i == cuStart.id + 1
       IN  /\ cuTask' = [j \in CuIds |->
                 [cuTask[j] EXCEPT !.aborted = @ \/ (j = cuState.task),
                                   !.cancel = IF j = cuState.cancelTx THEN "dropped" ELSE @,
                                   !.stop = @ \/ (j = cuState.stopTx)]]
           /\ cuState' = [cuState EXCEPT !.status = "Thinking", !.stopTx = i, !.cancelTx = i, !.task = 0]
           /\ cuStart' = [pc |-> "spawn", id |-> i]
    /\ cuAsked' = "start"
    /\ UNCHANGED <<cuStop, cuHeld, cuActs, cuReqs, cuShots, cuStops>>

\* The task is spawned, and its handle stored under a second lock.  The client
\* of the request may be gone: the rest of the handler is then dropped.
Start2 ==
    \/ /\ cuStart.pc = "spawn"
       /\ cuTask' = [cuTask EXCEPT ![cuStart.id].pc = "begin"]
       /\ cuStart' = [cuStart EXCEPT !.pc = "store"]
       /\ UNCHANGED <<cuState, cuStop, cuHeld, cuActs, cuReqs, cuShots, cuAsked, cuStops>>
    \/ /\ cuStart.pc = "store"
       /\ cuState' = [cuState EXCEPT !.task = cuStart.id]
       /\ cuStart' = [cuStart EXCEPT !.pc = "idle"]
       /\ UNCHANGED <<cuTask, cuStop, cuHeld, cuActs, cuReqs, cuShots, cuAsked, cuStops>>
    \/ /\ cuStart.pc \in {"spawn", "store"}
       /\ cuStart' = [cuStart EXCEPT !.pc = "idle"]
       /\ UNCHANGED <<cuState, cuTask, cuStop, cuHeld, cuActs, cuReqs, cuShots, cuAsked, cuStops>>

\* stop: both signals, the waiter dropped, the status; then HID is reset.
Stop1 ==
    /\ cuStop = "idle" /\ cuStops < MaxCuStops
    /\ cuTask' = [j \in CuIds |->
          [cuTask[j] EXCEPT !.stop = @ \/ (j = cuState.stopTx),
                            !.cancel = IF j = cuState.cancelTx THEN "sent" ELSE @]]
    /\ cuState' = [cuState EXCEPT !.status = "Stopped", !.stopTx = 0, !.cancelTx = 0, !.waiter = NoWaiter]
    /\ cuStop' = "reset" /\ cuAsked' = "stop" /\ cuStops' = cuStops + 1
    /\ UNCHANGED <<cuStart, cuHeld, cuActs, cuReqs, cuShots>>

Stop2 ==
    /\ cuStop = "reset"
    /\ cuStop' = "idle" /\ cuHeld' = {}
    /\ UNCHANGED <<cuState, cuTask, cuStart, cuActs, cuReqs, cuShots, cuAsked, cuStops>>

-----------------------------------------------------------------------------
(* run_loop *)

\* set_status with the change of the loop's own state.
Shows(i, status, pc) ==
    /\ cuState' = [cuState EXCEPT !.status = status]
    /\ cuTask' = [cuTask EXCEPT ![i].pc = pc]

Begin(i) ==
    /\ Running(i) /\ cuTask[i].pc = "begin"
    /\ Shows(i, "Thinking", "think")
    /\ UNCHANGED <<cuStart, cuStop, cuHeld, cuActs, cuReqs, cuShots, cuAsked, cuStops>>

\* The select of a turn: the stop signal, sent or its sender dropped;
StopSeen(i) ==
    /\ Running(i) /\ cuTask[i].pc \in {"think", "wait"} /\ cuTask[i].stop
    /\ cuTask' = [cuTask EXCEPT ![i].pc = "stopping"]
    /\ UNCHANGED <<cuState, cuStart, cuStop, cuHeld, cuActs, cuReqs, cuShots, cuAsked, cuStops>>

\* or the answer of the provider (external): no connection or an HTTP error, a
\* stream of events, or one JSON document, with the object the text holds.
Replies == [done : BOOLEAN, actions : {<<>>, <<"shot">>, <<"key", "shot">>, <<"shot", "key">>, <<"key">>}]
NoReply == [done |-> FALSE, actions |-> <<"unsupported">>]
ProviderAnswers ==
    [via : {"none"}, events : {{}}, reply : {NoReply}]
        \cup [via : {"stream"}, events : {{}, {"delta"}, {"delta", "error"}, {"garbage"}}, reply : Replies]
        \cup [via : {"json"}, events : {{}}, reply : Replies \cup {NoReply}]

\* consume_stream_event: an error or an event that is no JSON ends the stream.
EventTaken(e) == e = "delta"

\* parse_stream needs an event.
StreamRead(p) == p.events # {} /\ \A e \in p.events : EventTaken(e)

\* parse_actions_array, parse_action: one action that is not known spoils all.
ActionsParsed(r) == r # NoReply

\* parse_json_response, parse_protocol_output.
OutputParsed(p) == ActionsParsed(p.reply)

\* validate_protocol: an end has no actions; any other batch has one
\* screenshot, at its end, and nothing else before there is a screen to look at.
ValidProtocol(r, hasShot) ==
    IF r.done THEN r.actions = <<>>
    ELSE /\ r.actions # <<>> /\ r.actions[Len(r.actions)] = "shot"
         /\ \A k \in 1..(Len(r.actions) - 1) : r.actions[k] # "shot"
         /\ hasShot \/ Len(r.actions) = 1

\* next_actions.
NextActions(p, hasShot) ==
    /\ p.via # "none" /\ OutputParsed(p)
    /\ p.via = "stream" => StreamRead(p)
    /\ ValidProtocol(p.reply, hasShot)

\* The cancel flag is looked at before anything is done with an answer; the
\* last action of a batch is the screenshot, the others are executed.
Answered(i) ==
    /\ Running(i) /\ cuTask[i].pc = "think"
    /\ \E p \in ProviderAnswers :
          cuTask' = [cuTask EXCEPT ![i].pc =
             IF ~NextActions(p, cuTask[i].shot # "none") THEN "failing"
             ELSE IF cuTask[i].cancel = "sent" THEN "stopping"
             ELSE IF p.reply.done THEN "completing"
             ELSE IF Len(p.reply.actions) = 1 THEN "shoot"
             ELSE IF cuTask[i].shot = "none" THEN "failing" ELSE "check"]
    /\ UNCHANGED <<cuState, cuStart, cuStop, cuHeld, cuActs, cuReqs, cuShots, cuAsked, cuStops>>

\* execute_actions: the flag, then the key goes down.
Check(i) ==
    /\ Running(i) /\ cuTask[i].pc = "check"
    /\ Shows(i, "Executing", IF cuTask[i].cancel = "sent" THEN "stopping" ELSE "down")
    /\ UNCHANGED <<cuStart, cuStop, cuHeld, cuActs, cuReqs, cuShots, cuAsked, cuStops>>

\* key_down_up: when the flag is up by now the delay ends at once and the key
\* comes up again in the same turn.
Down(i) ==
    /\ Running(i) /\ cuTask[i].pc = "down"
    /\ cuActs' = cuActs + 1
    /\ IF cuTask[i].cancel = "no"
       THEN cuHeld' = cuHeld \cup {i} /\ cuTask' = [cuTask EXCEPT ![i].pc = "press"]
       ELSE /\ cuTask' = [cuTask EXCEPT ![i].pc = IF cuTask[i].cancel = "sent" THEN "stopping" ELSE "failing"]
            /\ UNCHANGED cuHeld
    /\ UNCHANGED <<cuState, cuStart, cuStop, cuReqs, cuShots, cuAsked, cuStops>>

\* The delay is over or cancelled; the key is released in both cases.
Up(i) ==
    /\ Running(i) /\ cuTask[i].pc = "press"
    /\ cuHeld' = cuHeld \ {i}
    /\ cuTask' = [cuTask EXCEPT ![i].pc =
          CASE cuTask[i].cancel = "sent" -> "stopping" [] cuTask[i].cancel = "dropped" -> "failing" [] OTHER -> "shoot"]
    /\ UNCHANGED <<cuState, cuStart, cuStop, cuActs, cuReqs, cuShots, cuAsked, cuStops>>

\* request_screenshot: the waiter of an earlier request is replaced.
RequestScreenshot(i) ==
    /\ Running(i) /\ cuTask[i].pc = "shoot" /\ cuReqs < MaxCuShots
    /\ cuReqs' = cuReqs + 1
    /\ cuState' = [cuState EXCEPT !.status = "WaitingScreenshot", !.waiter = [req |-> cuReqs + 1, id |-> i]]
    /\ cuTask' = [cuTask EXCEPT ![i].pc = "wait", ![i].need = cuActs]
    /\ UNCHANGED <<cuStart, cuStop, cuHeld, cuActs, cuShots, cuAsked, cuStops>>

\* The time is up, the browser reports an error, or stop dropped the waiter.
\* (At the bound the request is not made.)
ScreenshotFails(i) ==
    /\ Running(i)
    /\ cuTask[i].pc = "wait" \/ (cuTask[i].pc = "shoot" /\ cuReqs = MaxCuShots)
    /\ cuTask' = [cuTask EXCEPT ![i].pc = "failing"]
    /\ UNCHANGED <<cuState, cuStart, cuStop, cuHeld, cuActs, cuReqs, cuShots, cuAsked, cuStops>>

\* Mutant of Finish: a task that was stopped leaves the status as it is.
Finish_Silent(i) ==
    /\ Running(i) /\ cuTask[i].pc \in {"stopping", "failing", "completing"}
    /\ cuState' = [cuState EXCEPT !.stopTx = 0,
                      !.status = CASE cuTask[i].pc = "stopping" -> @
                                   [] cuTask[i].pc = "failing" -> "Failed"
                                   [] OTHER -> "Completed"]
    /\ cuTask' = [j \in CuIds |-> [cuTask[j] EXCEPT !.pc = IF j = i THEN "reset" ELSE @,
                                                    !.stop = @ \/ (j = cuState.stopTx)]]
    /\ UNCHANGED <<cuStart, cuStop, cuHeld, cuActs, cuReqs, cuShots, cuAsked, cuStops>>

\* set_stopped, fail and complete: the status, and the stop sender dropped,
\* whose session ever it belongs to; then HID is reset.
Finish(i) ==
    /\ Running(i) /\ cuTask[i].pc \in {"stopping", "failing", "completing"}
    /\ cuState' = [cuState EXCEPT !.stopTx = 0,
                      !.status = CASE cuTask[i].pc = "stopping" -> "Stopped"
                                   [] cuTask[i].pc = "failing" -> "Failed"
                                   [] OTHER -> "Completed"]
    /\ cuTask' = [j \in CuIds |-> [cuTask[j] EXCEPT !.pc = IF j = i THEN "reset" ELSE @,
                                                    !.stop = @ \/ (j = cuState.stopTx)]]
    /\ UNCHANGED <<cuStart, cuStop, cuHeld, cuActs, cuReqs, cuShots, cuAsked, cuStops>>

ResetHid(i) ==
    /\ Running(i) /\ cuTask[i].pc = "reset"
    /\ cuHeld' = {} /\ cuTask' = [cuTask EXCEPT ![i].pc = "ended"]
    /\ UNCHANGED <<cuState, cuStart, cuStop, cuActs, cuReqs, cuShots, cuAsked, cuStops>>

-----------------------------------------------------------------------------
(* The browser *)

\* It captures the screen for a request it has heard of (external).
Captures ==
    /\ \E r \in 1..cuReqs :
          /\ \A s \in cuShots : s.req # r
          /\ cuShots' = cuShots \cup {[req |-> r, seen |-> cuActs]}
    /\ UNCHANGED <<cuState, cuTask, cuStart, cuStop, cuHeld, cuActs, cuReqs, cuAsked, cuStops>>

\* submit_screenshot: the waiter gets it if it is for its request; the loop
\* takes its next turn with it.  A waiter whose task is gone is used up.
SubmitScreenshot ==
    /\ cuState.waiter.id # 0
    /\ \E s \in cuShots :
          LET i == cuState.waiter.id
          IN  /\ s.req = cuState.waiter.req
              /\ cuState' = [cuState EXCEPT !.waiter = NoWaiter]
              /\ cuTask' = IF Running(i) /\ cuTask[i].pc = "wait"
                           THEN [cuTask EXCEPT ![i].shot = IF s.seen >= cuTask[i].need THEN "fresh" ELSE "old",
                                               ![i].pc = "begin"]
                           ELSE cuTask
    /\ UNCHANGED <<cuStart, cuStop, cuHeld, cuActs, cuReqs, cuShots, cuAsked, cuStops>>

CuTaskStep(i) ==
    \/ Begin(i) \/ StopSeen(i) \/ Answered(i) \/ Check(i) \/ Down(i) \/ Up(i)
    \/ RequestScreenshot(i) \/ ScreenshotFails(i) \/ Finish(i) \/ ResetHid(i)

CuNext ==
    \/ Start1 \/ Start2 \/ Stop1 \/ Stop2 \/ Captures \/ SubmitScreenshot
    \/ \E i \in CuIds : CuTaskStep(i)

\* The runtime polls every task and handler that is ready.  The provider may
\* never answer and the browser never send anything, but then the timers fire
\* (300 s and 10 s), so the steps of a task are fair.
CuTurn(i) ==
    CASE i = 1 -> Start2
      [] i = 2 -> Stop2
      [] i - 2 \in CuIds -> CuTaskStep(i - 2)
      [] OTHER -> FALSE

CuFairness == \A i \in 1..(2 + MaxCuStarts) : WF_cuVars(CuTurn(i))

CuSpec == CuInit /\ [][CuNext]_cuVars /\ CuFairness

-----------------------------------------------------------------------------

\* The provider never decides on a screen that is older than the actions of
\* its session: a screenshot that comes late, or for a request of a session
\* before, is not taken for the one that is waited for.
ActsOnFreshScreen ==
    \A i \in CuIds : /\ cuTask[i].shot # "old"
                     /\ cuTask[i].pc \in {"check", "down", "press"} => cuTask[i].shot = "fresh"

\* A key the host sees pressed has somebody who will release it: the task that
\* pressed it, or a reset that is on its way.  Stopping a session in the middle
\* of a key press, and starting the next one before it has ended, leave none.
NoKeyLeftDown ==
    \A i \in cuHeld : \/ Running(i) /\ cuTask[i].pc = "press"
                      \/ cuStop = "reset"
                      \/ \E j \in CuIds : Running(j) /\ cuTask[j].pc \in {"stopping", "failing", "completing", "reset"}

\* Stop works: unless another session is started it ends with a session that
\* is not shown as active, no task that still acts and no key held, whatever
\* the task was doing and however little of it start had set up.
StopComesToRest ==
    []<>(\/ cuAsked # "stop"
         \/ cuState.status \notin ActiveStatus /\ cuHeld = {} /\ \A i \in CuIds : ~Running(i))
====
