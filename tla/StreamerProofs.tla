---------------------------- MODULE StreamerProofs ----------------------------
(***************************************************************************)
(* Theorems about Streamer, for any sets of tasks and capture threads.     *)
(***************************************************************************)
EXTENDS Streamer, TLAPS

USE StreamerAssumption DEF StreamerAssumption

\* What membership in BOOLEAN says, for the solver.
LEMMA BooleanValues == \A x : x \in BOOLEAN <=> (x = TRUE \/ x = FALSE)
BY Zenon

-----------------------------------------------------------------------------
(* The type invariant.                                                     *)

\* The first state is well typed.
LEMMA TypeInit == Init => TypeOK
BY BooleanValues DEF Init, TypeOK, States, Labels, ThreadPCs

\* A step of a task keeps the types.
LEMMA TaskStepTyped ==
    ASSUME TypeOK, NEW c \in Tasks, TaskSteps(c) PROVE TypeOK'
<1> USE DEF TypeOK, Goto, Labels, StartPCs, StopPCs, ApplyPCs, RecPCs,
            flagVars, taskVars, threadVars
<1>1. CASE StartCall(c)
  BY <1>1, BooleanValues DEF StartCall
<1>2. CASE StartCheckState(c)
  BY <1>2, BooleanValues DEF StartCheckState, StartReturn
<1>3. CASE StartCheckActive(c)
  BY <1>3, BooleanValues DEF StartCheckActive, StartReturn
<1>4. CASE StartInit(c)
  BY <1>4, BooleanValues DEF StartInit, StartReturn, StartFailed, States
<1>5. CASE StartClearStop(c)
  BY <1>5, BooleanValues DEF StartClearStop, StartReturn, StartFailed
<1>6. CASE StartSpawn(c)
  BY <1>6, BooleanValues DEF StartSpawn, ResetThread, ThreadPCs, Running,
     States
<1>7. CASE StartStoreHandle(c)
  BY <1>7, BooleanValues DEF StartStoreHandle
<1>8. CASE StartSetState(c)
  BY <1>8, BooleanValues DEF StartSetState, StartReturn, States
<1>9. CASE StopCall(c)
  BY <1>9, BooleanValues DEF StopCall
<1>10. CASE StopSetFlag(c)
  BY <1>10, BooleanValues DEF StopSetFlag
<1>11. CASE StopTakeHandle(c)
  BY <1>11, BooleanValues DEF StopTakeHandle
<1>12. CASE StopJoin(c)
  BY <1>12, BooleanValues DEF StopJoin
<1>13. CASE StopClearActive(c)
  BY <1>13, BooleanValues DEF StopClearActive
<1>14. CASE StopSetState(c)
  BY <1>14, BooleanValues DEF StopSetState, States
<1>15. CASE ApplyCall(c)
  BY <1>15, BooleanValues DEF ApplyCall
<1>16. CASE ApplySetBusy(c)
  BY <1>16, BooleanValues DEF ApplySetBusy, States
<1>17. CASE ApplyReject(c)
  BY <1>17, BooleanValues DEF ApplyReject
<1>18. CASE ApplyDisconnect(c)
  BY <1>18, BooleanValues DEF ApplyDisconnect
<1>19. CASE ApplyStop(c)
  BY <1>19, BooleanValues DEF ApplyStop
<1>20. CASE ApplyConfig(c)
  BY <1>20, BooleanValues DEF ApplyConfig, States
<1>21. CASE RecoveryBegin(c)
  BY <1>21, BooleanValues DEF RecoveryBegin
<1>22. CASE RecoveryCheck(c)
  BY <1>22, BooleanValues DEF RecoveryCheck
<1>23. CASE RecoveryMark(c)
  BY <1>23, BooleanValues DEF RecoveryMark, States
<1>24. CASE RecoveryProbe(c)
  BY <1>24, BooleanValues DEF RecoveryProbe
<1>25. CASE RecoveryRestart(c)
  BY <1>25, BooleanValues DEF RecoveryRestart
<1>26. CASE RecoveryWait(c)
  BY <1>26, BooleanValues DEF RecoveryWait
<1>q. QED
  BY <1>1, <1>2, <1>3, <1>4, <1>5, <1>6, <1>7, <1>8, <1>9, <1>10, <1>11,
     <1>12, <1>13, <1>14, <1>15, <1>16, <1>17, <1>18, <1>19, <1>20, <1>21,
     <1>22, <1>23, <1>24, <1>25, <1>26 DEF TaskSteps, StartSteps, StopSteps,
     ApplySteps, RecoverySteps

\* A step of a capture thread keeps the types.
LEMMA ThreadStepTyped ==
    ASSUME TypeOK, NEW t \in Threads, ThreadSteps(t) PROVE TypeOK'
<1>b. Bump(restarts[t]) \in 0..RetryLimit
  BY DEF TypeOK, Bump
<1> USE DEF TypeOK, ThreadPCs, Running, States, threadFrame, taskVars
<1>1. CASE SessionLeave(t)
  BY <1>1, BooleanValues DEF SessionLeave, Move
<1>2. CASE SessionProceed(t)
  BY <1>2, BooleanValues DEF SessionProceed, Move
<1>3. CASE SessionGate(t)
  BY <1>3, BooleanValues, <1>b DEF SessionGate, SetState, BumpRestarts
<1>4. CASE OpenStopped(t)
  BY <1>4, BooleanValues DEF OpenStopped, ResetThread
<1>5. CASE OpenOk(t)
  BY <1>5, BooleanValues DEF OpenOk, Move
<1>6. CASE OpenNoSignal(t)
  BY <1>6, BooleanValues DEF OpenNoSignal, Move, SetState
<1>7. CASE OpenError(t)
  BY <1>7, BooleanValues DEF OpenError, Move
<1>8. CASE OpenFailed(t)
  BY <1>8, BooleanValues, <1>b DEF OpenFailed, Move, SetState, BumpRestarts
<1>9. CASE CaptureStopped(t)
  BY <1>9, BooleanValues DEF CaptureStopped, Move
<1>10. CASE CaptureIdle(t)
  BY <1>10, BooleanValues DEF CaptureIdle, Move, SetState
<1>11. CASE CaptureFrame(t)
  BY <1>11, BooleanValues DEF CaptureFrame, SetState
<1>12. CASE CaptureTimeout(t)
  BY <1>12, BooleanValues DEF CaptureTimeout, SetState, Move
<1>13. CASE CaptureTransient(t)
  BY <1>13, BooleanValues DEF CaptureTransient, SetState, Move
<1>14. CASE CaptureDeviceLost(t)
  BY <1>14, BooleanValues DEF CaptureDeviceLost, SetState, Move
<1>15. CASE AfterCapture(t)
  BY <1>15, BooleanValues, <1>b DEF AfterCapture, Move, BumpRestarts
<1>16. CASE ThreadExit(t)
  BY <1>16, BooleanValues DEF ThreadExit, ResetThread
<1>q. QED
  BY <1>1, <1>2, <1>3, <1>4, <1>5, <1>6, <1>7, <1>8, <1>9, <1>10, <1>11,
     <1>12, <1>13, <1>14, <1>15, <1>16 DEF ThreadSteps

\* Every step keeps the type invariant.
LEMMA TypeStep == TypeOK /\ [Next]_vars => TypeOK'
<1> SUFFICES ASSUME TypeOK, [Next]_vars PROVE TypeOK'
  OBVIOUS
<1>1. CASE \E c \in Tasks : TaskSteps(c)
  BY <1>1, TaskStepTyped
<1>2. CASE \E t \in Threads : ThreadSteps(t)
  BY <1>2, ThreadStepTyped
<1>3. CASE ClientsChange
  BY <1>3 DEF ClientsChange, TypeOK, flagVars, taskVars, threadVars
<1>4. CASE UNCHANGED vars
  BY <1>4 DEF TypeOK, vars, flagVars, taskVars, threadVars
<1>q. QED BY <1>1, <1>2, <1>3, <1>4 DEF Next

\* The type invariant of the capture lifecycle holds in every reachable state,
\* for any number of tasks and capture threads.
THEOREM TypeCorrect == Spec => []TypeOK
BY TypeInit, TypeStep, PTL DEF Spec

-----------------------------------------------------------------------------
(* One recovery task at a time.                                            *)

\* recovery_in_progress is set as long as a recovery task runs, there is one
\* at most, and only a recovery task is in the recovery loop or returns to it.
RecoveryInv ==
    /\ RecoveryExclusive
    /\ \A c \in Recoveries : pc[c] # "idle" => recovering = TRUE
    /\ \A c \in Tasks :
         pc[c] \in RecPCs \/ ret[c] = "r_wait" => c \in Recoveries

\* No task runs at the start.
LEMMA RecoveryInit == Init => RecoveryInv
BY DEF Init, RecoveryInv, RecoveryExclusive, RecPCs, Tasks

\* A step of a task keeps RecoveryInv: the swap admits a recovery task only
\* when no other runs, and a recovery task that ends was the only one.
LEMMA RecoveryTaskStep ==
    ASSUME TypeOK, RecoveryInv, NEW c \in Tasks, TaskSteps(c)
    PROVE  RecoveryInv'
<1> USE DEF TypeOK, RecoveryInv, RecoveryExclusive, Tasks, RecPCs, Goto
<1>1. CASE StartCall(c)
  BY <1>1 DEF StartCall
<1>2. CASE StartCheckState(c)
  BY <1>2 DEF StartCheckState, StartReturn
<1>3. CASE StartCheckActive(c)
  BY <1>3 DEF StartCheckActive, StartReturn
<1>4. CASE StartInit(c)
  BY <1>4 DEF StartInit, StartReturn, StartFailed
<1>5. CASE StartClearStop(c)
  BY <1>5 DEF StartClearStop, StartReturn, StartFailed
<1>6. CASE StartSpawn(c)
  BY <1>6 DEF StartSpawn
<1>7. CASE StartStoreHandle(c)
  BY <1>7 DEF StartStoreHandle
<1>8. CASE StartSetState(c)
  BY <1>8 DEF StartSetState, StartReturn
<1>9. CASE StopCall(c)
  BY <1>9 DEF StopCall
<1>10. CASE StopSetFlag(c)
  BY <1>10 DEF StopSetFlag
<1>11. CASE StopTakeHandle(c)
  BY <1>11 DEF StopTakeHandle
<1>12. CASE StopJoin(c)
  BY <1>12 DEF StopJoin
<1>13. CASE StopClearActive(c)
  BY <1>13 DEF StopClearActive
<1>14. CASE StopSetState(c)
  BY <1>14 DEF StopSetState
<1>15. CASE ApplyCall(c)
  BY <1>15 DEF ApplyCall
<1>16. CASE ApplySetBusy(c)
  BY <1>16 DEF ApplySetBusy
<1>17. CASE ApplyReject(c)
  BY <1>17 DEF ApplyReject
<1>18. CASE ApplyDisconnect(c)
  BY <1>18 DEF ApplyDisconnect
<1>19. CASE ApplyStop(c)
  BY <1>19 DEF ApplyStop
<1>20. CASE ApplyConfig(c)
  BY <1>20 DEF ApplyConfig
<1>21. CASE RecoveryBegin(c)
  BY <1>21 DEF RecoveryBegin
<1>22. CASE RecoveryCheck(c)
  BY <1>22 DEF RecoveryCheck
<1>23. CASE RecoveryMark(c)
  BY <1>23 DEF RecoveryMark
<1>24. CASE RecoveryProbe(c)
  BY <1>24 DEF RecoveryProbe
<1>25. CASE RecoveryRestart(c)
  BY <1>25 DEF RecoveryRestart
<1>26. CASE RecoveryWait(c)
  BY <1>26 DEF RecoveryWait
<1>q. QED
  BY <1>1, <1>2, <1>3, <1>4, <1>5, <1>6, <1>7, <1>8, <1>9, <1>10, <1>11,
     <1>12, <1>13, <1>14, <1>15, <1>16, <1>17, <1>18, <1>19, <1>20, <1>21,
     <1>22, <1>23, <1>24, <1>25, <1>26 DEF TaskSteps, StartSteps, StopSteps,
     ApplySteps, RecoverySteps

\* A capture thread and a client change nothing of the tasks.
LEMMA RecoveryOtherStep ==
    ASSUME RecoveryInv, UNCHANGED <<pc, ret, recovering>>
    PROVE  RecoveryInv'
BY DEF RecoveryInv, RecoveryExclusive

\* No step of a capture thread touches the tasks or recovery_in_progress.
LEMMA ThreadStepFrame ==
    ASSUME NEW t \in Threads, ThreadSteps(t) PROVE UNCHANGED threadFrame
BY DEF ThreadSteps, SessionLeave, SessionProceed, SessionGate, OpenStopped,
   OpenOk, OpenNoSignal, OpenError, OpenFailed, CaptureStopped, CaptureIdle,
   CaptureFrame, CaptureTimeout, CaptureTransient, CaptureDeviceLost,
   AfterCapture, ThreadExit

\* However many capture threads report a lost device, and however the reports
\* interleave with start() and stop(), one recovery task runs at most.
THEOREM RecoveryIsExclusive == Spec => []RecoveryExclusive
<1>1. TypeOK /\ RecoveryInv /\ [Next]_vars => RecoveryInv'
  <2> SUFFICES ASSUME TypeOK, RecoveryInv, [Next]_vars PROVE RecoveryInv'
    OBVIOUS
  <2>1. CASE \E c \in Tasks : TaskSteps(c)
    BY <2>1, RecoveryTaskStep
  <2>2. CASE \E t \in Threads : ThreadSteps(t)
    BY <2>2, ThreadStepFrame, RecoveryOtherStep DEF threadFrame, taskVars
  <2>3. CASE ClientsChange
    BY <2>3, RecoveryOtherStep DEF ClientsChange, taskVars
  <2>4. CASE UNCHANGED vars
    BY <2>4, RecoveryOtherStep DEF vars, taskVars
  <2>q. QED BY <2>1, <2>2, <2>3, <2>4 DEF Next
<1>2. RecoveryInv => RecoveryExclusive
  BY DEF RecoveryInv
<1>q. QED BY <1>1, <1>2, TypeCorrect, RecoveryInit, PTL DEF Spec

-----------------------------------------------------------------------------
(* One capture thread at a time, as long as nobody calls stop().           *)

\* Nobody stops or reconfigures the stream.
NoStop == Stoppers = {} /\ Appliers = {}

\* No task is in stop() or in apply_video_config.
NoStopInv ==
    \A c \in Tasks : pc[c] \notin StopPCs \cup ApplyPCs /\ ret[c] # "a_config"

\* The task between the two ends of start() holds start_lock.
LockInv == \A c \in Tasks : pc[c] \in StartPCs => startLock = c

\* One thread at most is not gone, and direct_active says so.
ActiveInv ==
    /\ \A t, u \in Threads : tpc[t] # "free" /\ tpc[u] # "free" => t = u
    /\ \A t \in Threads : tpc[t] # "free" => directActive = TRUE

\* From the check of direct_active to the spawn there is no thread; between
\* the spawn and the store of its handle, the thread is the one spawned.
SpawnInv ==
    \A c \in Tasks, t \in Threads : tpc[t] # "free" =>
        /\ pc[c] \notin {"s_init", "s_unstop", "s_spawn"}
        /\ pc[c] = "s_handle" => mine[c] = t

\* The handle of the thread is in direct_handle or with the task storing it.
HandleInv ==
    \A t \in Threads : tpc[t] # "free" =>
        t = directHandle \/ \E c \in Tasks : pc[c] = "s_handle" /\ mine[c] = t

CaptureInv == NoStopInv /\ LockInv /\ ActiveInv /\ SpawnInv /\ HandleInv

\* There is no thread and no call at the start.
LEMMA CaptureInit == Init => CaptureInv
BY DEF Init, CaptureInv, NoStopInv, LockInv, ActiveInv, SpawnInv, HandleInv,
       StopPCs, ApplyPCs, StartPCs

\* A step of start() or of a recovery task keeps CaptureInv.
LEMMA CaptureTaskStep ==
    ASSUME NoStop, TypeOK, CaptureInv, NEW c \in Tasks, TaskSteps(c)
    PROVE  CaptureInv'
<1>0. ~(StopSteps(c) \/ ApplySteps(c))
  BY DEF NoStop, CaptureInv, NoStopInv, StopPCs, ApplyPCs, StopSteps,
         ApplySteps, StopCall, StopSetFlag, StopTakeHandle, StopJoin,
         StopClearActive, StopSetState, ApplyCall, ApplySetBusy, ApplyReject,
         ApplyDisconnect, ApplyStop, ApplyConfig
<1> USE BooleanValues DEF CaptureInv, TypeOK, Goto, threadVars, flagVars
<1>1. CASE StartCall(c)
  <2>1. NoStopInv'
    BY <1>1 DEF NoStopInv, StopPCs, ApplyPCs, StartCall
  <2>2. LockInv'
    BY <1>1 DEF LockInv, StartPCs, Tasks, StartCall
  <2>3. ActiveInv'
    BY <1>1 DEF ActiveInv, SpawnInv, StartCall
  <2>4. SpawnInv'
    BY <1>1 DEF SpawnInv, LockInv, ActiveInv, StartPCs, StartCall
  <2>5. HandleInv'
    BY <1>1 DEF HandleInv, SpawnInv, StartCall
  <2>q. QED BY <2>1, <2>2, <2>3, <2>4, <2>5
<1>2. CASE StartCheckState(c)
  <2>1. NoStopInv'
    BY <1>2 DEF NoStopInv, StopPCs, ApplyPCs, StartCheckState, StartReturn
  <2>2. LockInv'
    BY <1>2 DEF LockInv, StartPCs, Tasks, StartCheckState, StartReturn
  <2>3. ActiveInv'
    BY <1>2 DEF ActiveInv, SpawnInv, StartCheckState, StartReturn
  <2>4. SpawnInv'
    BY <1>2 DEF SpawnInv, LockInv, ActiveInv, StartPCs, StartCheckState,
       StartReturn
  <2>5. HandleInv'
    BY <1>2 DEF HandleInv, SpawnInv, StartCheckState, StartReturn
  <2>q. QED BY <2>1, <2>2, <2>3, <2>4, <2>5
<1>3. CASE StartCheckActive(c)
  <2>1. NoStopInv'
    BY <1>3 DEF NoStopInv, StopPCs, ApplyPCs, StartCheckActive, StartReturn
  <2>2. LockInv'
    BY <1>3 DEF LockInv, StartPCs, Tasks, StartCheckActive, StartReturn
  <2>3. ActiveInv'
    BY <1>3 DEF ActiveInv, SpawnInv, StartCheckActive, StartReturn
  <2>4. SpawnInv'
    BY <1>3 DEF SpawnInv, LockInv, ActiveInv, StartPCs, StartCheckActive,
       StartReturn
  <2>5. HandleInv'
    BY <1>3 DEF HandleInv, SpawnInv, StartCheckActive, StartReturn
  <2>q. QED BY <2>1, <2>2, <2>3, <2>4, <2>5
<1>4. CASE StartInit(c)
  <2>1. NoStopInv'
    BY <1>4 DEF NoStopInv, StopPCs, ApplyPCs, StartInit, StartReturn,
       StartFailed
  <2>2. LockInv'
    BY <1>4 DEF LockInv, StartPCs, Tasks, StartInit, StartReturn,
       StartFailed
  <2>3. ActiveInv'
    BY <1>4 DEF ActiveInv, SpawnInv, StartInit, StartReturn, StartFailed
  <2>4. SpawnInv'
    BY <1>4 DEF SpawnInv, LockInv, ActiveInv, StartPCs, StartInit,
       StartReturn, StartFailed
  <2>5. HandleInv'
    BY <1>4 DEF HandleInv, SpawnInv, StartInit, StartReturn, StartFailed
  <2>q. QED BY <2>1, <2>2, <2>3, <2>4, <2>5
<1>5. CASE StartClearStop(c)
  <2>1. NoStopInv'
    BY <1>5 DEF NoStopInv, StopPCs, ApplyPCs, StartClearStop, StartReturn,
       StartFailed
  <2>2. LockInv'
    BY <1>5 DEF LockInv, StartPCs, Tasks, StartClearStop, StartReturn,
       StartFailed
  <2>3. ActiveInv'
    BY <1>5 DEF ActiveInv, SpawnInv, StartClearStop, StartReturn,
       StartFailed
  <2>4. SpawnInv'
    BY <1>5 DEF SpawnInv, LockInv, ActiveInv, StartPCs, StartClearStop,
       StartReturn, StartFailed
  <2>5. HandleInv'
    BY <1>5 DEF HandleInv, SpawnInv, StartClearStop, StartReturn,
       StartFailed
  <2>q. QED BY <2>1, <2>2, <2>3, <2>4, <2>5
<1>6. CASE StartSpawn(c)
  <2>1. NoStopInv'
    BY <1>6 DEF NoStopInv, StopPCs, ApplyPCs, StartSpawn, ResetThread,
       Recyclable
  <2>2. LockInv'
    BY <1>6 DEF LockInv, StartPCs, Tasks, StartSpawn, ResetThread,
       Recyclable
  <2>3. ActiveInv'
    BY <1>6 DEF ActiveInv, SpawnInv, StartSpawn, ResetThread, Recyclable
  <2>4. SpawnInv'
    BY <1>6 DEF SpawnInv, LockInv, ActiveInv, StartPCs, StartSpawn,
       ResetThread, Recyclable
  <2>5. HandleInv'
    BY <1>6 DEF HandleInv, SpawnInv, StartSpawn, ResetThread, Recyclable
  <2>q. QED BY <2>1, <2>2, <2>3, <2>4, <2>5
<1>7. CASE StartStoreHandle(c)
  <2>1. NoStopInv'
    BY <1>7 DEF NoStopInv, StopPCs, ApplyPCs, StartStoreHandle
  <2>2. LockInv'
    BY <1>7 DEF LockInv, StartPCs, Tasks, StartStoreHandle
  <2>3. ActiveInv'
    BY <1>7 DEF ActiveInv, SpawnInv, StartStoreHandle
  <2>4. SpawnInv'
    BY <1>7 DEF SpawnInv, LockInv, ActiveInv, StartPCs, StartStoreHandle
  <2>5. HandleInv'
    BY <1>7 DEF HandleInv, SpawnInv, StartStoreHandle
  <2>q. QED BY <2>1, <2>2, <2>3, <2>4, <2>5
<1>8. CASE StartSetState(c)
  <2>1. NoStopInv'
    BY <1>8 DEF NoStopInv, StopPCs, ApplyPCs, StartSetState, StartReturn
  <2>2. LockInv'
    BY <1>8 DEF LockInv, StartPCs, Tasks, StartSetState, StartReturn
  <2>3. ActiveInv'
    BY <1>8 DEF ActiveInv, SpawnInv, StartSetState, StartReturn
  <2>4. SpawnInv'
    BY <1>8 DEF SpawnInv, LockInv, ActiveInv, StartPCs, StartSetState,
       StartReturn
  <2>5. HandleInv'
    BY <1>8 DEF HandleInv, SpawnInv, StartSetState, StartReturn
  <2>q. QED BY <2>1, <2>2, <2>3, <2>4, <2>5
<1>9. CASE RecoveryBegin(c)
  <2>1. NoStopInv'
    BY <1>9 DEF NoStopInv, StopPCs, ApplyPCs, RecoveryBegin
  <2>2. LockInv'
    BY <1>9 DEF LockInv, StartPCs, Tasks, RecoveryBegin
  <2>3. ActiveInv'
    BY <1>9 DEF ActiveInv, SpawnInv, RecoveryBegin
  <2>4. SpawnInv'
    BY <1>9 DEF SpawnInv, LockInv, ActiveInv, StartPCs, RecoveryBegin
  <2>5. HandleInv'
    BY <1>9 DEF HandleInv, SpawnInv, RecoveryBegin
  <2>q. QED BY <2>1, <2>2, <2>3, <2>4, <2>5
<1>10. CASE RecoveryCheck(c)
  <2>1. NoStopInv'
    BY <1>10 DEF NoStopInv, StopPCs, ApplyPCs, RecoveryCheck
  <2>2. LockInv'
    BY <1>10 DEF LockInv, StartPCs, Tasks, RecoveryCheck
  <2>3. ActiveInv'
    BY <1>10 DEF ActiveInv, SpawnInv, RecoveryCheck
  <2>4. SpawnInv'
    BY <1>10 DEF SpawnInv, LockInv, ActiveInv, StartPCs, RecoveryCheck
  <2>5. HandleInv'
    BY <1>10 DEF HandleInv, SpawnInv, RecoveryCheck
  <2>q. QED BY <2>1, <2>2, <2>3, <2>4, <2>5
<1>11. CASE RecoveryMark(c)
  <2>1. NoStopInv'
    BY <1>11 DEF NoStopInv, StopPCs, ApplyPCs, RecoveryMark
  <2>2. LockInv'
    BY <1>11 DEF LockInv, StartPCs, Tasks, RecoveryMark
  <2>3. ActiveInv'
    BY <1>11 DEF ActiveInv, SpawnInv, RecoveryMark
  <2>4. SpawnInv'
    BY <1>11 DEF SpawnInv, LockInv, ActiveInv, StartPCs, RecoveryMark
  <2>5. HandleInv'
    BY <1>11 DEF HandleInv, SpawnInv, RecoveryMark
  <2>q. QED BY <2>1, <2>2, <2>3, <2>4, <2>5
<1>12. CASE RecoveryProbe(c)
  <2>1. NoStopInv'
    BY <1>12 DEF NoStopInv, StopPCs, ApplyPCs, RecoveryProbe
  <2>2. LockInv'
    BY <1>12 DEF LockInv, StartPCs, Tasks, RecoveryProbe
  <2>3. ActiveInv'
    BY <1>12 DEF ActiveInv, SpawnInv, RecoveryProbe
  <2>4. SpawnInv'
    BY <1>12 DEF SpawnInv, LockInv, ActiveInv, StartPCs, RecoveryProbe
  <2>5. HandleInv'
    BY <1>12 DEF HandleInv, SpawnInv, RecoveryProbe
  <2>q. QED BY <2>1, <2>2, <2>3, <2>4, <2>5
<1>13. CASE RecoveryRestart(c)
  <2>1. NoStopInv'
    BY <1>13 DEF NoStopInv, StopPCs, ApplyPCs, RecoveryRestart
  <2>2. LockInv'
    BY <1>13 DEF LockInv, StartPCs, Tasks, RecoveryRestart
  <2>3. ActiveInv'
    BY <1>13 DEF ActiveInv, SpawnInv, RecoveryRestart
  <2>4. SpawnInv'
    BY <1>13 DEF SpawnInv, LockInv, ActiveInv, StartPCs, RecoveryRestart
  <2>5. HandleInv'
    BY <1>13 DEF HandleInv, SpawnInv, RecoveryRestart
  <2>q. QED BY <2>1, <2>2, <2>3, <2>4, <2>5
<1>14. CASE RecoveryWait(c)
  <2>1. NoStopInv'
    BY <1>14 DEF NoStopInv, StopPCs, ApplyPCs, RecoveryWait
  <2>2. LockInv'
    BY <1>14 DEF LockInv, StartPCs, Tasks, RecoveryWait
  <2>3. ActiveInv'
    BY <1>14 DEF ActiveInv, SpawnInv, RecoveryWait
  <2>4. SpawnInv'
    BY <1>14 DEF SpawnInv, LockInv, ActiveInv, StartPCs, RecoveryWait
  <2>5. HandleInv'
    BY <1>14 DEF HandleInv, SpawnInv, RecoveryWait
  <2>q. QED BY <2>1, <2>2, <2>3, <2>4, <2>5
<1>q. QED
  BY <1>0, <1>1, <1>2, <1>3, <1>4, <1>5, <1>6, <1>7, <1>8, <1>9, <1>10,
     <1>11, <1>12, <1>13, <1>14 DEF TaskSteps, StartSteps, RecoverySteps

\* A step of a capture thread keeps CaptureInv: no thread but a spawned one
\* leaves "free", and the last one clears direct_active.
LEMMA CaptureThreadStep ==
    ASSUME TypeOK, CaptureInv, NEW t \in Threads, ThreadSteps(t)
    PROVE  CaptureInv'
<1>1. UNCHANGED threadFrame
  BY ThreadStepFrame
<1>2. /\ tpc[t] # "free"
      /\ \A u \in Threads : u # t => tpc'[u] = tpc[u]
  BY DEF TypeOK, ThreadSteps, At, Move, ResetThread, SetState, SessionLeave,
     SessionProceed, SessionGate, OpenStopped, OpenOk, OpenNoSignal,
     OpenError, OpenFailed, CaptureStopped, CaptureIdle, CaptureFrame,
     CaptureTimeout, CaptureTransient, CaptureDeviceLost, AfterCapture,
     ThreadExit
<1>3. directActive' = directActive \/ tpc'[t] = "free"
  BY DEF TypeOK, ThreadSteps, ResetThread, SessionLeave, SessionProceed,
     SessionGate, OpenStopped, OpenOk, OpenNoSignal, OpenError, OpenFailed,
     CaptureStopped, CaptureIdle, CaptureFrame, CaptureTimeout,
     CaptureTransient, CaptureDeviceLost, AfterCapture, ThreadExit
<1>4. NoStopInv' /\ LockInv'
  BY <1>1 DEF CaptureInv, NoStopInv, LockInv, threadFrame, taskVars
<1>5. ActiveInv'
  BY <1>2, <1>3 DEF CaptureInv, ActiveInv
<1>6. SpawnInv' /\ HandleInv'
  BY <1>1, <1>2 DEF CaptureInv, SpawnInv, HandleInv, threadFrame, taskVars
<1>q. QED BY <1>4, <1>5, <1>6 DEF CaptureInv

\* Every step keeps CaptureInv when nobody calls stop().
LEMMA CaptureStep ==
    NoStop /\ TypeOK /\ CaptureInv /\ [Next]_vars => CaptureInv'
<1> SUFFICES ASSUME NoStop, TypeOK, CaptureInv, [Next]_vars PROVE CaptureInv'
  OBVIOUS
<1>1. CASE \E c \in Tasks : TaskSteps(c)
  BY <1>1, CaptureTaskStep
<1>2. CASE \E t \in Threads : ThreadSteps(t)
  BY <1>2, CaptureThreadStep
<1>3. CASE ClientsChange
  BY <1>3 DEF ClientsChange, CaptureInv, NoStopInv, LockInv, ActiveInv,
              SpawnInv, HandleInv, flagVars, taskVars, threadVars
<1>4. CASE UNCHANGED vars
  BY <1>4 DEF vars, CaptureInv, NoStopInv, LockInv, ActiveInv, SpawnInv,
              HandleInv, flagVars, taskVars, threadVars
<1>q. QED BY <1>1, <1>2, <1>3, <1>4 DEF Next

\* start(), called by any number of clients and recovery tasks at any time,
\* never puts a second capture thread beside a running one.
THEOREM StartNeverDoublesCapture ==
    ASSUME NoStop PROVE Spec => []AtMostOneCapture
<1>1. CaptureInv => AtMostOneCapture
  BY DEF CaptureInv, ActiveInv, AtMostOneCapture, Alive, Running
<1>2. TypeOK /\ CaptureInv /\ [Next]_vars => CaptureInv'
  BY CaptureStep
<1>q. QED BY <1>1, <1>2, TypeCorrect, CaptureInit, PTL DEF Spec

\* As long as nobody calls stop(), the handle of a running capture thread is
\* where a later stop() finds it.
THEOREM StartKeepsJoinable ==
    ASSUME NoStop PROVE Spec => []CaptureIsJoinable
<1>1. CaptureInv => CaptureIsJoinable
  BY DEF CaptureInv, HandleInv, CaptureIsJoinable, Alive, Running
<1>2. TypeOK /\ CaptureInv /\ [Next]_vars => CaptureInv'
  BY CaptureStep
<1>q. QED BY <1>1, <1>2, TypeCorrect, CaptureInit, PTL DEF Spec
=============================================================================
