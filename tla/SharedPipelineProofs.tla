------------------------- MODULE SharedPipelineProofs -------------------------
(***************************************************************************)
(* Theorems about SharedPipeline, for any sets of consumers, controllers,  *)
(* helpers and pipelines.                                                  *)
(***************************************************************************)
EXTENDS SharedPipeline, TLAPS

USE PipelineAssumption DEF PipelineAssumption

\* What membership in BOOLEAN says, for the solver.
LEMMA BooleanValues == \A x : x \in BOOLEAN <=> (x = TRUE \/ x = FALSE)
BY Zenon

-----------------------------------------------------------------------------
(* Types.  The type invariant needs to know whom a control point belongs   *)
(* to: only a client inserts a session, and a task about to store a        *)
(* pipeline has one.                                                       *)

TypeInv ==
    /\ TypeOK
    /\ \A t \in Tasks : pc[t] = "e_store" => mine[t] \in Pipelines
    /\ \A t \in Tasks : op[t] = "create" => t \in Clients
    /\ \A t \in Tasks : pc[t] = "insert" => t \in Clients

\* The first state is well typed.
LEMMA TypeInit == Init => TypeInv
BY BooleanValues DEF Init, TypeInv, TypeOK, Ops, PCs

\* A step of a task keeps the types.
LEMMA TypeTask ==
    ASSUME TypeInv, NEW t \in Tasks, TaskStep(t)
    PROVE  TypeInv'
<1> USE DEF TypeInv, TypeOK, Goto, Ops, PCs, pipeVars, taskVars
<1>1. CASE EnsureLock(t)
  BY <1>1, BooleanValues DEF EnsureLock, Given, Done, Lifecycle
<1>2. CASE EnsureReleased(t)
  BY <1>2, BooleanValues DEF EnsureReleased
<1>3. CASE EnsureTimeout(t)
  BY <1>3, BooleanValues DEF EnsureTimeout, Refused, Done
<1>4. CASE EnsureStart(t)
  BY <1>4, BooleanValues DEF EnsureStart, Fresh
<1>5. CASE EnsureFail(t)
  BY <1>5, BooleanValues DEF EnsureFail, Refused, Done
<1>6. CASE EnsureStore(t)
  BY <1>6, BooleanValues DEF EnsureStore, Given, Done
<1>7. CASE Subscribe(t)
  BY <1>7, BooleanValues DEF Subscribe, Done
<1>8. CASE CreateFail(t)
  BY <1>8, BooleanValues DEF CreateFail, Done
<1>9. CASE InsertSession(t)
  BY <1>9, BooleanValues DEF InsertSession, Done
<1>10. CASE CloseDone(t)
  BY <1>10, BooleanValues DEF CloseDone
<1>11. CASE CloseAll(t)
  BY <1>11, BooleanValues DEF CloseAll
<1>12. CASE IdleCount(t)
  BY <1>12, BooleanValues DEF IdleCount
<1>13. CASE IdleRead(t)
  BY <1>13, BooleanValues DEF IdleRead
<1>14. CASE IdleStop(t)
  BY <1>14, BooleanValues DEF IdleStop, Done
<1>15. CASE ReleaseLock(t)
  BY <1>15, BooleanValues DEF ReleaseLock, Freed, Done
<1>16. CASE ReleaseDone(t)
  BY <1>16, BooleanValues DEF ReleaseDone, Freed, Done
<1>17. CASE ReleaseTimeout(t)
  BY <1>17, BooleanValues DEF ReleaseTimeout, Done
<1>18. CASE Snapshot(t)
  BY <1>18, BooleanValues DEF Snapshot, Rejoined, Done
<1>19. CASE Attach(t)
  BY <1>19, BooleanValues DEF Attach
<1>20. CASE AttachDone(t)
  BY <1>20, BooleanValues DEF AttachDone, Rejoined, Done
<1>21. CASE RecoveryTry(t)
  BY <1>21, BooleanValues DEF RecoveryTry
<1>q. QED
  BY <1>1, <1>2, <1>3, <1>4, <1>5, <1>6, <1>7, <1>8, <1>9, <1>10, <1>11,
     <1>12, <1>13, <1>14, <1>15, <1>16, <1>17, <1>18, <1>19, <1>20, <1>21
     DEF TaskStep

\* A request keeps the types.
LEMMA TypeRequest ==
    ASSUME TypeInv, NEW t \in Tasks, RequestBy(t)
    PROVE  TypeInv'
<1> USE DEF TypeInv, TypeOK, Goto, Ops, PCs, pipeVars, taskVars, Tasks,
   Consumers
<1>1. CASE CreateCall(t)
  BY <1>1, BooleanValues DEF CreateCall
<1>2. CASE CloseCall(t)
  BY <1>2, BooleanValues DEF CloseCall
<1>3. CASE ExternalCall(t)
  BY <1>3, BooleanValues DEF ExternalCall
<1>4. CASE ConsumerGone(t)
  BY <1>4, BooleanValues DEF ConsumerGone
<1>5. CASE StopStream(t)
  BY <1>5, BooleanValues DEF StopStream, ControlCall
<1>6. CASE SetVideoCodec(t)
  BY <1>6, BooleanValues DEF SetVideoCodec, ControlCall
<1>7. CASE UpdateVideoConfig(t)
  BY <1>7, BooleanValues DEF UpdateVideoConfig, ControlCall
<1>8. CASE UpdateEncoderBackend(t)
  BY <1>8, BooleanValues DEF UpdateEncoderBackend, ControlCall
<1>9. CASE ReleaseDevice(t)
  BY <1>9, BooleanValues DEF ReleaseDevice, ControlCall
<1>10. CASE SetBitratePreset(t)
  BY <1>10, BooleanValues DEF SetBitratePreset
<1>q. QED
  BY <1>1, <1>2, <1>3, <1>4, <1>5, <1>6, <1>7, <1>8, <1>9, <1>10 DEF
     RequestBy

\* A step of a capture thread, an encoder thread or a monitor keeps the
\* types.
LEMMA TypeThread ==
    ASSUME TypeInv, NEW p \in Pipelines, ThreadStep(p)
    PROVE  TypeInv'
<1> USE DEF TypeInv, TypeOK, Goto, Ops, PCs, threadVars, taskVars, Tasks
<1>1. CASE CaptureFrame(p)
  BY <1>1, BooleanValues DEF CaptureFrame
<1>2. CASE CaptureDrop(p)
  BY <1>2, BooleanValues DEF CaptureDrop
<1>3. CASE CaptureOpen(p)
  BY <1>3, BooleanValues DEF CaptureOpen
<1>4. CASE CaptureRetry(p)
  BY <1>4, BooleanValues DEF CaptureRetry
<1>5. CASE \E why : CaptureQuit(p, why)
  BY <1>5, BooleanValues DEF CaptureQuit
<1>6. CASE CaptureLoop(p)
  BY <1>6, BooleanValues DEF CaptureLoop
<1>7. CASE CaptureIdle(p)
  BY <1>7, BooleanValues DEF CaptureIdle
<1>8. CASE CaptureLeave(p)
  BY <1>8, BooleanValues DEF CaptureLeave
<1>9. CASE CaptureDone(p)
  BY <1>9, BooleanValues DEF CaptureDone
<1>10. CASE EncoderDone(p)
  BY <1>10, BooleanValues DEF EncoderDone
<1>11. CASE Monitor(p)
  BY <1>11, BooleanValues DEF Monitor
<1>q. QED
  BY <1>1, <1>2, <1>3, <1>4, <1>5, <1>6, <1>7, <1>8, <1>9, <1>10, <1>11 DEF
     ThreadStep, CaptureTurn

\* Every step keeps the type invariant.
LEMMA TypeNext == TypeInv /\ [Next]_vars => TypeInv'
<1> SUFFICES ASSUME TypeInv, [Next]_vars PROVE TypeInv'
  OBVIOUS
<1>1. CASE \E t \in Tasks : TaskStep(t)
  BY <1>1, TypeTask
<1>2. CASE \E t \in Tasks : RequestBy(t)
  BY <1>2, TypeRequest
<1>3. CASE \E p \in Pipelines : ThreadStep(p)
  BY <1>3, TypeThread
<1>4. CASE UNCHANGED vars
  BY <1>4 DEF TypeInv, TypeOK, vars, pipeVars, taskVars
<1>q. QED BY <1>1, <1>2, <1>3, <1>4 DEF Next

\* The type invariant of the shared pipeline holds in every reachable state.
THEOREM TypeCorrect == Spec => []TypeOK
<1>1. TypeInv => TypeOK
  BY DEF TypeInv
<1>q. QED BY <1>1, TypeInit, TypeNext, PTL DEF Spec

-----------------------------------------------------------------------------
(* The write lock of video_pipeline is what makes the device exclusive: a  *)
(* task between the check of the old pipeline and the store of the new one *)
(* holds it, and a pipeline that uses the device is the stored one or the  *)
(* one the holder is about to store.                                       *)

Owned(p) == \/ current = p
            \/ /\ guard \in Tasks /\ pc[guard] = "e_store"
               /\ mine[guard] = p

LockInv ==
    /\ \A t \in Tasks :
         pc[t] \in {"e_wait", "e_new", "e_store", "d_wait"} => guard = t
    /\ \A t \in Tasks : pc[t] \in {"e_new", "e_store"} => current = Nobody
    /\ \A p \in Pipelines : UsesDevice(p) => Owned(p)
    /\ \A p \in open : cap[p] \in {"loop", "busy"}

\* At the start nobody holds the lock and no pipeline exists.
LEMMA LockInit == Init => LockInv
BY DEF Init, LockInv, UsesDevice, Owned

\* A step of a task keeps LockInv: only the holder of the lock replaces the
\* pipeline, and only once the old one has let go of the device.
LEMMA LockTask ==
    ASSUME TypeInv, LockInv, NEW t \in Tasks, TaskStep(t)
    PROVE  LockInv'
<1> USE DEF TypeInv, TypeOK, LockInv, UsesDevice, Owned, Goto, pipeVars,
   taskVars
<1>1. CASE EnsureLock(t)
  BY <1>1 DEF EnsureLock, Given, Done, Lifecycle
<1>2. CASE EnsureReleased(t)
  BY <1>2 DEF EnsureReleased, Released
<1>3. CASE EnsureTimeout(t)
  BY <1>3 DEF EnsureTimeout, Refused, Done
<1>4. CASE EnsureStart(t)
  BY <1>4 DEF EnsureStart, Fresh
<1>5. CASE EnsureFail(t)
  BY <1>5 DEF EnsureFail, Refused, Done
<1>6. CASE EnsureStore(t)
  BY <1>6 DEF EnsureStore, Given, Done
<1>7. CASE Subscribe(t)
  BY <1>7 DEF Subscribe, Done
<1>8. CASE CreateFail(t)
  BY <1>8 DEF CreateFail, Done
<1>9. CASE InsertSession(t)
  BY <1>9 DEF InsertSession, Done
<1>10. CASE CloseDone(t)
  BY <1>10 DEF CloseDone
<1>11. CASE CloseAll(t)
  BY <1>11 DEF CloseAll
<1>12. CASE IdleCount(t)
  BY <1>12 DEF IdleCount
<1>13. CASE IdleRead(t)
  BY <1>13 DEF IdleRead
<1>14. CASE IdleStop(t)
  BY <1>14 DEF IdleStop, Done
<1>15. CASE ReleaseLock(t)
  BY <1>15 DEF ReleaseLock, Freed, Done
<1>16. CASE ReleaseDone(t)
  BY <1>16 DEF ReleaseDone, Freed, Done, Released
<1>17. CASE ReleaseTimeout(t)
  BY <1>17 DEF ReleaseTimeout, Done
<1>18. CASE Snapshot(t)
  <2>1. CASE sessions = {}
    BY <1>18, <2>1 DEF Snapshot, Rejoined, Done
  <2>2. CASE ~(sessions = {})
    BY <1>18, <2>2 DEF Snapshot, Rejoined, Done
  <2>q. QED BY <2>1, <2>2
<1>19. CASE Attach(t)
  BY <1>19 DEF Attach
<1>20. CASE AttachDone(t)
  BY <1>20 DEF AttachDone, Rejoined, Done
<1>21. CASE RecoveryTry(t)
  BY <1>21 DEF RecoveryTry
<1>q. QED
  BY <1>1, <1>2, <1>3, <1>4, <1>5, <1>6, <1>7, <1>8, <1>9, <1>10, <1>11,
     <1>12, <1>13, <1>14, <1>15, <1>16, <1>17, <1>18, <1>19, <1>20, <1>21
     DEF TaskStep

\* A request neither takes the lock nor touches a pipeline.
LEMMA LockRequest ==
    ASSUME TypeInv, LockInv, NEW t \in Tasks, RequestBy(t)
    PROVE  LockInv'
<1> USE DEF TypeInv, TypeOK, LockInv, UsesDevice, Owned, Goto, pipeVars,
   taskVars, Tasks
<1>1. CASE CreateCall(t)
  BY <1>1 DEF CreateCall
<1>2. CASE CloseCall(t)
  BY <1>2 DEF CloseCall
<1>3. CASE ExternalCall(t)
  BY <1>3 DEF ExternalCall
<1>4. CASE ConsumerGone(t)
  BY <1>4 DEF ConsumerGone
<1>5. CASE StopStream(t)
  BY <1>5 DEF StopStream, ControlCall
<1>6. CASE SetVideoCodec(t)
  BY <1>6 DEF SetVideoCodec, ControlCall
<1>7. CASE UpdateVideoConfig(t)
  BY <1>7 DEF UpdateVideoConfig, ControlCall
<1>8. CASE UpdateEncoderBackend(t)
  BY <1>8 DEF UpdateEncoderBackend, ControlCall
<1>9. CASE ReleaseDevice(t)
  BY <1>9 DEF ReleaseDevice, ControlCall
<1>10. CASE SetBitratePreset(t)
  BY <1>10 DEF SetBitratePreset
<1>q. QED
  BY <1>1, <1>2, <1>3, <1>4, <1>5, <1>6, <1>7, <1>8, <1>9, <1>10 DEF
     RequestBy

\* A capture thread uses the device only as long as its pipeline is owned; a
\* monitor waits for the lock.
LEMMA LockThread ==
    ASSUME TypeInv, LockInv, NEW p \in Pipelines, ThreadStep(p)
    PROVE  LockInv'
<1> USE DEF TypeInv, TypeOK, LockInv, UsesDevice, Owned, Goto, threadVars,
   taskVars, Tasks
<1>1. CASE CaptureFrame(p)
  BY <1>1 DEF CaptureFrame
<1>2. CASE CaptureDrop(p)
  BY <1>2 DEF CaptureDrop
<1>3. CASE CaptureOpen(p)
  BY <1>3 DEF CaptureOpen
<1>4. CASE CaptureRetry(p)
  BY <1>4 DEF CaptureRetry
<1>5. CASE \E why : CaptureQuit(p, why)
  BY <1>5 DEF CaptureQuit
<1>6. CASE CaptureLoop(p)
  BY <1>6 DEF CaptureLoop
<1>7. CASE CaptureIdle(p)
  BY <1>7 DEF CaptureIdle
<1>8. CASE CaptureLeave(p)
  BY <1>8 DEF CaptureLeave
<1>9. CASE CaptureDone(p)
  BY <1>9 DEF CaptureDone
<1>10. CASE EncoderDone(p)
  BY <1>10 DEF EncoderDone
<1>11. CASE Monitor(p)
  BY <1>11 DEF Monitor
<1>q. QED
  BY <1>1, <1>2, <1>3, <1>4, <1>5, <1>6, <1>7, <1>8, <1>9, <1>10, <1>11 DEF
     ThreadStep, CaptureTurn

\* Every step keeps LockInv.
LEMMA LockNext == TypeInv /\ LockInv /\ [Next]_vars => LockInv'
<1> SUFFICES ASSUME TypeInv, LockInv, [Next]_vars PROVE LockInv'
  OBVIOUS
<1>1. CASE \E t \in Tasks : TaskStep(t)
  BY <1>1, LockTask
<1>2. CASE \E t \in Tasks : RequestBy(t)
  BY <1>2, LockRequest
<1>3. CASE \E p \in Pipelines : ThreadStep(p)
  BY <1>3, LockThread
<1>4. CASE UNCHANGED vars
  BY <1>4 DEF LockInv, UsesDevice, Owned, vars, pipeVars, taskVars
<1>q. QED BY <1>1, <1>2, <1>3, <1>4 DEF Next

\* Two pipelines that use the device are both the owned one.
LEMMA LockExcludes == TypeInv /\ LockInv => DeviceExclusive
BY DEF TypeInv, TypeOK, LockInv, DeviceExclusive, Owned

\* However sessions, reconfigurations, time-outs, lost devices and monitors
\* interleave, the video device is used by one pipeline at most.
THEOREM DeviceIsExclusive == Spec => []DeviceExclusive
BY TypeInit, TypeNext, LockInit, LockNext, LockExcludes, PTL DEF Spec

-----------------------------------------------------------------------------
(* Releasing the device.                                                   *)

\* A task changes the operation of no other task.
LEMMA StepOfTask ==
    ASSUME TypeInv, NEW u \in Tasks, TaskStep(u)
    PROVE  \A t \in Tasks \ {u} : op'[t] = op[t]
<1> USE DEF TypeInv, TypeOK, Goto, taskVars
<1>1. CASE EnsureLock(u)
  BY <1>1 DEF EnsureLock, Given, Done, Lifecycle
<1>2. CASE EnsureReleased(u)
  BY <1>2 DEF EnsureReleased
<1>3. CASE EnsureTimeout(u)
  BY <1>3 DEF EnsureTimeout, Refused, Done
<1>4. CASE EnsureStart(u)
  BY <1>4 DEF EnsureStart
<1>5. CASE EnsureFail(u)
  BY <1>5 DEF EnsureFail, Refused, Done
<1>6. CASE EnsureStore(u)
  BY <1>6 DEF EnsureStore, Given, Done
<1>7. CASE Subscribe(u)
  BY <1>7 DEF Subscribe, Done
<1>8. CASE CreateFail(u)
  BY <1>8 DEF CreateFail, Done
<1>9. CASE InsertSession(u)
  BY <1>9 DEF InsertSession, Done
<1>10. CASE CloseDone(u)
  BY <1>10 DEF CloseDone
<1>11. CASE CloseAll(u)
  BY <1>11 DEF CloseAll
<1>12. CASE IdleCount(u)
  BY <1>12 DEF IdleCount
<1>13. CASE IdleRead(u)
  BY <1>13 DEF IdleRead
<1>14. CASE IdleStop(u)
  BY <1>14 DEF IdleStop, Done
<1>15. CASE ReleaseLock(u)
  BY <1>15 DEF ReleaseLock, Freed, Done
<1>16. CASE ReleaseDone(u)
  BY <1>16 DEF ReleaseDone, Freed, Done
<1>17. CASE ReleaseTimeout(u)
  BY <1>17 DEF ReleaseTimeout, Done
<1>18. CASE Snapshot(u)
  BY <1>18 DEF Snapshot, Rejoined, Done
<1>19. CASE Attach(u)
  BY <1>19 DEF Attach
<1>20. CASE AttachDone(u)
  BY <1>20 DEF AttachDone, Rejoined, Done
<1>21. CASE RecoveryTry(u)
  BY <1>21 DEF RecoveryTry
<1>q. QED
  BY <1>1, <1>2, <1>3, <1>4, <1>5, <1>6, <1>7, <1>8, <1>9, <1>10, <1>11,
     <1>12, <1>13, <1>14, <1>15, <1>16, <1>17, <1>18, <1>19, <1>20, <1>21
     DEF TaskStep

\* A request is made by an idle task.
LEMMA StepOfRequest ==
    ASSUME TypeInv, NEW u \in Tasks, RequestBy(u)
    PROVE  \A t \in Tasks : op'[t] = op[t] \/ pc[t] = "idle"
<1> USE DEF TypeInv, TypeOK, Goto, taskVars
<1>1. CASE CreateCall(u)
  BY <1>1 DEF CreateCall
<1>2. CASE CloseCall(u)
  BY <1>2 DEF CloseCall
<1>3. CASE ExternalCall(u)
  BY <1>3 DEF ExternalCall
<1>4. CASE ConsumerGone(u)
  BY <1>4 DEF ConsumerGone
<1>5. CASE StopStream(u)
  BY <1>5 DEF StopStream, ControlCall
<1>6. CASE SetVideoCodec(u)
  BY <1>6 DEF SetVideoCodec, ControlCall
<1>7. CASE UpdateVideoConfig(u)
  BY <1>7 DEF UpdateVideoConfig, ControlCall
<1>8. CASE UpdateEncoderBackend(u)
  BY <1>8 DEF UpdateEncoderBackend, ControlCall
<1>9. CASE ReleaseDevice(u)
  BY <1>9 DEF ReleaseDevice, ControlCall
<1>10. CASE SetBitratePreset(u)
  BY <1>10 DEF SetBitratePreset
<1>q. QED
  BY <1>1, <1>2, <1>3, <1>4, <1>5, <1>6, <1>7, <1>8, <1>9, <1>10 DEF
     RequestBy

\* A thread gives work to idle helpers only.
LEMMA StepOfThread ==
    ASSUME TypeInv, NEW p \in Pipelines, ThreadStep(p)
    PROVE  \A t \in Tasks : op'[t] = op[t] \/ pc[t] = "idle"
<1> USE DEF TypeInv, TypeOK, Goto, taskVars, threadVars, Tasks
<1>1. CASE CaptureFrame(p)
  BY <1>1 DEF CaptureFrame
<1>2. CASE CaptureDrop(p)
  BY <1>2 DEF CaptureDrop
<1>3. CASE CaptureOpen(p)
  BY <1>3 DEF CaptureOpen
<1>4. CASE CaptureRetry(p)
  BY <1>4 DEF CaptureRetry
<1>5. CASE \E why : CaptureQuit(p, why)
  BY <1>5 DEF CaptureQuit
<1>6. CASE CaptureLoop(p)
  BY <1>6 DEF CaptureLoop
<1>7. CASE CaptureIdle(p)
  BY <1>7 DEF CaptureIdle
<1>8. CASE CaptureLeave(p)
  BY <1>8 DEF CaptureLeave
<1>9. CASE CaptureDone(p)
  BY <1>9 DEF CaptureDone
<1>10. CASE EncoderDone(p)
  BY <1>10 DEF EncoderDone
<1>11. CASE Monitor(p)
  BY <1>11 DEF Monitor
<1>q. QED
  BY <1>1, <1>2, <1>3, <1>4, <1>5, <1>6, <1>7, <1>8, <1>9, <1>10, <1>11 DEF
     ThreadStep, CaptureTurn

\* When close_all_sessions_and_release_device returns Ok, whoever asked for
\* the device finds it free, however many consumers raced with the call.
THEOREM ReleaseIsComplete == Spec => ReleaseFreesDevice
<1>1. TypeInv /\ LockInv /\ [Next]_vars => ReleaseStep
  <2> SUFFICES ASSUME TypeInv, LockInv, Next,
                      NEW t \in Controllers,
                      op[t] = "release", op'[t] = "none",
                      \/ pc[t] = "d_lock"
                      \/ pc[t] = "d_wait" /\ current' = Nobody,
                      NEW p \in Pipelines
               PROVE  ~UsesDevice(p)'
    BY DEF ReleaseStep, vars, taskVars
  <2>1. \E u \in Tasks : TaskStep(u) \/ RequestBy(u)
    <3>1. t \in Tasks /\ op'[t] # op[t] /\ pc[t] # "idle"
      BY DEF Tasks
    <3>2. ~(\E r \in Pipelines : ThreadStep(r))
      BY <3>1, StepOfThread
    <3>q. QED BY <3>2 DEF Next
  <2>2. TaskStep(t)
    BY <2>1, StepOfTask, StepOfRequest DEF Tasks
  <2>3. ReleaseLock(t) \/ ReleaseDone(t) \/ ReleaseTimeout(t)
    BY <2>2 DEF TaskStep, EnsureLock, EnsureReleased, EnsureTimeout,
       EnsureStart, EnsureFail, EnsureStore, Subscribe, CreateFail,
       InsertSession, CloseDone, CloseAll, IdleCount, IdleRead, IdleStop,
       Snapshot, Attach, AttachDone, RecoveryTry
  <2>4. CASE ReleaseLock(t)
    BY <2>4 DEF ReleaseLock, TypeInv, TypeOK, LockInv, UsesDevice, Owned, Tasks,
       Goto
  <2>5. CASE ReleaseDone(t)
    BY <2>5 DEF ReleaseDone, Released, TypeInv, TypeOK, LockInv, UsesDevice,
       Owned, Tasks
  <2>6. CASE ReleaseTimeout(t)
    BY <2>6 DEF ReleaseTimeout, TypeInv, TypeOK, LockInv, UsesDevice, Owned,
       Tasks
  <2>q. QED BY <2>3, <2>4, <2>5, <2>6
<1>q. QED
  BY <1>1, TypeInit, TypeNext, LockInit, LockNext, PTL
     DEF Spec, ReleaseFreesDevice

-----------------------------------------------------------------------------
(* Refinement: to the rest of the system the pipelines are one user of the *)
(* video node after another.                                               *)

\* A task touches the device only by starting a pipeline.
LEMMA DeviceOfTask ==
    ASSUME TypeInv, NEW t \in Tasks, TaskStep(t)
    PROVE  EnsureStart(t) \/ UNCHANGED <<cap, open>>
<1> USE DEF pipeVars
<1>1. CASE EnsureLock(t)
  BY <1>1 DEF EnsureLock
<1>2. CASE EnsureReleased(t)
  BY <1>2 DEF EnsureReleased
<1>3. CASE EnsureTimeout(t)
  BY <1>3 DEF EnsureTimeout
<1>4. CASE EnsureStart(t)
  BY <1>4 DEF EnsureStart
<1>5. CASE EnsureFail(t)
  BY <1>5 DEF EnsureFail
<1>6. CASE EnsureStore(t)
  BY <1>6 DEF EnsureStore
<1>7. CASE Subscribe(t)
  BY <1>7 DEF Subscribe
<1>8. CASE CreateFail(t)
  BY <1>8 DEF CreateFail
<1>9. CASE InsertSession(t)
  BY <1>9 DEF InsertSession
<1>10. CASE CloseDone(t)
  BY <1>10 DEF CloseDone
<1>11. CASE CloseAll(t)
  BY <1>11 DEF CloseAll
<1>12. CASE IdleCount(t)
  BY <1>12 DEF IdleCount
<1>13. CASE IdleRead(t)
  BY <1>13 DEF IdleRead
<1>14. CASE IdleStop(t)
  BY <1>14 DEF IdleStop
<1>15. CASE ReleaseLock(t)
  BY <1>15 DEF ReleaseLock
<1>16. CASE ReleaseDone(t)
  BY <1>16 DEF ReleaseDone
<1>17. CASE ReleaseTimeout(t)
  BY <1>17 DEF ReleaseTimeout
<1>18. CASE Snapshot(t)
  BY <1>18 DEF Snapshot
<1>19. CASE Attach(t)
  BY <1>19 DEF Attach
<1>20. CASE AttachDone(t)
  BY <1>20 DEF AttachDone
<1>21. CASE RecoveryTry(t)
  BY <1>21 DEF RecoveryTry
<1>q. QED
  BY <1>1, <1>2, <1>3, <1>4, <1>5, <1>6, <1>7, <1>8, <1>9, <1>10, <1>11,
     <1>12, <1>13, <1>14, <1>15, <1>16, <1>17, <1>18, <1>19, <1>20, <1>21
     DEF TaskStep

\* A pipeline that uses the device is the holder the mapping chooses.
LEMMA HolderIs ==
    ASSUME DeviceExclusive, NEW p \in Pipelines, UsesDevice(p)
    PROVE  holder = p
BY DEF DeviceExclusive, holder

\* Nobody holds a device that no pipeline uses.
LEMMA HolderNone ==
    ASSUME \A p \in Pipelines : ~UsesDevice(p) PROVE holder = Nobody
BY DEF holder

\* A pipeline starts to use the device only when no pipeline uses it.
LEMMA NewUser ==
    ASSUME TypeInv, LockInv, [Next]_vars,
           NEW p \in Pipelines, ~UsesDevice(p), UsesDevice(p)',
           NEW q \in Pipelines
    PROVE  ~UsesDevice(q)
<1>1. CASE \E t \in Tasks : TaskStep(t)
  <2>1. PICK t \in Tasks : TaskStep(t)
    BY <1>1
  <2>2. EnsureStart(t)
    BY <2>1, DeviceOfTask DEF UsesDevice
  <2>q. QED
    BY <2>2 DEF EnsureStart, TypeInv, TypeOK, LockInv, UsesDevice, Owned
<1>2. CASE \E t \in Tasks : RequestBy(t)
  BY <1>2 DEF RequestBy, CreateCall, CloseCall, ExternalCall, ConsumerGone,
     StopStream, SetVideoCodec, UpdateVideoConfig, UpdateEncoderBackend,
     ReleaseDevice, SetBitratePreset, ControlCall, UsesDevice, pipeVars
<1>3. CASE \E r \in Pipelines : ThreadStep(r)
  BY <1>3 DEF ThreadStep, CaptureTurn, CaptureFrame, CaptureDrop, CaptureOpen,
     CaptureRetry, CaptureQuit, CaptureLoop, CaptureIdle, CaptureLeave,
     CaptureDone, EncoderDone, Monitor, UsesDevice, TypeInv, TypeOK
<1>4. CASE UNCHANGED vars
  BY <1>4 DEF vars, pipeVars, UsesDevice
<1>q. QED BY <1>1, <1>2, <1>3, <1>4 DEF Next

\* The pipelines together behave as one lawful user of the video node: they
\* implement VideoDevice, under the mapping that names the pipeline in use.
THEOREM PipelineImplementsDevice == Spec => DeviceSpec
<1>1. Init => Device!Init
  <2> SUFFICES ASSUME Init PROVE holder = Nobody
    BY DEF Device!Init
  <2>q. QED BY HolderNone DEF Init, UsesDevice
<1>2. TypeInv /\ LockInv /\ TypeInv' /\ LockInv' /\ [Next]_vars
        => [Device!Next]_holder
  <2> SUFFICES ASSUME TypeInv, LockInv, TypeInv', LockInv', [Next]_vars,
                      holder' # holder
               PROVE  Device!Next
    OBVIOUS
  <2>1. DeviceExclusive /\ DeviceExclusive'
    <3>1. DeviceExclusive
      BY LockExcludes
    <3>2. DeviceExclusive'
      BY DEF TypeInv, TypeOK, LockInv, DeviceExclusive, Owned
    <3>q. QED BY <3>1, <3>2
  <2>2. ASSUME NEW p \in Pipelines, UsesDevice(p)' PROVE holder' = p
    BY <2>1, <2>2 DEF DeviceExclusive, holder
  <2>3. ASSUME \A p \in Pipelines : ~UsesDevice(p)' PROVE holder' = Nobody
    BY <2>3 DEF holder
  <2>4. CASE \E p \in Pipelines : UsesDevice(p)
    <3>1. PICK p \in Pipelines : UsesDevice(p)
      BY <2>4
    <3>2. holder = p
      BY <2>1, <3>1, HolderIs
    <3>3. \A q \in Pipelines : ~UsesDevice(q)'
      BY <2>1, <2>2, <3>1, <3>2, NewUser DEF DeviceExclusive
    <3>q. QED BY <2>3, <3>2, <3>3 DEF Device!Next, Device!Close
  <2>5. CASE \A p \in Pipelines : ~UsesDevice(p)
    <3>1. holder = Nobody
      BY <2>5, HolderNone
    <3>2. PICK p \in Pipelines : UsesDevice(p)'
      BY <2>3, <3>1
    <3>q. QED BY <2>2, <3>1, <3>2 DEF Device!Next, Device!Open
  <2>q. QED BY <2>4, <2>5
<1>q. QED
  BY <1>1, <1>2, TypeInit, TypeNext, LockInit, LockNext, PTL
     DEF Spec, DeviceSpec, Device!Spec
=============================================================================
