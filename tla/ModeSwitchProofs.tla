--------------------------- MODULE ModeSwitchProofs ---------------------------
(***************************************************************************)
(* Theorems about ModeSwitch, for any number of requests and transactions. *)
(* The compare_exchange on `switching` makes transactions exclusive; what  *)
(* the task of a transaction knows (the mode it has set, the capture it    *)
(* has stopped, the configuration it has written) then holds until its     *)
(* end.                                                                    *)
(***************************************************************************)
EXTENDS ModeSwitch, TLAPS

USE ModeAssumption DEF ModeAssumption

\* What membership in BOOLEAN says, for the solver.
LEMMA BooleanValues == \A x : x \in BOOLEAN <=> (x = TRUE \/ x = FALSE)
BY Zenon

-----------------------------------------------------------------------------
(* Types. *)

\* The first state is well typed.
LEMMA TypeInit == Init => TypeOK
BY BooleanValues DEF Init, TypeOK, Modes

\* A new call keeps the types.
LEMMA TypeRequest ==
    ASSUME TypeOK, NEW r \in Requests, Request(r)
    PROVE  TypeOK'
<1> USE DEF TypeOK, Modes, Goto, Advance, Called, capture, recover, config, task
<1>1. CASE \E m \in Modes : StreamModeSet(r, m)
  BY <1>1, BooleanValues DEF StreamModeSet
<1>2. CASE \E m \in Modes : PatchStreamConfig(r, m)
  BY <1>2, BooleanValues DEF PatchStreamConfig
<1>3. CASE \E l \in Modes \cup {"any"} : EnforceConstraints(r, l)
  BY <1>3, BooleanValues DEF EnforceConstraints
<1>4. CASE \E e \in Edits : UpdateConfig(r, e)
  BY <1>4, BooleanValues DEF UpdateConfig
<1>5. CASE Start(r)
  BY <1>5, BooleanValues DEF Start, SyncSource
<1>6. CASE Stop(r)
  BY <1>6, BooleanValues DEF Stop, StopCapture, StopStreamer
<1>7. CASE ApplyVideoConfig(r)
  BY <1>7, BooleanValues DEF ApplyVideoConfig, StopStreamer
<1>8. CASE CreateSession(r)
  BY <1>8, BooleanValues DEF CreateSession
<1>9. CASE SubscribeEncodedFrames(r)
  BY <1>9, BooleanValues DEF SubscribeEncodedFrames, SyncSource
<1>q. QED
  BY <1>1, <1>2, <1>3, <1>4, <1>5, <1>6, <1>7, <1>8, <1>9 DEF Request

\* A call that goes on keeps the types.
LEMMA TypeContinue ==
    ASSUME TypeOK, NEW r \in Requests, Continue(r)
    PROVE  TypeOK'
<1> USE DEF TypeOK, Modes, Goto, Advance, Called, capture, recover, config, task
<1>1. CASE SetCodec(r)
  BY <1>1, BooleanValues DEF SetCodec, SetVideoCodec
<1>2. CASE NotifyCodecSwitch(r)
  BY <1>2, BooleanValues DEF NotifyCodecSwitch
<1>3. CASE ReadMode(r)
  BY <1>3, BooleanValues DEF ReadMode, SyncSource
<1>4. CASE Acquire(r)
  BY <1>4, BooleanValues DEF Acquire
<1>5. CASE \E t \in Transitions : Begin(r, t)
  BY <1>5, BooleanValues DEF Begin
<1>6. CASE StartStreamer(r)
  BY <1>6, BooleanValues DEF StartStreamer, StartCapture
<1>7. CASE SessionPipeline(r)
  BY <1>7, BooleanValues DEF SessionPipeline, EnsurePipeline
<1>8. CASE EnforceMode(r)
  BY <1>8, BooleanValues DEF EnforceMode, SetVideoCodec
<1>q. QED
  BY <1>1, <1>2, <1>3, <1>4, <1>5, <1>6, <1>7, <1>8 DEF Continue

\* A vanished client keeps the types.
LEMMA TypeGone ==
    ASSUME TypeOK, NEW r \in Requests, Disconnect(r)
    PROVE  TypeOK'
<1> USE DEF TypeOK, Modes, Goto, Advance, Called, capture, recover, config, task
<1>1. CASE Disconnect(r)
  BY <1>1, BooleanValues DEF Disconnect
<1>q. QED
  BY <1>1 DEF Disconnect

\* The switch task keeps the types.
LEMMA TypeTask ==
    ASSUME TypeOK, NEW t \in Transitions, SwitchTask(t)
    PROVE  TypeOK'
<1> USE DEF TypeOK, Modes, Goto, Advance, Called, capture, recover, config, task
<1>1. CASE StopOld(t)
  BY <1>1, BooleanValues DEF StopOld, StopCapture, StopStreamer
<1>2. CASE SetMode(t)
  BY <1>2, BooleanValues DEF SetMode
<1>3. CASE StartNew(t)
  BY <1>3, BooleanValues DEF StartNew, SyncSource
<1>4. CASE GetConfig(t)
  BY <1>4, BooleanValues DEF GetConfig
<1>5. CASE SetConfig(t)
  BY <1>5, BooleanValues DEF SetConfig
<1>6. CASE Ready(t)
  BY <1>6, BooleanValues DEF Ready
<1>7. CASE ClearTransition(t)
  BY <1>7, BooleanValues DEF ClearTransition
<1>8. CASE Free(t)
  BY <1>8, BooleanValues DEF Free
<1>q. QED
  BY <1>1, <1>2, <1>3, <1>4, <1>5, <1>6, <1>7, <1>8 DEF SwitchTask

\* Every step keeps the types.
LEMMA TypeNext == TypeOK /\ [Next]_vars => TypeOK'
<1> SUFFICES ASSUME TypeOK, [Next]_vars PROVE TypeOK'
  OBVIOUS
<1>1. CASE \E r \in Requests : Request(r)
  BY <1>1, TypeRequest
<1>2. CASE \E r \in Requests : Continue(r)
  BY <1>2, TypeContinue
<1>3. CASE \E r \in Requests : Disconnect(r)
  BY <1>3, TypeGone
<1>4. CASE \E t \in Transitions : SwitchTask(t)
  BY <1>4, TypeTask
<1>5. CASE CaptureEnds
  <2>1. CASE mjpegOn' = FALSE /\ UNCHANGED rtcOn
    BY <1>5, BooleanValues, <2>1 DEF CaptureEnds, TypeOK, Modes, Goto,
       Advance, Called, capture, recover, config, task
  <2>2. CASE rtcOn' = FALSE /\ UNCHANGED mjpegOn
    BY <1>5, BooleanValues, <2>2 DEF CaptureEnds, TypeOK, Modes, Goto,
       Advance, Called, capture, recover, config, task
  <2>q. QED
    BY <1>5, <2>1, <2>2 DEF CaptureEnds, TypeOK, Modes, Goto, Advance,
       Called, capture, recover, config, task
<1>6. CASE UNCHANGED vars
  BY <1>6 DEF TypeOK, Modes, Goto, Advance, Called, capture, recover, config, task,
     vars
<1>7. CASE CaptureLost
  BY <1>7, BooleanValues DEF CaptureLost, apart, TypeOK, Modes,
     Goto, Advance, Called, capture, recover, config, task
<1>8. CASE Recover
  <2>1. CASE RecoveryCheck
    BY <2>1, BooleanValues DEF RecoveryCheck, StartCapture, apart, TypeOK, Modes,
       Goto, Advance, Called, capture, recover, config, task
  <2>2. CASE RecoveryMark
    BY <2>2, BooleanValues DEF RecoveryMark, StartCapture, apart, TypeOK, Modes,
       Goto, Advance, Called, capture, recover, config, task
  <2>3. CASE RecoveryRestart
    BY <2>3, BooleanValues DEF RecoveryRestart, StartCapture, apart, TypeOK, Modes,
       Goto, Advance, Called, capture, recover, config, task
  <2>4. CASE RecoveryWait
    BY <2>4, BooleanValues DEF RecoveryWait, StartCapture, apart, TypeOK, Modes,
       Goto, Advance, Called, capture, recover, config, task
  <2> QED
    BY <1>8, <2>1, <2>2, <2>3, <2>4 DEF Recover
<1>q. QED BY <1>1, <1>2, <1>3, <1>4, <1>5, <1>6, <1>7, <1>8 DEF Next

\* Every reachable state of the stream manager is well typed; in particular
\* the stored configuration contains only updates that were made.
THEOREM TypeCorrect == Spec => []TypeOK
BY TypeInit, TypeNext, PTL DEF Spec

-----------------------------------------------------------------------------
(* Transactions exclude each other.  Between the compare_exchange and the   *)
(* spawn, the request holds the right to switch; then its task does.        *)

ExclusiveInv ==
    /\ SwitchExclusive
    /\ \A r \in Requests : Holding(r) => switching

\* At the start nobody switches.
LEMMA ExclusiveInit == Init => ExclusiveInv
BY DEF Init, ExclusiveInv, SwitchExclusive, Active, Holding

\* A new call keeps transactions exclusive.
LEMMA ExclusiveRequest ==
    ASSUME TypeOK, ExclusiveInv, NEW r \in Requests, Request(r)
    PROVE  ExclusiveInv'
<1> USE DEF TypeOK, ExclusiveInv, SwitchExclusive, Active, Holding, Goto,
   Advance, Called, capture, recover, config, task
<1>1. CASE \E m \in Modes : StreamModeSet(r, m)
  BY <1>1 DEF StreamModeSet
<1>2. CASE \E m \in Modes : PatchStreamConfig(r, m)
  BY <1>2 DEF PatchStreamConfig
<1>3. CASE \E l \in Modes \cup {"any"} : EnforceConstraints(r, l)
  BY <1>3 DEF EnforceConstraints
<1>4. CASE \E e \in Edits : UpdateConfig(r, e)
  BY <1>4 DEF UpdateConfig
<1>5. CASE Start(r)
  BY <1>5 DEF Start
<1>6. CASE Stop(r)
  BY <1>6 DEF Stop
<1>7. CASE ApplyVideoConfig(r)
  <2>1. CASE mode = "Mjpeg"
    BY <1>7, <2>1 DEF ApplyVideoConfig, StopStreamer
  <2>2. CASE mode = "WebRTC"
    BY <1>7, <2>2 DEF ApplyVideoConfig, StopStreamer
  <2>q. QED
    BY <1>7, <2>1, <2>2 DEF ApplyVideoConfig, StopStreamer
<1>8. CASE CreateSession(r)
  BY <1>8 DEF CreateSession
<1>9. CASE SubscribeEncodedFrames(r)
  BY <1>9 DEF SubscribeEncodedFrames
<1>q. QED
  BY <1>1, <1>2, <1>3, <1>4, <1>5, <1>6, <1>7, <1>8, <1>9 DEF Request

\* A call that goes on keeps transactions exclusive.
LEMMA ExclusiveContinue ==
    ASSUME TypeOK, ExclusiveInv, NEW r \in Requests, Continue(r)
    PROVE  ExclusiveInv'
<1> USE DEF TypeOK, ExclusiveInv, SwitchExclusive, Active, Holding, Goto,
   Advance, Called, capture, recover, config, task
<1>1. CASE SetCodec(r)
  BY <1>1 DEF SetCodec
<1>2. CASE NotifyCodecSwitch(r)
  BY <1>2 DEF NotifyCodecSwitch
<1>3. CASE ReadMode(r)
  BY <1>3 DEF ReadMode
<1>4. CASE Acquire(r)
  BY <1>4 DEF Acquire
<1>5. CASE \E t \in Transitions : Begin(r, t)
  BY <1>5 DEF Begin
<1>6. CASE StartStreamer(r)
  BY <1>6 DEF StartStreamer
<1>7. CASE SessionPipeline(r)
  BY <1>7 DEF SessionPipeline
<1>8. CASE EnforceMode(r)
  BY <1>8 DEF EnforceMode
<1>q. QED
  BY <1>1, <1>2, <1>3, <1>4, <1>5, <1>6, <1>7, <1>8 DEF Continue

\* A vanished client keeps transactions exclusive.
LEMMA ExclusiveGone ==
    ASSUME TypeOK, ExclusiveInv, NEW r \in Requests, Disconnect(r)
    PROVE  ExclusiveInv'
<1> USE DEF TypeOK, ExclusiveInv, SwitchExclusive, Active, Holding, Goto,
   Advance, Called, capture, recover, config, task
<1>1. CASE Disconnect(r)
  BY <1>1 DEF Disconnect
<1>q. QED
  BY <1>1 DEF Disconnect

\* The switch task keeps transactions exclusive.
LEMMA ExclusiveTask ==
    ASSUME TypeOK, ExclusiveInv, NEW t \in Transitions, SwitchTask(t)
    PROVE  ExclusiveInv'
<1> USE DEF TypeOK, ExclusiveInv, SwitchExclusive, Active, Holding, Goto,
   Advance, Called, capture, recover, config, task
<1>1. CASE StopOld(t)
  BY <1>1 DEF StopOld
<1>2. CASE SetMode(t)
  BY <1>2 DEF SetMode
<1>3. CASE StartNew(t)
  BY <1>3 DEF StartNew
<1>4. CASE GetConfig(t)
  BY <1>4 DEF GetConfig
<1>5. CASE SetConfig(t)
  BY <1>5 DEF SetConfig
<1>6. CASE Ready(t)
  BY <1>6 DEF Ready
<1>7. CASE ClearTransition(t)
  BY <1>7 DEF ClearTransition
<1>8. CASE Free(t)
  BY <1>8 DEF Free
<1>q. QED
  BY <1>1, <1>2, <1>3, <1>4, <1>5, <1>6, <1>7, <1>8 DEF SwitchTask

\* Every step keeps transactions exclusive.
LEMMA ExclusiveNext == TypeOK /\ ExclusiveInv /\ [Next]_vars => ExclusiveInv'
<1> SUFFICES ASSUME TypeOK, ExclusiveInv, [Next]_vars PROVE ExclusiveInv'
  OBVIOUS
<1>1. CASE \E r \in Requests : Request(r)
  BY <1>1, ExclusiveRequest
<1>2. CASE \E r \in Requests : Continue(r)
  BY <1>2, ExclusiveContinue
<1>3. CASE \E r \in Requests : Disconnect(r)
  BY <1>3, ExclusiveGone
<1>4. CASE \E t \in Transitions : SwitchTask(t)
  BY <1>4, ExclusiveTask
<1>5. CASE CaptureEnds
  BY <1>5 DEF CaptureEnds, TypeOK, ExclusiveInv, SwitchExclusive, Active,
     Holding, Goto, Advance, Called, capture, recover, config, task
<1>6. CASE UNCHANGED vars
  BY <1>6 DEF TypeOK, ExclusiveInv, SwitchExclusive, Active, Holding, Goto,
     Advance, Called, capture, recover, config, task, vars
<1>7. CASE CaptureLost
  BY <1>7 DEF CaptureLost, apart, TypeOK, ExclusiveInv, SwitchExclusive, Active, Holding,
     Goto, Advance, Called, capture, recover, config, task
<1>8. CASE Recover
  <2>1. CASE RecoveryCheck
    BY <2>1 DEF RecoveryCheck, StartCapture, apart, TypeOK, ExclusiveInv, SwitchExclusive, Active, Holding,
       Goto, Advance, Called, capture, recover, config, task
  <2>2. CASE RecoveryMark
    BY <2>2 DEF RecoveryMark, StartCapture, apart, TypeOK, ExclusiveInv, SwitchExclusive, Active, Holding,
       Goto, Advance, Called, capture, recover, config, task
  <2>3. CASE RecoveryRestart
    BY <2>3 DEF RecoveryRestart, StartCapture, apart, TypeOK, ExclusiveInv, SwitchExclusive, Active, Holding,
       Goto, Advance, Called, capture, recover, config, task
  <2>4. CASE RecoveryWait
    BY <2>4 DEF RecoveryWait, StartCapture, apart, TypeOK, ExclusiveInv, SwitchExclusive, Active, Holding,
       Goto, Advance, Called, capture, recover, config, task
  <2> QED
    BY <1>8, <2>1, <2>2, <2>3, <2>4 DEF Recover
<1>q. QED BY <1>1, <1>2, <1>3, <1>4, <1>5, <1>6, <1>7, <1>8 DEF Next

\* Two mode switch transactions never overlap, whoever asks for them and
\* whatever fails, and transition_id names the one that is running.
THEOREM SwitchIsExclusive == Spec => []SwitchExclusive
<1>1. ExclusiveInv => SwitchExclusive
  BY DEF ExclusiveInv
<1>q. QED
  BY <1>1, TypeInit, TypeNext, ExclusiveInit, ExclusiveNext, PTL DEF Spec

-----------------------------------------------------------------------------
(* StreamModeReady.  Only notify_codec_switch could contradict it, and it   *)
(* follows a change of codec.                                               *)

ReadyInv ==
    /\ ReadyTellsMode
    /\ \A r \in Requests : pc[r] \notin {"recode", "notify"}

\* Nothing has been announced at the start.
LEMMA ReadyInit == Init => ReadyInv
BY DEF Init, ReadyInv, ReadyTellsMode

\* A new call keeps the announced mode true.
LEMMA ReadyRequest ==
    ASSUME "recode" \notin Calls, TypeOK, ReadyInv, NEW r \in Requests, Request(r)
    PROVE  ReadyInv'
<1> USE DEF TypeOK, ReadyInv, ReadyTellsMode, Changing, Goto, Advance,
   Called, capture, recover, config, task
<1>1. CASE \E m \in Modes : StreamModeSet(r, m)
  BY <1>1 DEF StreamModeSet
<1>2. CASE \E m \in Modes : PatchStreamConfig(r, m)
  BY <1>2 DEF PatchStreamConfig
<1>3. CASE \E l \in Modes \cup {"any"} : EnforceConstraints(r, l)
  BY <1>3 DEF EnforceConstraints
<1>4. CASE \E e \in Edits : UpdateConfig(r, e)
  BY <1>4 DEF UpdateConfig
<1>5. CASE Start(r)
  BY <1>5 DEF Start
<1>6. CASE Stop(r)
  BY <1>6 DEF Stop
<1>7. CASE ApplyVideoConfig(r)
  BY <1>7 DEF ApplyVideoConfig, StopStreamer
<1>8. CASE CreateSession(r)
  BY <1>8 DEF CreateSession
<1>9. CASE SubscribeEncodedFrames(r)
  BY <1>9 DEF SubscribeEncodedFrames
<1>q. QED
  BY <1>1, <1>2, <1>3, <1>4, <1>5, <1>6, <1>7, <1>8, <1>9 DEF Request

\* A call that goes on keeps the announced mode true.
LEMMA ReadyContinue ==
    ASSUME "recode" \notin Calls, TypeOK, ReadyInv, NEW r \in Requests, Continue(r)
    PROVE  ReadyInv'
<1> USE DEF TypeOK, ReadyInv, ReadyTellsMode, Changing, Goto, Advance,
   Called, capture, recover, config, task
<1>1. CASE SetCodec(r)
  BY <1>1 DEF SetCodec
<1>2. CASE NotifyCodecSwitch(r)
  BY <1>2 DEF NotifyCodecSwitch
<1>3. CASE ReadMode(r)
  BY <1>3 DEF ReadMode
<1>4. CASE Acquire(r)
  BY <1>4 DEF Acquire
<1>5. CASE \E t \in Transitions : Begin(r, t)
  BY <1>5 DEF Begin
<1>6. CASE StartStreamer(r)
  BY <1>6 DEF StartStreamer
<1>7. CASE SessionPipeline(r)
  BY <1>7 DEF SessionPipeline
<1>8. CASE EnforceMode(r)
  BY <1>8 DEF EnforceMode
<1>q. QED
  BY <1>1, <1>2, <1>3, <1>4, <1>5, <1>6, <1>7, <1>8 DEF Continue

\* A vanished client keeps the announced mode true.
LEMMA ReadyGone ==
    ASSUME "recode" \notin Calls, TypeOK, ReadyInv, NEW r \in Requests, Disconnect(r)
    PROVE  ReadyInv'
<1> USE DEF TypeOK, ReadyInv, ReadyTellsMode, Changing, Goto, Advance,
   Called, capture, recover, config, task
<1>1. CASE Disconnect(r)
  BY <1>1 DEF Disconnect
<1>q. QED
  BY <1>1 DEF Disconnect

\* The switch task keeps the announced mode true.
LEMMA ReadyTask ==
    ASSUME "recode" \notin Calls, TypeOK, ReadyInv, NEW t \in Transitions, SwitchTask(t)
    PROVE  ReadyInv'
<1> USE DEF TypeOK, ReadyInv, ReadyTellsMode, Changing, Goto, Advance,
   Called, capture, recover, config, task
<1>1. CASE StopOld(t)
  BY <1>1 DEF StopOld
<1>2. CASE SetMode(t)
  BY <1>2 DEF SetMode
<1>3. CASE StartNew(t)
  BY <1>3 DEF StartNew
<1>4. CASE GetConfig(t)
  BY <1>4 DEF GetConfig
<1>5. CASE SetConfig(t)
  BY <1>5 DEF SetConfig
<1>6. CASE Ready(t)
  BY <1>6 DEF Ready
<1>7. CASE ClearTransition(t)
  BY <1>7 DEF ClearTransition
<1>8. CASE Free(t)
  BY <1>8 DEF Free
<1>q. QED
  BY <1>1, <1>2, <1>3, <1>4, <1>5, <1>6, <1>7, <1>8 DEF SwitchTask

\* Every step keeps the announced mode true.
LEMMA ReadyNext == 
    ASSUME "recode" \notin Calls
    PROVE  TypeOK /\ ReadyInv /\ [Next]_vars => ReadyInv'
<1> SUFFICES ASSUME TypeOK, ReadyInv, [Next]_vars PROVE ReadyInv'
  OBVIOUS
<1>1. CASE \E r \in Requests : Request(r)
  BY <1>1, ReadyRequest
<1>2. CASE \E r \in Requests : Continue(r)
  BY <1>2, ReadyContinue
<1>3. CASE \E r \in Requests : Disconnect(r)
  BY <1>3, ReadyGone
<1>4. CASE \E t \in Transitions : SwitchTask(t)
  BY <1>4, ReadyTask
<1>5. CASE CaptureEnds
  BY <1>5 DEF CaptureEnds, TypeOK, ReadyInv, ReadyTellsMode, Changing, Goto,
     Advance, Called, capture, recover, config, task
<1>6. CASE UNCHANGED vars
  BY <1>6 DEF TypeOK, ReadyInv, ReadyTellsMode, Changing, Goto, Advance,
     Called, capture, recover, config, task, vars
<1>7. CASE CaptureLost
  BY <1>7 DEF CaptureLost, apart, TypeOK, ReadyInv, ReadyTellsMode, Changing,
     Goto, Advance, Called, capture, recover, config, task
<1>8. CASE Recover
  <2>1. CASE RecoveryCheck
    BY <2>1 DEF RecoveryCheck, StartCapture, apart, TypeOK, ReadyInv, ReadyTellsMode, Changing,
       Goto, Advance, Called, capture, recover, config, task
  <2>2. CASE RecoveryMark
    BY <2>2 DEF RecoveryMark, StartCapture, apart, TypeOK, ReadyInv, ReadyTellsMode, Changing,
       Goto, Advance, Called, capture, recover, config, task
  <2>3. CASE RecoveryRestart
    BY <2>3 DEF RecoveryRestart, StartCapture, apart, TypeOK, ReadyInv, ReadyTellsMode, Changing,
       Goto, Advance, Called, capture, recover, config, task
  <2>4. CASE RecoveryWait
    BY <2>4 DEF RecoveryWait, StartCapture, apart, TypeOK, ReadyInv, ReadyTellsMode, Changing,
       Goto, Advance, Called, capture, recover, config, task
  <2> QED
    BY <1>8, <2>1, <2>2, <2>3, <2>4 DEF Recover
<1>q. QED BY <1>1, <1>2, <1>3, <1>4, <1>5, <1>6, <1>7, <1>8 DEF Next

\* As long as no call changes the codec, clients that heard StreamModeReady
\* know the mode in force, also after a switch that failed.
THEOREM ReadyIsTrue ==
    ASSUME "recode" \notin Calls
    PROVE  Spec => []ReadyTellsMode
<1>1. ReadyInv => ReadyTellsMode
  BY DEF ReadyInv
<1>2. TypeOK /\ ReadyInv /\ [Next]_vars => ReadyInv'
  BY ReadyNext
<1>q. QED BY <1>1, <1>2, TypeInit, TypeNext, ReadyInit, PTL DEF Spec

-----------------------------------------------------------------------------
(* The stored mode.  A task that has set the mode is alone, so the mode is  *)
(* its own until it has written the configuration.                          *)

PersistInv ==
    /\ ModePersisted
    /\ \A t \in Transitions :
          /\ step[t] \in {"start", "get", "set"} => mode = to[t]
          /\ step[t] \in {"ready", "clear", "free"} => failed \/ saved = mode

\* The first mode is the stored one.
LEMMA PersistInit == Init => PersistInv
BY DEF Init, PersistInv, ModePersisted

\* A new call keeps the stored mode right.
LEMMA PersistRequest ==
    ASSUME "patch" \notin Calls, TypeOK, ExclusiveInv, PersistInv, NEW r \in Requests, Request(r)
    PROVE  PersistInv'
<1> USE DEF TypeOK, ExclusiveInv, SwitchExclusive, Active, Holding,
   PersistInv, ModePersisted, Goto, Advance, Called, capture, recover, config, task
<1>1. CASE \E m \in Modes : StreamModeSet(r, m)
  BY <1>1 DEF StreamModeSet
<1>2. CASE \E m \in Modes : PatchStreamConfig(r, m)
  BY <1>2 DEF PatchStreamConfig
<1>3. CASE \E l \in Modes \cup {"any"} : EnforceConstraints(r, l)
  BY <1>3 DEF EnforceConstraints
<1>4. CASE \E e \in Edits : UpdateConfig(r, e)
  BY <1>4 DEF UpdateConfig
<1>5. CASE Start(r)
  BY <1>5 DEF Start
<1>6. CASE Stop(r)
  BY <1>6 DEF Stop
<1>7. CASE ApplyVideoConfig(r)
  BY <1>7 DEF ApplyVideoConfig, StopStreamer
<1>8. CASE CreateSession(r)
  BY <1>8 DEF CreateSession
<1>9. CASE SubscribeEncodedFrames(r)
  BY <1>9 DEF SubscribeEncodedFrames
<1>q. QED
  BY <1>1, <1>2, <1>3, <1>4, <1>5, <1>6, <1>7, <1>8, <1>9 DEF Request

\* A call that goes on keeps the stored mode right.
LEMMA PersistContinue ==
    ASSUME "patch" \notin Calls, TypeOK, ExclusiveInv, PersistInv, NEW r \in Requests, Continue(r)
    PROVE  PersistInv'
<1> USE DEF TypeOK, ExclusiveInv, SwitchExclusive, Active, Holding,
   PersistInv, ModePersisted, Goto, Advance, Called, capture, recover, config, task
<1>1. CASE SetCodec(r)
  BY <1>1 DEF SetCodec
<1>2. CASE NotifyCodecSwitch(r)
  BY <1>2 DEF NotifyCodecSwitch
<1>3. CASE ReadMode(r)
  BY <1>3 DEF ReadMode
<1>4. CASE Acquire(r)
  BY <1>4 DEF Acquire
<1>5. CASE \E t \in Transitions : Begin(r, t)
  BY <1>5 DEF Begin
<1>6. CASE StartStreamer(r)
  BY <1>6 DEF StartStreamer
<1>7. CASE SessionPipeline(r)
  BY <1>7 DEF SessionPipeline
<1>8. CASE EnforceMode(r)
  BY <1>8 DEF EnforceMode
<1>q. QED
  BY <1>1, <1>2, <1>3, <1>4, <1>5, <1>6, <1>7, <1>8 DEF Continue

\* A vanished client keeps the stored mode right.
LEMMA PersistGone ==
    ASSUME "patch" \notin Calls, TypeOK, ExclusiveInv, PersistInv, NEW r \in Requests, Disconnect(r)
    PROVE  PersistInv'
<1> USE DEF TypeOK, ExclusiveInv, SwitchExclusive, Active, Holding,
   PersistInv, ModePersisted, Goto, Advance, Called, capture, recover, config, task
<1>1. CASE Disconnect(r)
  BY <1>1 DEF Disconnect
<1>q. QED
  BY <1>1 DEF Disconnect

\* The switch task keeps the stored mode right.
LEMMA PersistTask ==
    ASSUME "patch" \notin Calls, TypeOK, ExclusiveInv, PersistInv, NEW t \in Transitions, SwitchTask(t)
    PROVE  PersistInv'
<1> USE DEF TypeOK, ExclusiveInv, SwitchExclusive, Active, Holding,
   PersistInv, ModePersisted, Goto, Advance, Called, capture, recover, config, task
<1>1. CASE StopOld(t)
  BY <1>1 DEF StopOld
<1>2. CASE SetMode(t)
  BY <1>2 DEF SetMode
<1>3. CASE StartNew(t)
  BY <1>3 DEF StartNew
<1>4. CASE GetConfig(t)
  BY <1>4 DEF GetConfig
<1>5. CASE SetConfig(t)
  BY <1>5 DEF SetConfig
<1>6. CASE Ready(t)
  BY <1>6 DEF Ready
<1>7. CASE ClearTransition(t)
  BY <1>7 DEF ClearTransition
<1>8. CASE Free(t)
  BY <1>8 DEF Free
<1>q. QED
  BY <1>1, <1>2, <1>3, <1>4, <1>5, <1>6, <1>7, <1>8 DEF SwitchTask

\* Every step keeps the stored mode right.
LEMMA PersistNext == 
    ASSUME "patch" \notin Calls
    PROVE  TypeOK /\ ExclusiveInv /\ PersistInv /\ [Next]_vars => PersistInv'
<1> SUFFICES ASSUME TypeOK, ExclusiveInv, PersistInv, [Next]_vars PROVE PersistInv'
  OBVIOUS
<1>1. CASE \E r \in Requests : Request(r)
  BY <1>1, PersistRequest
<1>2. CASE \E r \in Requests : Continue(r)
  BY <1>2, PersistContinue
<1>3. CASE \E r \in Requests : Disconnect(r)
  BY <1>3, PersistGone
<1>4. CASE \E t \in Transitions : SwitchTask(t)
  BY <1>4, PersistTask
<1>5. CASE CaptureEnds
  BY <1>5 DEF CaptureEnds, TypeOK, ExclusiveInv, SwitchExclusive, Active,
     Holding, PersistInv, ModePersisted, Goto, Advance, Called, capture, recover,
     config, task
<1>6. CASE UNCHANGED vars
  BY <1>6 DEF TypeOK, ExclusiveInv, SwitchExclusive, Active, Holding,
     PersistInv, ModePersisted, Goto, Advance, Called, capture, recover, config,
     task, vars
<1>7. CASE CaptureLost
  BY <1>7 DEF CaptureLost, apart, TypeOK, ExclusiveInv, SwitchExclusive, Active, Holding, PersistInv, ModePersisted,
     Goto, Advance, Called, capture, recover, config, task
<1>8. CASE Recover
  <2>1. CASE RecoveryCheck
    BY <2>1 DEF RecoveryCheck, StartCapture, apart, TypeOK, ExclusiveInv, SwitchExclusive, Active, Holding, PersistInv, ModePersisted,
       Goto, Advance, Called, capture, recover, config, task
  <2>2. CASE RecoveryMark
    BY <2>2 DEF RecoveryMark, StartCapture, apart, TypeOK, ExclusiveInv, SwitchExclusive, Active, Holding, PersistInv, ModePersisted,
       Goto, Advance, Called, capture, recover, config, task
  <2>3. CASE RecoveryRestart
    BY <2>3 DEF RecoveryRestart, StartCapture, apart, TypeOK, ExclusiveInv, SwitchExclusive, Active, Holding, PersistInv, ModePersisted,
       Goto, Advance, Called, capture, recover, config, task
  <2>4. CASE RecoveryWait
    BY <2>4 DEF RecoveryWait, StartCapture, apart, TypeOK, ExclusiveInv, SwitchExclusive, Active, Holding, PersistInv, ModePersisted,
       Goto, Advance, Called, capture, recover, config, task
  <2> QED
    BY <1>8, <2>1, <2>2, <2>3, <2>4 DEF Recover
<1>q. QED BY <1>1, <1>2, <1>3, <1>4, <1>5, <1>6, <1>7, <1>8 DEF Next

\* Unless the last transaction failed or a client stored a mode itself, the
\* device restarts in the mode it is in.
THEOREM ModeIsPersisted ==
    ASSUME "patch" \notin Calls
    PROVE  Spec => []ModePersisted
<1>1. PersistInv => ModePersisted
  BY DEF PersistInv
<1>2. TypeOK /\ ExclusiveInv /\ PersistInv /\ [Next]_vars => PersistInv'
  BY PersistNext
<1>q. QED
  BY <1>1, <1>2, TypeInit, TypeNext, ExclusiveInit, ExclusiveNext, PersistInit,
     PTL DEF Spec

-----------------------------------------------------------------------------
(* MJPEG capture and WebRTC mode.  The mode a transaction stops was read    *)
(* before the compare_exchange, but differs from the new mode; so a task    *)
(* on its way to WebRTC has stopped MJPEG capture, whatever the mode was.   *)
(* What could bring it back is a recovery task that runs on; without        *)
(* capture no new one begins.                                               *)

\* The streamer is still, and nothing is left that would start it.
Quiet == ~mjpegOn /\ recovery = "none"

CaptureInv ==
    /\ mode = "WebRTC" => overrun \/ Quiet
    /\ \A t \in Transitions :
          /\ step[t] = "mode" /\ to[t] = "WebRTC" => overrun \/ Quiet
          /\ step[t] = "start" => mode = to[t]
    /\ \A r \in Requests : pc[r] \notin {"start", "restart"}

\* The calls into WebRtcStreamer leave the streamer alone.
LEMMA StreamerAlone ==
    /\ SyncSource => UNCHANGED <<mjpegOn, recover>>
    /\ SetVideoCodec => UNCHANGED <<mjpegOn, recover>>
    /\ EnsurePipeline => UNCHANGED <<mjpegOn, recover>>
BY DEF SyncSource, SetVideoCodec, EnsurePipeline

\* Nothing captures at the start.
LEMMA CaptureInit == Init => CaptureInv
BY DEF Init, CaptureInv, Quiet

\* A new call keeps the streamer still in WebRTC mode.
LEMMA CaptureRequest ==
    ASSUME Calls \cap {"start", "apply"} = {}, TypeOK, ExclusiveInv, CaptureInv, NEW r \in Requests, Request(r)
    PROVE  CaptureInv'
<1> USE DEF TypeOK, ExclusiveInv, SwitchExclusive, Active, Holding,
   CaptureInv, Quiet, Other, Modes, Goto, Advance, Called,
   capture, recover, config, task
<1>1. CASE \E m \in Modes : StreamModeSet(r, m)
  BY <1>1, StreamerAlone DEF StreamModeSet
<1>2. CASE \E m \in Modes : PatchStreamConfig(r, m)
  BY <1>2, StreamerAlone DEF PatchStreamConfig
<1>3. CASE \E l \in Modes \cup {"any"} : EnforceConstraints(r, l)
  BY <1>3, StreamerAlone DEF EnforceConstraints
<1>4. CASE \E e \in Edits : UpdateConfig(r, e)
  BY <1>4, StreamerAlone DEF UpdateConfig
<1>5. CASE Start(r)
  BY <1>5, StreamerAlone DEF Start
<1>6. CASE Stop(r)
  BY <1>6, StreamerAlone DEF Stop, StopCapture, StopStreamer
<1>7. CASE ApplyVideoConfig(r)
  BY <1>7, StreamerAlone DEF ApplyVideoConfig, StopStreamer
<1>8. CASE CreateSession(r)
  BY <1>8, StreamerAlone DEF CreateSession
<1>9. CASE SubscribeEncodedFrames(r)
  BY <1>9, StreamerAlone DEF SubscribeEncodedFrames
<1>q. QED
  BY <1>1, <1>2, <1>3, <1>4, <1>5, <1>6, <1>7, <1>8, <1>9 DEF Request

\* A call that goes on keeps the streamer still in WebRTC mode.
LEMMA CaptureContinue ==
    ASSUME Calls \cap {"start", "apply"} = {}, TypeOK, ExclusiveInv, CaptureInv, NEW r \in Requests, Continue(r)
    PROVE  CaptureInv'
<1> USE DEF TypeOK, ExclusiveInv, SwitchExclusive, Active, Holding,
   CaptureInv, Quiet, Other, Modes, Goto, Advance, Called,
   capture, recover, config, task
<1>1. CASE SetCodec(r)
  BY <1>1, StreamerAlone DEF SetCodec
<1>2. CASE NotifyCodecSwitch(r)
  BY <1>2, StreamerAlone DEF NotifyCodecSwitch
<1>3. CASE ReadMode(r)
  BY <1>3, StreamerAlone DEF ReadMode
<1>4. CASE Acquire(r)
  BY <1>4, StreamerAlone DEF Acquire
<1>5. CASE \E t \in Transitions : Begin(r, t)
  BY <1>5, StreamerAlone DEF Begin
<1>6. CASE StartStreamer(r)
  BY <1>6, StreamerAlone DEF StartStreamer, StartCapture
<1>7. CASE SessionPipeline(r)
  BY <1>7, StreamerAlone DEF SessionPipeline
<1>8. CASE EnforceMode(r)
  BY <1>8, StreamerAlone DEF EnforceMode
<1>q. QED
  BY <1>1, <1>2, <1>3, <1>4, <1>5, <1>6, <1>7, <1>8 DEF Continue

\* A vanished client keeps the streamer still in WebRTC mode.
LEMMA CaptureGone ==
    ASSUME Calls \cap {"start", "apply"} = {}, TypeOK, ExclusiveInv, CaptureInv, NEW r \in Requests, Disconnect(r)
    PROVE  CaptureInv'
<1> USE DEF TypeOK, ExclusiveInv, SwitchExclusive, Active, Holding,
   CaptureInv, Quiet, Other, Modes, Goto, Advance, Called,
   capture, recover, config, task
<1>1. CASE Disconnect(r)
  BY <1>1, StreamerAlone DEF Disconnect
<1>q. QED
  BY <1>1 DEF Disconnect

\* The switch task keeps the streamer still in WebRTC mode.
LEMMA CaptureTask ==
    ASSUME Calls \cap {"start", "apply"} = {}, TypeOK, ExclusiveInv, CaptureInv, NEW t \in Transitions, SwitchTask(t)
    PROVE  CaptureInv'
<1> USE DEF TypeOK, ExclusiveInv, SwitchExclusive, Active, Holding,
   CaptureInv, Quiet, Other, Modes, Goto, Advance, Called,
   capture, recover, config, task
<1>1. CASE StopOld(t)
  BY <1>1, StreamerAlone DEF StopOld, StopCapture, StopStreamer
<1>2. CASE SetMode(t)
  BY <1>2, StreamerAlone DEF SetMode
<1>3. CASE StartNew(t)
  BY <1>3, StreamerAlone DEF StartNew
<1>4. CASE GetConfig(t)
  BY <1>4, StreamerAlone DEF GetConfig
<1>5. CASE SetConfig(t)
  BY <1>5, StreamerAlone DEF SetConfig
<1>6. CASE Ready(t)
  BY <1>6, StreamerAlone DEF Ready
<1>7. CASE ClearTransition(t)
  BY <1>7, StreamerAlone DEF ClearTransition
<1>8. CASE Free(t)
  BY <1>8, StreamerAlone DEF Free
<1>q. QED
  BY <1>1, <1>2, <1>3, <1>4, <1>5, <1>6, <1>7, <1>8 DEF SwitchTask

\* Every step keeps the streamer still in WebRTC mode.
LEMMA CaptureNext == 
    ASSUME Calls \cap {"start", "apply"} = {}
    PROVE  TypeOK /\ ExclusiveInv /\ CaptureInv /\ [Next]_vars => CaptureInv'
<1> SUFFICES ASSUME TypeOK, ExclusiveInv, CaptureInv, [Next]_vars PROVE CaptureInv'
  OBVIOUS
<1>1. CASE \E r \in Requests : Request(r)
  BY <1>1, CaptureRequest
<1>2. CASE \E r \in Requests : Continue(r)
  BY <1>2, CaptureContinue
<1>3. CASE \E r \in Requests : Disconnect(r)
  BY <1>3, CaptureGone
<1>4. CASE \E t \in Transitions : SwitchTask(t)
  BY <1>4, CaptureTask
<1>5. CASE CaptureEnds
  BY <1>5, StreamerAlone DEF CaptureEnds, TypeOK, ExclusiveInv,
     SwitchExclusive, Active, Holding, CaptureInv, Quiet,
     Other, Modes, Goto, Advance, Called, capture, recover, config, task
<1>6. CASE UNCHANGED vars
  BY <1>6 DEF TypeOK, ExclusiveInv, SwitchExclusive, Active, Holding,
     CaptureInv, Quiet, Other, Modes, Goto, Advance, Called,
     capture, recover, config, task, vars
<1>7. CASE CaptureLost
  BY <1>7 DEF CaptureLost, apart, TypeOK, ExclusiveInv, SwitchExclusive, Active, Holding, CaptureInv, Quiet, Other, Modes,
     Goto, Advance, Called, capture, recover, config, task
<1>8. CASE Recover
  <2>1. CASE RecoveryCheck
    BY <2>1 DEF RecoveryCheck, StartCapture, apart, TypeOK, ExclusiveInv, SwitchExclusive, Active, Holding, CaptureInv, Quiet, Other, Modes,
       Goto, Advance, Called, capture, recover, config, task
  <2>2. CASE RecoveryMark
    BY <2>2 DEF RecoveryMark, StartCapture, apart, TypeOK, ExclusiveInv, SwitchExclusive, Active, Holding, CaptureInv, Quiet, Other, Modes,
       Goto, Advance, Called, capture, recover, config, task
  <2>3. CASE RecoveryRestart
    BY <2>3 DEF RecoveryRestart, StartCapture, apart, TypeOK, ExclusiveInv, SwitchExclusive, Active, Holding, CaptureInv, Quiet, Other, Modes,
       Goto, Advance, Called, capture, recover, config, task
  <2>4. CASE RecoveryWait
    BY <2>4 DEF RecoveryWait, StartCapture, apart, TypeOK, ExclusiveInv, SwitchExclusive, Active, Holding, CaptureInv, Quiet, Other, Modes,
       Goto, Advance, Called, capture, recover, config, task
  <2> QED
    BY <1>8, <2>1, <2>2, <2>3, <2>4 DEF Recover
<1>q. QED BY <1>1, <1>2, <1>3, <1>4, <1>5, <1>6, <1>7, <1>8 DEF Next

\* As long as only mode switches and recoveries start the streamer, MJPEG capture
\* runs in WebRTC mode only if a recovery task was under way when the streamer was
\* last stopped (stream_manager.rs 404-411, streamer.rs 601-603).
THEOREM CaptureIsStopped ==
    ASSUME Calls \cap {"start", "apply"} = {}
    PROVE  Spec => []NoCaptureBehindWebRTC
<1>1. CaptureInv => NoCaptureBehindWebRTC
  BY DEF CaptureInv, Quiet, NoCaptureBehindWebRTC
<1>2. TypeOK /\ ExclusiveInv /\ CaptureInv /\ [Next]_vars => CaptureInv'
  BY CaptureNext
<1>q. QED
  BY <1>1, <1>2, TypeInit, TypeNext, ExclusiveInit, ExclusiveNext, CaptureInit,
     PTL DEF Spec
====
