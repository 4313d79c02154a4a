---- MODULE BoardProofs ----
(***************************************************************************)
(* Proofs about the parts of the board (MCBoard), for every value of the   *)
(* constants: each part has an inductive invariant, and since only the     *)
(* chosen part steps, each invariant holds in every behaviour of MCSpec.   *)
(***************************************************************************)
EXTENDS MCBoard, SequenceTheorems, FiniteSetTheorems, Integers, TLAPS

-----------------------------------------------------------------------------
\* The ATX controller

\* A press holds a key that has an executor, because a reload waits for it;
\* executors belong to bound keys.
AtxInv ==
    /\ atxSetup \in AtxSetups
    /\ atxReady \subseteq Bound(atxSetup)
    /\ atxLevel \in [AtxLines -> {0, 1}]
    /\ atxPress \in [AtxPresses -> AtxKeys \cup {"none", "over"}]
    /\ atxLeft \in [reloads : Nat, faults : Nat]
    /\ \A r \in AtxPresses : atxPress[r] \in AtxKeys => atxPress[r] \in atxReady
    /\ DownIsPressed
    /\ ConfiguredWorks

\* A line at its resting level is a button that is not pressed.
LEMMA RestIsReleased ==
    ASSUME NEW s \in AtxSetups, NEW k \in Bound(s)
    PROVE  Line(s, k) \in AtxLines /\ Level(s, FALSE) = Rest(Line(s, k))
<1> USE AtxAssumption
<1>1. k \in AtxKeys /\ s[k] # 0
  BY DEF Bound
<1>2. Line(s, k) \in AtxLines
  BY <1>1 DEF Line, AtxLines
<1>3. CASE s.driver = "gpio"
  <2>1. ActiveLow(Line(s, k)) <=> s.low
    BY <1>1, <1>3 DEF ActiveLow, Line
  <2>2. s.low \in BOOLEAN
    BY DEF Bound
  <2> QED
    BY <1>2, <1>3, <2>1, <2>2 DEF Level, GpioLevel, Rest
<1>4. CASE s.driver # "gpio"
  <2>1. ~ActiveLow(Line(s, k))
    BY <1>4 DEF ActiveLow, Line
  <2>2. s.driver \in {"usbrelay", "serial", "none"}
    BY <1>4
  <2> QED
    BY <1>2, <1>4, <2>1, <2>2 DEF Level, UsbRelayLevel, SerialRelayLevel, Rest
<1> QED
  BY <1>3, <1>4

\* The levels of a line are 0 and 1.
LEMMA LevelsAreBits ==
    ASSUME NEW s \in AtxSetups, NEW on \in BOOLEAN
    PROVE  Level(s, on) \in {0, 1}
BY AtxAssumption DEF Level, GpioLevel, UsbRelayLevel, SerialRelayLevel

\* A driver that could be opened has lines, so it can press.
LEMMA OpenableIsBound ==
    ASSUME NEW s \in AtxSetups
    PROVE  Openable(s) = Bound(s) /\ Bound(s) \subseteq AtxKeys
BY DEF Openable, Bound, Shared

\* The buttons are up and nothing is configured yet when the program starts.
LEMMA AtxStarts == AtxInit => AtxInv
<1> SUFFICES ASSUME AtxInit PROVE AtxInv
  OBVIOUS
<1>1. atxReady = Bound(atxSetup)
  BY OpenableIsBound DEF AtxInit
<1>2. \A l \in AtxLines : ~Pressed(l)
  BY DEF AtxInit, Pressed
<1>3. atxLevel \in [AtxLines -> {0, 1}]
  BY DEF AtxInit, Rest
<1>4. atxLeft \in [reloads : Nat, faults : Nat]
  BY AtxAssumption DEF AtxInit
<1>5. atxSetup \in AtxSetups /\ ConfiguredWorks /\ DownIsPressed
  BY <1>1, <1>2 DEF AtxInit, DownIsPressed, ConfiguredWorks
<1>6. /\ atxPress \in [AtxPresses -> AtxKeys \cup {"none", "over"}]
      /\ \A r \in AtxPresses : atxPress[r] \notin AtxKeys
  BY DEF AtxInit, AtxKeys
<1> QED
  BY <1>1, <1>3, <1>4, <1>5, <1>6 DEF AtxInv

\* Every step of the ATX controller keeps its invariant.
LEMMA AtxSteps == AtxInv /\ [AtxNext]_atxVars => AtxInv'
<1> SUFFICES ASSUME AtxInv, [AtxNext]_atxVars PROVE AtxInv'
  OBVIOUS
<1> DEFINE PressOf(r, l) == atxPress[r] \in AtxKeys /\ l = Line(atxSetup, atxPress[r])
<1>0. Bound(atxSetup) \subseteq AtxKeys
  BY DEF Bound
<1>1. ASSUME NEW r \in AtxPresses, NEW k \in AtxKeys, Press(r, k)
      PROVE  AtxInv'
  <2> USE <1>1 DEF Press, Drive
  <2>1. k \in Bound(atxSetup) /\ Line(atxSetup, k) \in AtxLines
    BY RestIsReleased DEF AtxInv
  <2>2. atxLevel' \in [AtxLines -> {0, 1}]
    BY LevelsAreBits DEF AtxInv
  <2>3. DownIsPressed'
    <3> SUFFICES ASSUME NEW l \in AtxLines, Pressed(l)', l \notin atxAdrift'
                 PROVE  \E q \in AtxPresses : PressOf(q, l)'
      BY DEF DownIsPressed, AtxLines
    <3>1. CASE l = Line(atxSetup, k)
      BY <3>1 DEF AtxInv, Line
    <3>2. CASE l # Line(atxSetup, k)
      <4>1. Pressed(l)
        BY <3>2, <2>1 DEF Pressed, AtxInv, Rest, ActiveLow
      <4>2. PICK q \in AtxPresses : PressOf(q, l)
        BY <4>1 DEF DownIsPressed, AtxInv
      <4> QED
        BY <4>2 DEF AtxInv, Line, AtxKeys
    <3> QED
      BY <3>1, <3>2
  <2> QED
    BY <2>2, <2>3 DEF AtxInv, ConfiguredWorks, Bound
<1>2. ASSUME NEW r \in AtxPresses, NEW k \in AtxKeys, PressFails(r, k)
      PROVE  AtxInv'
  <2> USE <1>2 DEF PressFails
  <2>1. k \in Bound(atxSetup) /\ Line(atxSetup, k) \in AtxLines
    BY RestIsReleased DEF AtxInv
  <2>2. atxLevel' \in [AtxLines -> {0, 1}]
    BY LevelsAreBits DEF AtxInv, Drive
  <2>3. DownIsPressed'
    <3> SUFFICES ASSUME NEW l \in AtxLines, Pressed(l)', l \notin atxAdrift'
                 PROVE  \E q \in AtxPresses : PressOf(q, l)'
      BY DEF DownIsPressed, AtxLines
    <3>1. Pressed(l) /\ l \notin atxAdrift
      BY <2>1 DEF Pressed, AtxInv, Drive, Adrift, Rest, ActiveLow
    <3>2. PICK q \in AtxPresses : PressOf(q, l)
      BY <3>1 DEF DownIsPressed, AtxInv
    <3> QED
      BY <3>2 DEF AtxInv, Line, AtxKeys
  <2>4. atxLeft' \in [reloads : Nat, faults : Nat]
    BY DEF AtxInv, AtxFault
  <2> QED
    BY <2>2, <2>3, <2>4 DEF AtxInv, ConfiguredWorks, Bound, AtxKeys
<1>3. ASSUME NEW r \in AtxPresses, Release(r)
      PROVE  AtxInv'
  <2> USE <1>3
  <2> DEFINE k == atxPress[r]
  <2>0. /\ k \in AtxKeys /\ k \in atxReady /\ k \in Bound(atxSetup)
        /\ atxLevel' = [atxLevel EXCEPT ![Line(atxSetup, k)] = Level(atxSetup, FALSE)]
        /\ atxAdrift' = atxAdrift \ {Line(atxSetup, k)}
        /\ atxPress' = [atxPress EXCEPT ![r] = "over"]
        /\ UNCHANGED <<atxSetup, atxReady, atxWhole, atxLeft>>
    BY DEF AtxInv, Release, Drive
  <2>1. Line(atxSetup, k) \in AtxLines /\ Level(atxSetup, FALSE) = Rest(Line(atxSetup, k))
    BY <2>0, RestIsReleased DEF AtxInv
  <2>2. atxLevel' \in [AtxLines -> {0, 1}]
    BY <2>0, LevelsAreBits DEF AtxInv
  <2>3. DownIsPressed'
    <3> SUFFICES ASSUME NEW l \in AtxLines, Pressed(l)', l \notin atxAdrift'
                 PROVE  \E q \in AtxPresses : PressOf(q, l)'
      BY DEF DownIsPressed, AtxLines
    <3>1. l # Line(atxSetup, k) /\ Pressed(l)
      BY <2>0, <2>1 DEF Pressed, AtxInv, Rest, ActiveLow
    <3>2. PICK q \in AtxPresses : PressOf(q, l)
      BY <3>1, <2>0 DEF DownIsPressed, AtxInv
    <3>3. q # r
      BY <3>1, <3>2
    <3> QED
      BY <2>0, <3>2, <3>3 DEF AtxInv, Line, AtxKeys
  <2> QED
    BY <2>0, <2>2, <2>3 DEF AtxInv, ConfiguredWorks, Bound, AtxKeys
<1>4. ASSUME NEW r \in AtxPresses, BrokenOff(r)
      PROVE  AtxInv'
  <2> USE <1>4 DEF BrokenOff, Adrift
  <2>3. DownIsPressed'
    <3> SUFFICES ASSUME NEW l \in AtxLines, Pressed(l)', l \notin atxAdrift'
                 PROVE  \E q \in AtxPresses : PressOf(q, l)'
      BY DEF DownIsPressed, AtxLines
    <3>1. l # Line(atxSetup, atxPress[r]) /\ Pressed(l)
      BY DEF Pressed, AtxInv, Rest, ActiveLow
    <3>2. PICK q \in AtxPresses : PressOf(q, l)
      BY <3>1 DEF DownIsPressed, AtxInv
    <3> QED
      BY <3>1, <3>2 DEF AtxInv, Line, AtxKeys
  <2>4. atxLeft' \in [reloads : Nat, faults : Nat]
    BY DEF AtxInv, AtxFault
  <2> QED
    BY <2>3, <2>4 DEF AtxInv, ConfiguredWorks, Bound, AtxKeys
<1>5. ASSUME NEW s \in AtxSetups, AtxReload(s)
      PROVE  AtxInv'
  <2> USE <1>5 DEF AtxReload
  <2>1. atxReady' \subseteq Bound(s) /\ (atxWhole' => atxReady' = Bound(s))
    BY OpenableIsBound
  <2>2. atxLeft' \in [reloads : Nat, faults : Nat]
    BY DEF AtxInv
  <2>3. \A l \in AtxLines :
          /\ (\E k \in atxReady' : l = Line(s, k)) => atxLevel'[l] = Rest(l)
          /\ ~(\E k \in atxReady' : l = Line(s, k)) =>
               IF atxSetup.driver # "gpio" /\ \E k \in atxReady : l = Line(atxSetup, k)
               THEN atxLevel'[l] = Rest(l) ELSE atxLevel'[l] = atxLevel[l]
    BY <2>1, RestIsReleased DEF Initialised, ShutDown, AtxInv
  <2>4. atxLevel' \in [AtxLines -> {0, 1}]
    BY LevelsAreBits DEF Initialised, ShutDown, AtxInv
  <2>5. DownIsPressed'
    <3> SUFFICES ASSUME NEW l \in AtxLines, Pressed(l)', l \notin atxAdrift'
                 PROVE  FALSE
      BY DEF DownIsPressed, AtxLines
    <3>1. /\ ~\E k \in atxReady' : l = Line(s, k)
          /\ ~(atxSetup.driver # "gpio" /\ \E k \in atxReady : l = Line(atxSetup, k))
          /\ Pressed(l)
      BY <2>3 DEF Pressed, Rest, ActiveLow
    <3>2. l \in atxAdrift
      BY <3>1 DEF AtxInv, DownIsPressed, Quiet
    <3> QED
      BY <3>1, <3>2
  <2> QED
    BY <2>1, <2>2, <2>4, <2>5 DEF AtxInv, ConfiguredWorks, Quiet
<1>6. CASE UNCHANGED atxVars
  BY <1>6 DEF atxVars, AtxInv, DownIsPressed, ConfiguredWorks, Pressed, Bound, Line, AtxLines, Rest, ActiveLow
<1> QED
  BY <1>1, <1>2, <1>3, <1>4, <1>5, <1>6 DEF AtxNext

-----------------------------------------------------------------------------
\* The wake-on-LAN history

\* The table holds, of the addresses it has, the second they were last used.
WolInv ==
    /\ wolNow \in Nat
    /\ wolTable \in [WolMacs -> Nat \cup {-1}]
    /\ wolSent \in [WolMacs -> Nat \cup {-1}]
    /\ \A m \in WolMacs : wolSent[m] <= wolNow /\ (wolTable[m] # -1 => wolTable[m] = wolSent[m])
    /\ HistoryKeepsNewest

\* The addresses used since m was.
Since(m) == {n \in Noted(wolSent) : n # m /\ wolSent[n] >= wolSent[m]}

\* The targets woken since some time are finitely many.
LEMMA SinceFinite ==
    ASSUME NEW m \in WolMacs
    PROVE  IsFiniteSet(Since(m)) /\ Cardinality(Since(m)) \in Nat
BY WolAssumption, FS_Subset, FS_CardinalityType, Since(m) \subseteq WolMacs DEF Since, Noted

\* The history starts empty.
LEMMA WolStarts == WolInit => WolInv
BY DEF WolInit, WolInv, HistoryKeepsNewest

\* A wake or a listing keeps the history in order.
LEMMA WolSteps == WolInv /\ [WolNext]_wolVars => WolInv'
<1> SUFFICES ASSUME WolInv, [WolNext]_wolVars PROVE WolInv'
  OBVIOUS
<1> USE DEF WolInv
<1>1. ASSUME NEW w \in WolMacs, Wake(w)
      PROVE  WolInv'
  <2> USE <1>1 DEF Wake
  <2>1. \A m \in WolMacs : m # w => Since(m) \subseteq Since(m)'
    BY DEF Since, Noted
  <2>2. HistoryKeepsNewest'
    <3> SUFFICES ASSUME NEW m \in WolMacs, wolSent'[m] # -1, wolTable'[m] = -1
                 PROVE  Cardinality(Since(m)') >= WolKept
      BY DEF HistoryKeepsNewest, Since
    <3>1. m # w /\ wolSent[m] # -1 /\ wolTable[m] = -1
      OBVIOUS
    <3>2. Cardinality(Since(m)) >= WolKept
      BY <3>1 DEF HistoryKeepsNewest, Since
    <3>3. Since(m)' \subseteq WolMacs
      BY DEF Since, Noted
    <3>4. /\ IsFiniteSet(Since(m)') /\ Cardinality(Since(m)') \in Nat
          /\ Cardinality(Since(m)) <= Cardinality(Since(m)')
      BY <2>1, <3>1, <3>3, WolAssumption, FS_Subset, FS_CardinalityType
    <3> QED
      BY <3>2, <3>4, SinceFinite, WolAssumption
  <2> QED
    BY <2>2
<1>2. ASSUME Prune
      PROVE  WolInv'
  <2> USE <1>2
  <2>1. PICK keep \in SUBSET Noted(wolTable) :
          /\ Cardinality(keep) = IF Cardinality(Noted(wolTable)) < WolKept
                                 THEN Cardinality(Noted(wolTable)) ELSE WolKept
          /\ NewestWol(keep)
          /\ wolTable' = [m \in WolMacs |-> IF m \in keep THEN wolTable[m] ELSE -1]
    BY DEF Prune
  <2>2. UNCHANGED <<wolNow, wolSent>>
    BY DEF Prune
  <2>3. HistoryKeepsNewest'
    <3> SUFFICES ASSUME NEW m \in WolMacs, wolSent[m] # -1, wolTable'[m] = -1
                 PROVE  Cardinality(Since(m)) >= WolKept
      BY <2>2 DEF HistoryKeepsNewest, Since, Noted
    <3>1. CASE wolTable[m] = -1
      BY <3>1 DEF HistoryKeepsNewest, Since
    <3>2. CASE wolTable[m] # -1
      <4>1. m \in Noted(wolTable) /\ m \notin keep
        BY <2>1, <3>2 DEF Noted
      <4>2. IsFiniteSet(Noted(wolTable)) /\ IsFiniteSet(keep)
        BY WolAssumption, FS_Subset, Noted(wolTable) \subseteq WolMacs DEF Noted
      <4>3. Cardinality(keep) # Cardinality(Noted(wolTable))
        BY <4>1, <4>2, FS_Subset
      <4>4. Cardinality(keep) = WolKept
        BY <2>1, <4>3
      <4>5. keep \subseteq Since(m)
        BY <2>1, <4>1 DEF NewestWol, Since, Noted
      <4> QED
        BY <4>2, <4>4, <4>5, SinceFinite, FS_Subset
    <3> QED
      BY <3>1, <3>2
  <2> QED
    BY <2>1, <2>2, <2>3
<1>3. ASSUME PruneFails \/ WolTick \/ UNCHANGED wolVars
      PROVE  WolInv'
  BY <1>3 DEF PruneFails, WolTick, wolVars, HistoryKeepsNewest, Noted
<1> QED
  BY <1>1, <1>2, <1>3 DEF WolNext

-----------------------------------------------------------------------------
\* The hardware watchdog

WdWaits == {"wait", "undo_wait", "exit_wait"}

WdTypeOK ==
    /\ wdDev \in [armed : BOOLEAN, left : Nat] /\ wdFixed \in BOOLEAN
    /\ wdWorker \in [on : BOOLEAN, timer : Nat, asked : {"no", "mine", "lost", "both"}, fails : Nat]
    /\ wdEntry \in BOOLEAN /\ wdShown \in BOOLEAN /\ wdStored \in BOOLEAN
    /\ wdReq \in [pc : WdWaits \cup {"boot", "idle", "store_on", "undo", "store_off", "gone"}, old : BOOLEAN]

\* How many seconds the keepalives that may still fail take.
WdMargin(fails) == (MaxWdFails - fails) * WdPeriod

\* The worker and the device go together, and there is time for the keepalives
\* that may still fail.
WdFed ==
    /\ wdDev.armed <=> wdWorker.on
    /\ wdShown => wdDev.armed
    /\ wdWorker.on => /\ wdEntry /\ wdWorker.fails <= MaxWdFails
                      /\ wdDev.left > wdWorker.timer + WdMargin(wdWorker.fails)
    /\ ~wdWorker.on => wdDev.left = WdTimeout

\* What is known of the stored and the actual state at each point of a request,
\* as long as nothing was cut short or could not be undone.
WdApplied ==
    wdOdd = {} =>
      /\ wdWorker.asked \in {"no", "mine"}
      /\ wdWorker.asked = "mine" => wdReq.pc \in WdWaits
      /\ wdEntry /\ ~wdWorker.on => wdWorker.asked = "mine"
      /\ wdReq.pc = "boot" => ~wdEntry /\ ~wdWorker.on
      /\ wdReq.pc = "idle" => (wdStored <=> wdWorker.on)
      /\ wdReq.pc = "store_on" => wdWorker.on /\ wdReq.old = wdStored
      /\ wdReq.pc \in {"undo", "undo_wait"} => ~wdStored
      /\ wdReq.pc = "wait" => wdStored /\ wdReq.old /\ wdEntry
      /\ wdReq.pc = "store_off" => ~wdEntry /\ ~wdWorker.on /\ wdReq.old = wdStored

WdInv == WdTypeOK /\ WdFed /\ WdApplied

\* The watchdog has a positive period between two feeds.
LEMMA WdPeriodType == WdPeriod \in Nat \ {0}
BY WdAssumption DEF WdPeriod

\* The feeding period leaves a margin before the timeout.
LEMMA WdMargins ==
    /\ \A f \in 0 .. MaxWdFails : WdMargin(f) \in Nat
    /\ \A f \in 0 .. MaxWdFails : f < MaxWdFails => WdMargin(f) = WdMargin(f + 1) + WdPeriod
    /\ WdTimeout > WdPeriod + WdMargin(0)
<1> USE WdAssumption, WdPeriodType
<1>1. ASSUME NEW f \in 0 .. MaxWdFails PROVE WdMargin(f) \in Nat
  BY DEF WdMargin
<1>2. ASSUME NEW f \in 0 .. MaxWdFails, f < MaxWdFails
      PROVE  WdMargin(f) = WdMargin(f + 1) + WdPeriod
  <2>1. ASSUME NEW a \in Int, NEW b \in Int PROVE a * b = (a - 1) * b + b
    OBVIOUS
  <2> QED
    BY <2>1 DEF WdMargin
<1>3. WdTimeout > WdPeriod + WdMargin(0)
  <2>1. (MaxWdFails + 1) * WdPeriod = MaxWdFails * WdPeriod + WdPeriod
    OBVIOUS
  <2> QED
    BY <2>1 DEF WdMargin
<1> QED
  BY <1>1, <1>2, <1>3

\* The watchdog starts as the device and the store say.
LEMMA WdStarts == WdInit => WdInv
<1> SUFFICES ASSUME WdInit PROVE WdInv
  OBVIOUS
<1> USE WdAssumption DEF WdInit, NoWorker, WdWaits
<1>1. WdTypeOK
  BY DEF WdTypeOK
<1>2. WdFed
  BY DEF WdFed
<1>3. WdApplied
  BY DEF WdApplied
<1> QED
  BY <1>1, <1>2, <1>3 DEF WdInv

\* enable keeps the worker and the device together.
LEMMA WdEnables ==
    ASSUME WdTypeOK, WdFed, EnableOk
    PROVE  /\ wdDev' \in [armed : BOOLEAN, left : Nat] /\ wdEntry' /\ wdShown' \in BOOLEAN
           /\ wdWorker' \in [on : BOOLEAN, timer : Nat, asked : {"no", "mine", "lost", "both"}, fails : Nat]
           /\ WdFed'
           /\ wdEntry => wdWorker' = wdWorker
           /\ ~wdEntry => wdWorker'.on /\ wdWorker'.asked = "no"
<1>1. CASE wdEntry /\ UNCHANGED <<wdDev, wdWorker, wdEntry, wdShown>>
  BY <1>1 DEF WdTypeOK, WdFed
<1>2. CASE ~wdEntry /\ \E ok \in BOOLEAN : (ok \/ MaxWdFails > 0) /\ Armed(ok)
  <2>1. PICK ok \in BOOLEAN : (ok \/ MaxWdFails > 0) /\ Armed(ok)
    BY <1>2
  <2>2. ~wdDev.armed
    BY <1>2 DEF WdFed, WdTypeOK
  <2>3. WdTimeout > WdPeriod + WdMargin(0) /\ (MaxWdFails > 0 => WdTimeout > WdPeriod + WdMargin(1))
    BY WdMargins, WdPeriodType, WdAssumption
  <2> QED
    BY <1>2, <2>1, <2>2, <2>3, WdAssumption, WdPeriodType DEF Armed, WdFed, WdTypeOK
<1> QED
  BY <1>1, <1>2 DEF EnableOk

\* An enable that fails leaves the device as it was.
LEMMA WdEnableFails ==
    ASSUME WdTypeOK, WdFed, EnableFails
    PROVE  /\ UNCHANGED <<wdDev, wdWorker, wdEntry>> /\ ~wdEntry /\ ~wdWorker.on
           /\ wdShown' = FALSE /\ WdFed'
BY DEF WdTypeOK, WdFed, EnableFails

\* A disable leaves the device disarmed or the stored state armed.
LEMMA WdDisables ==
    ASSUME WdInv, NEW from, NEW to \in WdWaits, NEW after, BeginDisable(from, to, after),
           \/ from = "idle" /\ to = "wait" /\ after = "store_off"
           \/ from = "undo" /\ to = "undo_wait" /\ after = "idle"
           \/ from = "idle" /\ to = "exit_wait" /\ after = "gone"
    PROVE  WdInv'
<1> USE DEF BeginDisable, WdWaits
<1>1. CASE wdEntry
  <2>0. PICK a \in {"no", "mine", "both"} :
          /\ wdWorker' = [wdWorker EXCEPT !.asked = a]
          /\ ~wdWorker.on => a = "no"
          /\ wdWorker.on /\ wdWorker.asked = "no" => a = "mine"
    <3> DEFINE a == IF ~wdWorker.on THEN "no" ELSE IF wdWorker.asked = "no" THEN "mine" ELSE "both"
    <3>1. a \in {"no", "mine", "both"}
      OBVIOUS
    <3>2. wdWorker' = [wdWorker EXCEPT !.asked = a]
      BY <1>1
    <3>3. /\ ~wdWorker.on => a = "no"
          /\ wdWorker.on /\ wdWorker.asked = "no" => a = "mine"
      <4>1. wdWorker.on \in BOOLEAN
        BY DEF WdInv, WdTypeOK
      <4>2. CASE ~wdWorker.on
        BY <4>2
      <4>3. CASE wdWorker.on /\ wdWorker.asked = "no"
        BY <4>3
      <4> QED
        BY <4>1, <4>2, <4>3
    <3> HIDE DEF a
    <3> QED
      BY <3>1, <3>2, <3>3
  <2>1. wdWorker' \in [on : BOOLEAN, timer : Nat, asked : {"no", "mine", "lost", "both"}, fails : Nat]
    BY <2>0 DEF WdInv, WdTypeOK
  <2>2. /\ wdWorker'.on = wdWorker.on /\ wdWorker'.timer = wdWorker.timer /\ wdWorker'.fails = wdWorker.fails
        /\ ~wdWorker.on => wdWorker'.asked = "no"
        /\ wdWorker.on /\ wdWorker.asked = "no" => wdWorker'.asked = "mine"
    BY <2>0 DEF WdInv, WdTypeOK
  <2>3. wdReq' = [pc |-> to, old |-> wdStored]
    BY <1>1
  <2>4. WdTypeOK'
    BY <1>1, <2>1, <2>3 DEF WdInv, WdTypeOK
  <2>5. WdFed'
    BY <1>1, <2>2 DEF WdInv, WdFed
  <2>6. WdApplied'
    BY <1>1, <2>2, <2>3, WdAssumption DEF WdInv, WdApplied, WdTypeOK
  <2> QED
    BY <2>4, <2>5, <2>6 DEF WdInv
<1>2. CASE ~wdEntry
  <2>0. wdReq' = [pc |-> after, old |-> wdStored] /\ wdShown' = FALSE /\ UNCHANGED wdWorker
    BY <1>2
  <2>1. WdTypeOK'
    BY <1>2, <2>0 DEF BeginDisable, WdInv, WdTypeOK
  <2>2. WdFed'
    BY <1>2 DEF BeginDisable, WdInv, WdTypeOK, WdFed
  <2>3. WdApplied'
    BY <1>2 DEF BeginDisable, WdInv, WdTypeOK, WdFed, WdApplied
  <2> QED
    BY <2>1, <2>2, <2>3 DEF WdInv
<1> QED
  BY <1>1, <1>2 DEF WdInv, WdTypeOK

\* Every step of the watchdog keeps its invariant.
LEMMA WdSteps == WdInv /\ [WdNext]_wdVars => WdInv'
<1> SUFFICES ASSUME WdInv, [WdNext]_wdVars PROVE WdInv'
  OBVIOUS
<1> USE WdAssumption, WdPeriodType DEF WdWaits
<1>0. WdTypeOK /\ WdFed /\ WdApplied
  BY DEF WdInv
<1>1. CASE BootEnable
  <2>1. CASE ~wdStored /\ UNCHANGED <<wdDev, wdWorker, wdEntry, wdShown, wdOdd>>
    BY <1>1, <2>1 DEF BootEnable, WdInv, WdTypeOK, WdFed, WdApplied, WdIdle
  <2>2. CASE wdStored /\ EnableOk /\ UNCHANGED wdOdd
    BY <1>0, <1>1, <2>2, WdEnables DEF BootEnable, WdInv, WdTypeOK, WdApplied, WdIdle
  <2>3. CASE wdStored /\ EnableFails /\ wdOdd' = wdOdd \cup {"boot"}
    BY <1>0, <1>1, <2>3, WdEnableFails DEF BootEnable, WdInv, WdTypeOK, WdApplied, WdIdle
  <2> QED
    BY <1>1, <2>1, <2>2, <2>3 DEF BootEnable
<1>2. CASE RequestEnable
  <2>1. CASE EnableOk /\ wdReq' = [pc |-> "store_on", old |-> wdStored]
    BY <1>0, <1>2, <2>1, WdEnables DEF RequestEnable, WdInv, WdTypeOK, WdApplied
  <2>2. CASE EnableFails /\ UNCHANGED wdReq
    <3>1. WdTypeOK'
      BY <1>0, <1>2, <2>2, WdEnableFails DEF RequestEnable, WdInv, WdTypeOK
    <3>2. WdFed'
      BY <1>0, <1>2, <2>2, WdEnableFails DEF RequestEnable, WdInv, WdTypeOK, WdFed
    <3>3. WdApplied'
      BY <1>0, <1>2, <2>2, WdEnableFails DEF RequestEnable, WdInv, WdTypeOK, WdFed, WdApplied
    <3> QED
      BY <3>1, <3>2, <3>3 DEF WdInv
  <2> QED
    BY <1>2, <2>1, <2>2 DEF RequestEnable
<1>3. CASE StoreEnabled
  <2>0. /\ wdReq' = WdIdle \/ wdReq' = [wdReq EXCEPT !.pc = "undo"]
        /\ wdStored' = TRUE \/ wdStored' = wdStored
    BY <1>3 DEF StoreEnabled
  <2>4. wdStored' \in BOOLEAN /\ wdShown' \in BOOLEAN /\ wdEntry' \in BOOLEAN /\ wdFixed' \in BOOLEAN
    BY <1>3, <2>0, Zenon DEF StoreEnabled, WdInv, WdTypeOK
  <2>5. wdReq' \in [pc : WdWaits \cup {"boot", "idle", "store_on", "undo", "store_off", "gone"}, old : BOOLEAN]
    <3>1. WdIdle \in [pc : WdWaits \cup {"boot", "idle", "store_on", "undo", "store_off", "gone"}, old : BOOLEAN]
      BY DEF WdIdle
    <3>2. [wdReq EXCEPT !.pc = "undo"] \in [pc : WdWaits \cup {"boot", "idle", "store_on", "undo", "store_off", "gone"}, old : BOOLEAN]
      BY DEF WdInv, WdTypeOK
    <3> QED
      BY <2>0, <3>1, <3>2
  <2>1. WdTypeOK'
    BY <1>3, <2>4, <2>5 DEF StoreEnabled, WdIdle, WdInv, WdTypeOK
  <2>2. WdFed'
    BY <1>3 DEF StoreEnabled, WdIdle, WdInv, WdTypeOK, WdFed
  <2>3. WdApplied'
    BY <1>3 DEF StoreEnabled, WdIdle, WdInv, WdTypeOK, WdFed, WdApplied
  <2> QED
    BY <2>1, <2>2, <2>3 DEF WdInv
<1>4. CASE RequestDisable
  BY <1>4, WdDisables DEF RequestDisable
<1>5. CASE UndoEnable
  BY <1>5, WdDisables DEF UndoEnable
<1>6. CASE CleanupDisable
  BY <1>6, WdDisables DEF CleanupDisable
<1>7. CASE Disabled
  <2>1. /\ wdReq'.pc = CASE wdReq.pc = "wait" -> "store_off" [] wdReq.pc = "undo_wait" -> "idle" [] OTHER -> "gone"
        /\ wdReq'.old = wdReq.old
        /\ wdReq' \in [pc : WdWaits \cup {"boot", "idle", "store_on", "undo", "store_off", "gone"}, old : BOOLEAN]
    BY <1>7 DEF Disabled, WdInv, WdTypeOK
  <2> QED
    BY <1>7, <2>1 DEF Disabled, WdInv, WdTypeOK, WdFed, WdApplied, NoWorker
<1>8. CASE DisableRefused
  BY <1>8 DEF DisableRefused, WdInv, WdTypeOK, WdFed, WdApplied
<1>9. CASE StoreDisabled
  <2>1. CASE wdStored' = FALSE /\ UNCHANGED <<wdDev, wdWorker, wdEntry, wdShown, wdOdd>>
    BY <1>9, <2>1 DEF StoreDisabled, WdInv, WdTypeOK, WdFed, WdApplied, WdIdle
  <2>2. CASE UNCHANGED wdStored /\ ~wdReq.old /\ UNCHANGED <<wdDev, wdWorker, wdEntry, wdShown, wdOdd>>
    BY <1>9, <2>2 DEF StoreDisabled, WdInv, WdTypeOK, WdFed, WdApplied, WdIdle
  <2>3. CASE UNCHANGED wdStored /\ wdReq.old /\ EnableOk /\ UNCHANGED wdOdd
    BY <1>0, <1>9, <2>3, WdEnables DEF StoreDisabled, WdInv, WdTypeOK, WdApplied, WdIdle
  <2>4. CASE UNCHANGED wdStored /\ wdReq.old /\ EnableFails /\ wdOdd' = wdOdd \cup {"rollback"}
    BY <1>0, <1>9, <2>4, WdEnableFails DEF StoreDisabled, WdInv, WdTypeOK, WdApplied, WdIdle
  <2> QED
    BY <1>9, <2>1, <2>2, <2>3, <2>4 DEF StoreDisabled
<1>10. CASE HandlerCut
  BY <1>10 DEF HandlerCut, WdInv, WdTypeOK, WdFed, WdApplied, WdIdle
<1>11. CASE KeepAlive
  <2>1. CASE /\ wdDev' = [wdDev EXCEPT !.left = WdTimeout] /\ wdShown' = TRUE
             /\ wdWorker' = [wdWorker EXCEPT !.timer = WdPeriod, !.fails = 0]
    <3>1. WdTypeOK'
      BY <1>11, <2>1, WdMargins DEF KeepAlive, WdInv, WdTypeOK
    <3>2. WdFed'
      BY <1>11, <2>1, WdMargins DEF KeepAlive, WdInv, WdTypeOK, WdFed
    <3>3. WdApplied'
      BY <1>11, <2>1, WdMargins DEF KeepAlive, WdInv, WdTypeOK, WdFed, WdApplied
    <3> QED
      BY <3>1, <3>2, <3>3 DEF WdInv
  <2>2. CASE /\ wdWorker.fails < MaxWdFails
             /\ wdWorker' = [wdWorker EXCEPT !.timer = WdPeriod, !.fails = @ + 1]
             /\ wdShown' = FALSE /\ UNCHANGED wdDev
    <3>1. wdWorker.fails \in 0 .. MaxWdFails
      BY <2>2 DEF WdInv, WdTypeOK
    <3>2. WdMargin(wdWorker.fails) = WdMargin(wdWorker.fails + 1) + WdPeriod
      BY <2>2, <3>1, WdMargins
    <3> QED
      <4>0. wdWorker' \in [on : BOOLEAN, timer : Nat, asked : {"no", "mine", "lost", "both"}, fails : Nat]
        <5>1. wdWorker.fails + 1 \in Nat /\ WdPeriod \in Nat
          BY DEF WdInv, WdTypeOK
        <5> QED
          BY <2>2, <5>1 DEF WdInv, WdTypeOK
      <4>1. WdTypeOK'
        BY <1>11, <2>2, <4>0 DEF KeepAlive, WdInv, WdTypeOK
      <4>2. WdFed'
        BY <1>11, <2>2, <3>1, <3>2, WdMargins DEF KeepAlive, WdInv, WdTypeOK, WdFed
      <4>3. WdApplied'
        BY <1>11, <2>2, <3>1, <3>2, WdMargins DEF KeepAlive, WdInv, WdTypeOK, WdFed, WdApplied
      <4> QED
        BY <4>1, <4>2, <4>3 DEF WdInv
  <2> QED
    BY <1>11, <2>1, <2>2 DEF KeepAlive
<1>12. CASE WorkerAsked
  <2>0. wdWorker' \in [on : BOOLEAN, timer : Nat, asked : {"no", "mine", "lost", "both"}, fails : Nat]
    <3>1. ASSUME NEW a \in {"no", "mine"}
          PROVE  /\ [NoWorker EXCEPT !.asked = a] \in [on : BOOLEAN, timer : Nat, asked : {"no", "mine", "lost", "both"}, fails : Nat]
                 /\ [wdWorker EXCEPT !.asked = a] \in [on : BOOLEAN, timer : Nat, asked : {"no", "mine", "lost", "both"}, fails : Nat]
      BY DEF NoWorker, WdInv, WdTypeOK
    <3> QED
      BY <1>12, <3>1 DEF WorkerAsked
  <2>4. wdDev' \in [armed : BOOLEAN, left : Nat]
    <3>1. [armed |-> FALSE, left |-> WdTimeout] \in [armed : BOOLEAN, left : Nat]
      OBVIOUS
    <3> QED
      BY <1>12, <3>1 DEF WorkerAsked, WdInv, WdTypeOK
  <2>5. wdShown' \in BOOLEAN
    BY <1>12 DEF WorkerAsked
  <2>1. WdTypeOK'
    BY <1>12, <2>0, <2>4, <2>5 DEF WorkerAsked, WdInv, WdTypeOK
  <2>2. WdFed'
    BY <1>12 DEF WorkerAsked, NoWorker, WdInv, WdTypeOK, WdFed
  <2>3. WdApplied'
    BY <1>12 DEF WorkerAsked, NoWorker, WdInv, WdTypeOK, WdFed, WdApplied
  <2> QED
    BY <2>1, <2>2, <2>3 DEF WdInv
<1>13. CASE WdSecond
  BY <1>13, WdMargins DEF WdSecond, WdInv, WdTypeOK, WdFed, WdApplied
<1>14. CASE UNCHANGED wdVars
  BY <1>14 DEF wdVars, WdInv, WdTypeOK, WdFed, WdApplied
<1> QED
  BY <1>1, <1>2, <1>3, <1>4, <1>5, <1>6, <1>7, <1>8, <1>9, <1>10, <1>11, <1>12, <1>13, <1>14 DEF WdNext

\* The invariant gives what is promised of the watchdog.
LEMMA WdPromised == WdInv => BoardStaysUp /\ ArmedIsFed /\ StoredIsApplied
<1> SUFFICES ASSUME WdInv PROVE BoardStaysUp /\ ArmedIsFed /\ StoredIsApplied
  OBVIOUS
<1>1. wdDev.left > 0
  <2>1. CASE wdWorker.on
    BY <2>1, WdMargins, WdAssumption DEF WdInv, WdTypeOK, WdFed
  <2>2. CASE ~wdWorker.on
    BY <2>2, WdAssumption DEF WdInv, WdFed
  <2> QED
    BY <2>1, <2>2 DEF WdInv, WdTypeOK
<1> QED
  BY <1>1 DEF WdInv, WdFed, WdApplied, BoardStaysUp, ArmedIsFed, StoredIsApplied

-----------------------------------------------------------------------------
\* The life of the process

PlParts == {BootOrder[i] : i \in 1..12}

\* What cleanup has taken down when it comes to step n.
Stopped(n) ==
    LET listed == {StopOrder[i] : i \in 1..(n - 1)}
    IN  listed \cup {p \in {"streamer"} : "streams" \in listed}

PlMainOK ==
    /\ plMain \in [pc : {"boot", "serve", "cleanup", "exec", "gone"}, step : 1..12, act : {"-", "self", "path", "exit"}]
    /\ plMain.pc = "cleanup" => plMain.step \in 1..11
    /\ plChan \in Seq({"self", "path"})

PlTakenDown ==
    /\ plUp \subseteq PlParts
    /\ plMain.pc = "cleanup" => plUp \cap Stopped(plMain.step) = {}
    /\ plMain.pc = "exec" => plUp = {}

PlUpgradeOK ==
    /\ plUpd \in [pc : {"idle", "manifest", "download", "copy", "copying", "rename", "restart"}, file : {"none", "good"}]
    /\ plUpd.pc \in {"copy", "copying"} => plUpd.file = "good"
    /\ plUpd.pc = "rename" => plStage = "good"
    /\ plUpd.pc = "restart" => plDisk = 2
    /\ plLinked \in BOOLEAN
    /\ ~plLinked => plDisk = 2
    /\ BinaryIsWhole
    /\ RestartingMeansInstalled

PlInv == PlMainOK /\ PlTakenDown /\ PlUpgradeOK

\* The parts of the process in the order they are taken down.
LEMMA BootParts ==
    /\ Len(BootOrder) = 12 /\ Len(StopOrder) = 11
    /\ PlParts = {"streamer", "otg", "hid", "msd", "atx", "audio", "streams", "watchdog",
                  "rustdesk", "vnc", "rtsp", "extensions"}
<1>1. Len(BootOrder) = 12 /\ Len(StopOrder) = 11
  BY DEF BootOrder, StopOrder
<1>2. PlParts = {BootOrder[1], BootOrder[2], BootOrder[3], BootOrder[4], BootOrder[5], BootOrder[6],
                 BootOrder[7], BootOrder[8], BootOrder[9], BootOrder[10], BootOrder[11], BootOrder[12]}
  BY DEF PlParts
<1> QED
  BY <1>1, <1>2 DEF BootOrder

\* One step of cleanup adds the part it stops.
LEMMA StoppedGrows ==
    ASSUME NEW n \in 1..11
    PROVE  Stopped(n + 1) = Stopped(n) \cup (IF StopOrder[n] = "streams" THEN {"streams", "streamer"} ELSE {StopOrder[n]})
<1>1. {StopOrder[i] : i \in 1..((n + 1) - 1)} = {StopOrder[i] : i \in 1..(n - 1)} \cup {StopOrder[n]}
  OBVIOUS
<1> QED
  BY <1>1 DEF Stopped

\* Nothing is stopped when the shutdown begins.
LEMMA NothingStopped == Stopped(1) = {}
<1>1. {StopOrder[i] : i \in 1..(1 - 1)} = {}
  OBVIOUS
<1> QED
  BY <1>1 DEF Stopped

\* Everything is stopped when the shutdown ends.
LEMMA AllStopped == PlParts \subseteq Stopped(12)
<1>1. {StopOrder[1], StopOrder[2], StopOrder[3], StopOrder[4], StopOrder[5], StopOrder[6],
       StopOrder[7], StopOrder[8], StopOrder[9], StopOrder[10], StopOrder[11]} \subseteq Stopped(12)
  BY DEF Stopped
<1>2. StopOrder[5] = "streams"
  BY DEF StopOrder
<1>3. "streamer" \in Stopped(12)
  <2>1. StopOrder[5] \in {StopOrder[i] : i \in 1..(12 - 1)}
    OBVIOUS
  <2> QED
    BY <1>2, <2>1 DEF Stopped
<1> QED
  BY <1>1, <1>3, BootParts DEF StopOrder

\* The order of cleanup respects who calls whom: what is called is still there
\* while its caller is.
LEMMA StopOrderIsRight ==
    ASSUME NEW n \in 1..11, NEW u \in Uses, u[2] \in Stopped(n)
    PROVE  u[1] \in Stopped(n)
<1> DEFINE L == {StopOrder[i] : i \in 1..(n - 1)}
<1>1. /\ StopOrder[1] = "extensions" /\ StopOrder[2] = "rustdesk" /\ StopOrder[3] = "vnc"
      /\ StopOrder[4] = "rtsp" /\ StopOrder[5] = "streams" /\ StopOrder[6] = "hid"
      /\ StopOrder[7] = "msd" /\ StopOrder[8] = "otg" /\ StopOrder[9] = "atx"
      /\ StopOrder[10] = "audio" /\ StopOrder[11] = "watchdog"
  BY DEF StopOrder
<1>2. \A i \in 1..11 : StopOrder[i] \in L => i < n
  <2> SUFFICES ASSUME NEW i \in 1..11, NEW j \in 1..(n - 1), StopOrder[i] = StopOrder[j]
               PROVE  i < n
    OBVIOUS
  <2>1. i = j
    <3>1. /\ i \in {1,2,3,4,5,6,7,8,9,10,11}
          /\ j \in {1,2,3,4,5,6,7,8,9,10,11}
      OBVIOUS
    <3> QED
      BY <3>1, <1>1
  <2> QED
    BY <2>1
<1>3. \A i \in 1..11 : i < n => StopOrder[i] \in L
  OBVIOUS
<1>4. \A p : p \in Stopped(n) <=> p \in L \/ (p = "streamer" /\ "streams" \in L)
  BY DEF Stopped
<1>5. "streamer" \notin L
  BY <1>1
<1> HIDE DEF L
<1>6. u \in {<<"hid", "otg">>, <<"msd", "otg">>, <<"streams", "streamer">>, <<"streams", "hid">>,
         <<"streams", "audio">>, <<"rustdesk", "streams">>, <<"rustdesk", "hid">>, <<"rustdesk", "audio">>,
         <<"vnc", "streams">>, <<"vnc", "hid">>, <<"rtsp", "streams">>}
  BY DEF Uses
<1> QED
  BY <1>1, <1>2, <1>3, <1>4, <1>5, <1>6

\* The process starts with a whole binary and all of its parts.
LEMMA PlStarts == PlInit => PlInv
BY BootParts DEF PlInit, PlInv, PlMainOK, PlTakenDown, PlUpgradeOK, NoUpgrade, BinaryIsWhole, RestartingMeansInstalled

\* Every step of the process, its update and its shutdown keeps the invariant.
LEMMA PlSteps == PlInv /\ [PlNext]_plVars => PlInv'
<1> SUFFICES ASSUME PlInv, [PlNext]_plVars PROVE PlInv'
  OBVIOUS
<1>1. CASE BootPart
  <2>0. ASSUME NEW m \in [pc : {"boot", "serve", "cleanup", "exec", "gone"}, step : 1..12, act : {"-", "self", "path", "exit"}]
        PROVE  [m EXCEPT !.pc = "serve", !.step = 1]
                  \in [pc : {"boot", "serve", "cleanup", "exec", "gone"}, step : 1..12, act : {"-", "self", "path", "exit"}]
    <3>1. 1 \in 1..12
      OBVIOUS
    <3> QED
      BY <3>1, Zenon
  <2> USE <1>1 DEF BootPart, plFiles
  <2>1. PlMainOK'
    <3>1. plMain \in [pc : {"boot", "serve", "cleanup", "exec", "gone"}, step : 1..12, act : {"-", "self", "path", "exit"}]
      BY DEF PlInv, PlMainOK
    <3>2. [plMain EXCEPT !.pc = "serve", !.step = 1]
             \in [pc : {"boot", "serve", "cleanup", "exec", "gone"}, step : 1..12, act : {"-", "self", "path", "exit"}]
      BY <3>1, <2>0
    <3>3. plMain'.pc # "cleanup"
      BY <3>1
    <3>4. CASE plMain.step = 12
      BY <3>2, <3>3, <3>4, BootParts DEF PlInv, PlMainOK
    <3>5. CASE plMain.step # 12
      <4>1. plMain.step + 1 \in 1..12
        BY <3>1, <3>5
      <4>2. plMain' = [plMain EXCEPT !.step = plMain.step + 1]
        BY <3>5, BootParts
      <4> QED
        BY <3>1, <3>3, <4>1, <4>2 DEF PlInv, PlMainOK
    <3> QED
      BY <3>4, <3>5
  <2>2. BootOrder[plMain.step] \in PlParts
    BY DEF PlInv, PlMainOK, PlParts
  <2>3. PlTakenDown'
    BY <2>2, BootParts DEF PlInv, PlMainOK, PlTakenDown
  <2>4. PlUpgradeOK'
    BY DEF PlInv, PlUpgradeOK, BinaryIsWhole, RestartingMeansInstalled
  <2> QED
    BY <2>1, <2>3, <2>4 DEF PlInv
<1>2. CASE BindFails
  BY <1>2 DEF BindFails, plFiles, PlInv, PlMainOK, PlTakenDown, PlUpgradeOK, BinaryIsWhole, RestartingMeansInstalled
<1>3. CASE Shutdown
  <2> USE <1>3 DEF Shutdown, plFiles
  <2>1. PlMainOK'
    BY DEF PlInv, PlMainOK
  <2>2. PlTakenDown'
    BY NothingStopped DEF PlInv, PlMainOK, PlTakenDown
  <2>3. PlUpgradeOK'
    BY DEF PlInv, PlUpgradeOK, BinaryIsWhole, RestartingMeansInstalled
  <2> QED
    BY <2>1, <2>2, <2>3 DEF PlInv
<1>4. CASE StopPart
  <2> USE <1>4 DEF StopPart, plFiles
  <2>1. PlMainOK'
    BY BootParts DEF PlInv, PlMainOK
  <2>2. plMain.step \in 1..11 /\ plUp \subseteq PlParts /\ plUp \cap Stopped(plMain.step) = {}
    BY DEF PlInv, PlMainOK, PlTakenDown
  <2>3. plUp' \cap Stopped(plMain.step + 1) = {} /\ plUp' \subseteq PlParts
    BY <2>2, StoppedGrows
  <2>4. PlTakenDown'
    <3>1. CASE plMain.step < 11
      BY <2>2, <2>3, <3>1, BootParts DEF PlInv, PlMainOK, PlTakenDown
    <3>2. CASE plMain.step = 11
      <4>1. plUp' = {}
        BY <2>3, <3>2, AllStopped
      <4> QED
        BY <4>1, <3>2, BootParts DEF PlInv, PlMainOK, PlTakenDown
    <3> QED
      BY <2>2, <3>1, <3>2
  <2>5. PlUpgradeOK'
    BY DEF PlInv, PlUpgradeOK, BinaryIsWhole, RestartingMeansInstalled
  <2> QED
    BY <2>1, <2>4, <2>5 DEF PlInv
<1>5. CASE Restart
  <2>1. CASE plMain' = [plMain EXCEPT !.pc = "gone"] /\ UNCHANGED <<plUp, plVer, plLinked, plUpd, plPhase, plChan>> /\ UNCHANGED plFiles
    BY <1>5, <2>1 DEF plFiles, PlInv, PlMainOK, PlTakenDown, PlUpgradeOK, BinaryIsWhole, RestartingMeansInstalled
  <2>2. CASE Fresh(plDisk) /\ UNCHANGED plFiles
    BY <2>2 DEF Fresh, NoUpgrade, plFiles, PlInv, PlMainOK, PlTakenDown, PlUpgradeOK, BinaryIsWhole, RestartingMeansInstalled
  <2> QED
    BY <1>5, <2>1, <2>2 DEF Restart
<1>6. CASE StartedAgain
  BY <1>6 DEF StartedAgain, Fresh, NoUpgrade, plFiles, PlInv, PlMainOK, PlTakenDown, PlUpgradeOK, BinaryIsWhole, RestartingMeansInstalled
<1>7. CASE SystemRestart
  BY <1>7 DEF SystemRestart, plFiles, PlInv, PlMainOK, PlTakenDown, PlUpgradeOK, BinaryIsWhole, RestartingMeansInstalled
<1>8. CASE StartUpgrade \/ CheckManifest \/ DownloadAndVerify \/ CopyStage \/ CopyDone \/ RenameBinary
  <2> USE DEF UpdGoes, UpdFails, NoUpgrade, plFiles
  <2>1. PlMainOK' /\ PlTakenDown'
    BY <1>8 DEF StartUpgrade, CheckManifest, DownloadAndVerify, CopyStage, CopyDone, RenameBinary, PlInv, PlMainOK, PlTakenDown
  <2>2. ASSUME StartUpgrade PROVE PlUpgradeOK'
    BY <2>2 DEF StartUpgrade, PlInv, PlUpgradeOK, BinaryIsWhole, RestartingMeansInstalled
  <2>3. ASSUME CheckManifest PROVE PlUpgradeOK'
    BY <2>3 DEF CheckManifest, PlInv, PlUpgradeOK, BinaryIsWhole, RestartingMeansInstalled
  <2>4. ASSUME DownloadAndVerify PROVE PlUpgradeOK'
    BY <2>4 DEF DownloadAndVerify, PlInv, PlUpgradeOK, BinaryIsWhole, RestartingMeansInstalled
  <2>5. ASSUME CopyStage PROVE PlUpgradeOK'
    BY <2>5 DEF CopyStage, PlInv, PlUpgradeOK, BinaryIsWhole, RestartingMeansInstalled
  <2>6. ASSUME CopyDone PROVE PlUpgradeOK'
    BY <2>6 DEF CopyDone, PlInv, PlUpgradeOK, BinaryIsWhole, RestartingMeansInstalled
  <2>7. ASSUME RenameBinary PROVE PlUpgradeOK'
    <3>1. CASE UpdFails /\ UNCHANGED <<plFiles, plLinked>>
      BY <3>1 DEF PlInv, PlUpgradeOK, BinaryIsWhole, RestartingMeansInstalled
    <3>2. CASE ~(UpdFails /\ UNCHANGED <<plFiles, plLinked>>)
      <4>1. plDisk' = 2 /\ ~plLinked' /\ plUpd' = [plUpd EXCEPT !.pc = "restart"] /\ plLinked' = FALSE
        BY <2>7, <3>2 DEF RenameBinary, Installed, PlInv, PlUpgradeOK
      <4> QED
        BY <4>1 DEF PlInv, PlUpgradeOK, BinaryIsWhole, RestartingMeansInstalled
    <3> QED
      BY <3>1, <3>2
  <2> QED
    BY <1>8, <2>1, <2>2, <2>3, <2>4, <2>5, <2>6, <2>7 DEF PlInv
<1>9. CASE RequestRestart
  BY <1>9 DEF RequestRestart, NoUpgrade, plFiles, PlInv, PlMainOK, PlTakenDown, PlUpgradeOK, BinaryIsWhole, RestartingMeansInstalled
<1>10. CASE UNCHANGED plVars
  BY <1>10 DEF plVars, PlInv, PlMainOK, PlTakenDown, PlUpgradeOK, BinaryIsWhole, RestartingMeansInstalled
<1> QED
  BY <1>1, <1>2, <1>3, <1>4, <1>5, <1>6, <1>7, <1>8, <1>9, <1>10 DEF PlNext

\* The invariant gives what is promised of the life of the process.
LEMMA PlPromised == PlInv => BinaryIsWhole /\ ProvidersOutliveUsers /\ RestartingMeansInstalled
<1> SUFFICES ASSUME PlInv PROVE ProvidersOutliveUsers
  BY DEF PlInv, PlUpgradeOK
<1>1. ASSUME plMain.pc = "cleanup", NEW u \in Uses, u[1] \in plUp
      PROVE  u[2] \notin Stopped(plMain.step)
  BY <1>1, StopOrderIsRight DEF PlInv, PlMainOK, PlTakenDown
<1>2. plMain.pc = "exec" => plUp = {}
  BY DEF PlInv, PlTakenDown
<1> QED
  BY <1>1, <1>2 DEF ProvidersOutliveUsers, Stopped

-----------------------------------------------------------------------------
\* The input queue

HidEvents == {e \in [type : {"down", "up", "move", "reset"}, key : HidKeys \cup {NoEvent}, move : Nat] :
                e.type \in {"down", "up"} => e.key \in HidKeys}
KeyTables == [slots : [HidKeys -> Nat], free : Nat]

HidQueueTypes ==
    /\ hidQueue \in Seq(HidEvents) /\ hidWaiting \in Seq(HidEvents)
    /\ Len(hidQueue) <= HidCapacity
    /\ moved \in Nat /\ reached \in 0..moved /\ pendingMove \in 0..moved /\ mover \in 0..moved
    /\ held \subseteq HidKeys /\ host \subseteq HidKeys

HidFlags ==
    /\ pendingFlag \in BOOLEAN /\ available \in BOOLEAN
    /\ eventGap \in BOOLEAN /\ reportGap \in BOOLEAN /\ lateStore \in BOOLEAN

HidWorkerTypes ==
    /\ hidWorker \in [pc : {"off", "recv", "event", "write", "flag", "move"}, ev : HidEvents,
                      to : 0..MaxBackends, report : KeyTables]
    /\ hidWorker.pc = "move" => hidWorker.ev.type = "move"
    /\ hidWorker.pc = "write" => hidWorker.to # 0

HidBackendTypes ==
    /\ backend \in 0..MaxBackends
    /\ backends \in [Backends -> [init : BOOLEAN, made : BOOLEAN, keys : KeyTables]]
    /\ backendType \in BackendKinds
    /\ monitors \in [Backends -> [pc : {"off", "wait", "store"}, init : BOOLEAN, aborted : BOOLEAN]]
    /\ reloading \in [pc : {"idle", "take", "zero", "create", "sync"},
                      op : {"init", "reload", "prepare", "shutdown", "none"}, kind : BackendKinds]

\* Backends are numbered in the order they were made; the one in place was
\* opened, and there is none while it is replaced.
HidMade ==
    /\ \E n \in 0..MaxBackends : backend <= n /\ hidWorker.to <= n /\ \A b \in Backends : (backends[b].made <=> b <= n)
    /\ backend # 0 => backends[backend].init
    /\ reloading.pc \in {"zero", "create"} => backend = 0
    /\ reloading.pc = "sync" => backend # 0

\* The keys of the backend in place, and with the event the worker has in hand.
KeysNow == IF backend = 0 THEN {} ELSE KeysIn(backends[backend].keys)
KeysInHand == IF hidWorker.pc = "event" THEN Holding(KeysNow, hidWorker.ev) ELSE KeysNow

\* The clients hold what the events under way will make of the keys of the
\* backend, and the host has what the backend last wrote.
HidFlow == ~eventGap => held = HeldAfter(KeysInHand, hidQueue \o hidWaiting)
HidHost ==
    /\ ~reportGap /\ hidWorker.pc # "write" /\ reloading.pc # "zero" => host = KeysNow
    /\ hidWorker.pc = "write" /\ hidWorker.to = backend => hidWorker.report = backends[backend].keys

\* A runtime worker that was not aborted belongs to the backend in place; while
\* a backend is replaced nobody has published that there is one.
HidShown ==
    /\ \A b \in Backends : monitors[b].pc # "off" /\ ~monitors[b].aborted => reloading.pc = "idle" /\ backend = b
    /\ \A b \in Backends : monitors[b].pc = "store" /\ ~monitors[b].aborted => monitors[b].init
    /\ reloading.pc \in {"take", "zero", "create"} /\ reloading.op \in {"reload", "prepare"} /\ ~lateStore => ~available
    /\ reloading.pc # "idle" =>
          reloading.op \in {"reload", "prepare", "shutdown"} \/ (reloading.op = "init" /\ reloading.kind = "otg")
    /\ AvailabilityAgrees

\* A sender that found the queue full has the newest move.
HidMoves ==
    /\ mover # 0 => mover = moved
    /\ \A e \in ToSet(hidQueue) \cup ToSet(hidWaiting) : e.move <= moved
    /\ hidWorker.ev.move <= moved
    /\ \/ moved \in {reached, mover, pendingMove}
       \/ hidWorker.pc \in {"event", "move"} /\ hidWorker.ev.type = "move" /\ hidWorker.ev.move = moved
       \/ \E e \in ToSet(hidQueue) : e.type = "move" /\ e.move = moved

HidInv ==
    /\ HidQueueTypes /\ HidFlags /\ HidWorkerTypes /\ HidBackendTypes
    /\ HidMade /\ HidFlow /\ HidHost /\ HidShown /\ HidMoves

-----------------------------------------------------------------------------

\* What an event of the queue looks like.
LEMMA EventsAre ==
    /\ Reset \in HidEvents
    /\ \A k \in HidKeys : Down(k) \in HidEvents /\ Up(k) \in HidEvents
    /\ \A n \in Nat : Move(n) \in HidEvents
BY DEF Reset, Down, Up, Move, HidEvents

\* The key table of the backend keeps its shape when a key comes or goes.
LEMMA KeyTablesAre ==
    /\ NoKeys \in KeyTables /\ KeysIn(NoKeys) = {}
    /\ \A s \in KeyTables, e \in HidEvents : KeyboardState(s, e) \in KeyTables
<1>1. NoKeys \in KeyTables
  BY HidAssumption DEF NoKeys, KeyTables
<1>2. KeysIn(NoKeys) = {}
  BY DEF NoKeys, KeysIn
<1>3. ASSUME NEW s \in KeyTables, NEW e \in HidEvents
      PROVE  KeyboardState(s, e) \in KeyTables
  <2>1. s.slots \in [HidKeys -> Nat] /\ s.free \in Nat
    BY DEF KeyTables
  <2>2. ASSUME NEW k \in HidKeys PROVE AddKey(s, k) \in KeyTables
    <3>1. [s.slots EXCEPT ![k] = @ + 1] \in [HidKeys -> Nat]
      BY <2>1
    <3>2. s.free # 0 => s.free - 1 \in Nat
      BY <2>1
    <3> QED
      BY <3>1, <3>2 DEF AddKey, KeyTables
  <2>3. ASSUME NEW k \in HidKeys PROVE RemoveKey(s, k) \in KeyTables
    <3>1. [s.slots EXCEPT ![k] = 0] \in [HidKeys -> Nat]
      BY <2>1
    <3>2. s.free + s.slots[k] \in Nat
      BY <2>1
    <3> QED
      BY <3>1, <3>2 DEF RemoveKey, KeyTables
  <2>4. e.type \in {"down", "up"} => e.key \in HidKeys
    BY DEF HidEvents
  <2> QED
    BY <1>1, <2>2, <2>3, <2>4 DEF KeyboardState
<1> QED
  BY <1>1, <1>2, <1>3

\* The backend's copy of the keyboard takes an event as the clients mean it,
\* unless there is no free slot for a key.
LEMMA KeyboardFollows ==
    ASSUME NEW s \in KeyTables, NEW e \in HidEvents, ~(e.type = "down" /\ KeyboardState(s, e) = s)
    PROVE  KeysIn(KeyboardState(s, e)) = Holding(KeysIn(s), e)
<1>1. s.slots \in [HidKeys -> Nat] /\ s.free \in Nat
  BY DEF KeyTables
<1>2. e.type \in {"down", "up"} => e.key \in HidKeys
  BY DEF HidEvents
<1>3. e.type \in {"down", "up", "move", "reset"}
  BY DEF HidEvents
<1>4. CASE e.type = "down"
  <2>1. KeyboardState(s, e) = AddKey(s, e.key)
    BY <1>4 DEF KeyboardState
  <2>2. s.free # 0
    BY <1>4, <2>1 DEF AddKey
  <2>3. KeysIn(AddKey(s, e.key)) = KeysIn(s) \cup {e.key}
    BY <1>1, <1>2, <1>4, <2>2 DEF AddKey, KeysIn
  <2> QED
    BY <1>4, <2>1, <2>3 DEF Holding
<1>5. CASE e.type = "up"
  <2>1. KeyboardState(s, e) = RemoveKey(s, e.key)
    BY <1>5 DEF KeyboardState
  <2>2. KeysIn(RemoveKey(s, e.key)) = KeysIn(s) \ {e.key}
    BY <1>1, <1>2, <1>5 DEF RemoveKey, KeysIn
  <2> QED
    BY <1>5, <2>1, <2>2 DEF Holding
<1>6. CASE e.type = "reset"
  BY <1>6, KeyTablesAre DEF KeyboardState, Holding
<1>7. CASE e.type = "move"
  BY <1>7 DEF KeyboardState, Holding
<1> QED
  BY <1>3, <1>4, <1>5, <1>6, <1>7

\* No event leaves the keys as they are.
LEMMA AfterNothing ==
    ASSUME NEW K \in SUBSET HidKeys
    PROVE  HeldAfter(K, << >>) = K
BY DEF HeldAfter

\* One more event at the end acts on what the events before it left.
LEMMA AfterOneMore ==
    ASSUME NEW K \in SUBSET HidKeys, NEW q \in Seq(HidEvents), NEW e \in HidEvents
    PROVE  HeldAfter(K, Append(q, e)) = Holding(HeldAfter(K, q), e)
<1> DEFINE a == Append(q, e)
<1>1. /\ DOMAIN q = 1..Len(q) /\ DOMAIN a = 1..(Len(q) + 1) /\ Len(q) \in Nat
      /\ a[Len(q) + 1] = e /\ \A i \in 1..Len(q) : a[i] = q[i]
  OBVIOUS
<1>2. e.type \in {"down", "up", "move", "reset"} /\ (e.type \in {"down", "up"} => e.key \in HidKeys)
  BY DEF HidEvents
<1> HIDE DEF a
<1>3. ASSUME NEW k \in HidKeys, About(e, k)
      PROVE  k \in HeldAfter(K, a) <=> e.type = "down" /\ e.key = k
  <2>1. Len(q) + 1 \in DOMAIN a
    BY <1>1
  <2>2. \A i \in DOMAIN a : i # Len(q) + 1 => Len(q) + 1 > i
    BY <1>1
  <2>3. \A j \in DOMAIN a : ~(j > Len(q) + 1)
    BY <1>1
  <2> QED
    BY <1>1, <1>3, <2>1, <2>2, <2>3 DEF HeldAfter
<1>4. ASSUME NEW k \in HidKeys, ~About(e, k)
      PROVE  k \in HeldAfter(K, a) <=> k \in HeldAfter(K, q)
  <2>1. (\A i \in DOMAIN a : ~About(a[i], k)) <=> (\A i \in DOMAIN q : ~About(q[i], k))
    BY <1>1, <1>4
  <2>2. ~(e.type = "down" /\ e.key = k)
    BY <1>4 DEF About
  <2>3. ASSUME NEW i \in 1..Len(q)
        PROVE  (\A j \in DOMAIN a : j > i => ~About(a[j], k)) <=> (\A j \in DOMAIN q : j > i => ~About(q[j], k))
    BY <1>1, <1>4
  <2>4. (\E i \in DOMAIN a : /\ a[i].type = "down" /\ a[i].key = k
                             /\ \A j \in DOMAIN a : j > i => ~About(a[j], k))
        <=> (\E i \in DOMAIN q : /\ q[i].type = "down" /\ q[i].key = k
                             /\ \A j \in DOMAIN q : j > i => ~About(q[j], k))
    BY <1>1, <2>2, <2>3
  <2> QED
    BY <2>1, <2>4 DEF HeldAfter
<1>5. HeldAfter(K, a) \subseteq HidKeys /\ HeldAfter(K, q) \subseteq HidKeys
  BY DEF HeldAfter
<1>6. \A k \in HidKeys : k \in Holding(HeldAfter(K, q), e) <=>
           IF About(e, k) THEN e.type = "down" /\ e.key = k ELSE k \in HeldAfter(K, q)
  BY <1>2 DEF Holding, About
<1>7. Holding(HeldAfter(K, q), e) \subseteq HidKeys
  BY <1>2, <1>5 DEF Holding
<1>8. \A k \in HidKeys : k \in HeldAfter(K, a) <=> k \in Holding(HeldAfter(K, q), e)
  BY <1>3, <1>4, <1>6
<1> QED
  BY <1>5, <1>7, <1>8 DEF a

\* The events after the first act on what the first left.
LEMMA AfterTheFirst ==
    ASSUME NEW K \in SUBSET HidKeys, NEW q \in Seq(HidEvents), q # << >>
    PROVE  HeldAfter(K, q) = HeldAfter(Holding(K, Head(q)), Tail(q))
<1> DEFINE t == Tail(q)
           e == Head(q)
           H == Holding(K, e)
<1>1. /\ DOMAIN q = 1..Len(q) /\ DOMAIN t = 1..(Len(q) - 1) /\ Len(q) \in Nat \ {0}
      /\ q[1] = e /\ \A i \in 1..(Len(q) - 1) : t[i] = q[i + 1]
  OBVIOUS
<1>2. e \in HidEvents
  OBVIOUS
<1>3. e.type \in {"down", "up", "move", "reset"} /\ (e.type \in {"down", "up"} => e.key \in HidKeys)
  BY <1>2 DEF HidEvents
<1> HIDE DEF t, e
<1>4. \A k \in HidKeys : k \in H <=> IF About(e, k) THEN e.type = "down" /\ e.key = k ELSE k \in K
  BY <1>3 DEF Holding, About
<1> HIDE DEF H
<1>5. ASSUME NEW k \in HidKeys
      PROVE  k \in HeldAfter(K, q) <=> k \in HeldAfter(H, t)
  <2> DEFINE Untold == \A i \in DOMAIN t : ~About(t[i], k)
             Latest(i) == t[i].type = "down" /\ t[i].key = k /\ \A j \in DOMAIN t : j > i => ~About(t[j], k)
  <2>1. (\A i \in DOMAIN q : ~About(q[i], k)) <=> ~About(e, k) /\ Untold
    <3>1. ASSUME Untold, ~About(e, k), NEW i \in DOMAIN q PROVE ~About(q[i], k)
      <4>1. i = 1 \/ (i - 1 \in 1..(Len(q) - 1) /\ (i - 1) + 1 = i)
        BY <1>1
      <4> QED
        BY <1>1, <3>1, <4>1
    <3>2. ASSUME \A i \in DOMAIN q : ~About(q[i], k) PROVE ~About(e, k) /\ Untold
      BY <1>1, <3>2
    <3> QED
      BY <3>1, <3>2
  <2>2. (\A j \in DOMAIN q : j > 1 => ~About(q[j], k)) <=> Untold
    <3>1. ASSUME Untold, NEW j \in DOMAIN q, j > 1 PROVE ~About(q[j], k)
      <4>1. j - 1 \in 1..(Len(q) - 1) /\ (j - 1) + 1 = j
        BY <1>1, <3>1
      <4> QED
        BY <1>1, <3>1, <4>1
    <3>2. ASSUME \A j \in DOMAIN q : j > 1 => ~About(q[j], k) PROVE Untold
      BY <1>1, <3>2
    <3> QED
      BY <3>1, <3>2
  <2>3. ASSUME NEW i \in DOMAIN t
        PROVE  (\A j \in DOMAIN q : j > i + 1 => ~About(q[j], k)) <=> (\A j \in DOMAIN t : j > i => ~About(t[j], k))
    <3>1. ASSUME \A j \in DOMAIN t : j > i => ~About(t[j], k), NEW j \in DOMAIN q, j > i + 1 PROVE ~About(q[j], k)
      <4>1. j - 1 \in 1..(Len(q) - 1) /\ (j - 1) + 1 = j /\ j - 1 > i
        BY <1>1, <3>1
      <4> QED
        BY <1>1, <3>1, <4>1
    <3>2. ASSUME \A j \in DOMAIN q : j > i + 1 => ~About(q[j], k), NEW j \in DOMAIN t, j > i PROVE ~About(t[j], k)
      BY <1>1, <3>2
    <3> QED
      BY <3>1, <3>2
  <2>4. (\E i \in DOMAIN q : /\ q[i].type = "down" /\ q[i].key = k
                             /\ \A j \in DOMAIN q : j > i => ~About(q[j], k))
        <=> (e.type = "down" /\ e.key = k /\ Untold) \/ \E i \in DOMAIN t : Latest(i)
    <3>1. ASSUME NEW i \in DOMAIN q, q[i].type = "down" /\ q[i].key = k,
                 \A j \in DOMAIN q : j > i => ~About(q[j], k)
          PROVE  (e.type = "down" /\ e.key = k /\ Untold) \/ \E x \in DOMAIN t : Latest(x)
      <4>1. CASE i = 1
        BY <1>1, <2>2, <3>1, <4>1
      <4>2. CASE i # 1
        <5>1. i - 1 \in DOMAIN t /\ (i - 1) + 1 = i
          BY <1>1, <4>2
        <5>2. Latest(i - 1)
          BY <1>1, <2>3, <3>1, <5>1
        <5> QED
          BY <5>1, <5>2
      <4> QED
        BY <4>1, <4>2
    <3>2. ASSUME e.type = "down" /\ e.key = k /\ Untold
          PROVE  \E i \in DOMAIN q : /\ q[i].type = "down" /\ q[i].key = k
                                     /\ \A j \in DOMAIN q : j > i => ~About(q[j], k)
      <4>1. 1 \in DOMAIN q
        BY <1>1
      <4> QED
        BY <1>1, <2>2, <3>2, <4>1
    <3>3. ASSUME NEW i \in DOMAIN t, Latest(i)
          PROVE  \E x \in DOMAIN q : /\ q[x].type = "down" /\ q[x].key = k
                                     /\ \A j \in DOMAIN q : j > x => ~About(q[j], k)
      <4>1. i + 1 \in DOMAIN q /\ q[i + 1] = t[i]
        BY <1>1
      <4> QED
        BY <2>3, <3>3, <4>1
    <3> QED
      BY <3>1, <3>2, <3>3
  <2> HIDE DEF Untold, Latest
  <2>5. k \in HeldAfter(K, q) <=> (k \in K /\ ~About(e, k) /\ Untold) \/ (e.type = "down" /\ e.key = k /\ Untold)
                              \/ \E i \in DOMAIN t : Latest(i)
    BY <2>1, <2>4 DEF HeldAfter
  <2>6. k \in HeldAfter(H, t) <=> (k \in H /\ Untold) \/ \E i \in DOMAIN t : Latest(i)
    BY DEF HeldAfter, Untold, Latest
  <2>7. e.type = "down" /\ e.key = k => About(e, k)
    BY DEF About
  <2> QED
    BY <1>4, <2>5, <2>6, <2>7
<1>6. HeldAfter(K, q) \subseteq HidKeys /\ HeldAfter(H, t) \subseteq HidKeys
  BY DEF HeldAfter
<1> QED
  BY <1>5, <1>6 DEF t, e, H
\* Taking from the front and putting at the back of a queue.
LEMMA QueueFacts ==
    ASSUME NEW q \in Seq(HidEvents), NEW w \in Seq(HidEvents), NEW e \in HidEvents
    PROVE  /\ q \o w \in Seq(HidEvents)
           /\ q \o Append(w, e) = Append(q \o w, e)
           /\ w = << >> => Append(q, e) \o w = Append(q \o w, e)
           /\ q # << >> => q \o w # << >> /\ Head(q \o w) = Head(q) /\ Tail(q) \o w = Tail(q \o w)
           /\ q # << >> /\ w # << >> => Append(Tail(q), Head(w)) \o Tail(w) = Tail(q \o w)
<1>1. q \o w \in Seq(HidEvents) /\ Len(q) \in Nat /\ Len(w) \in Nat
  OBVIOUS
<1>2. q \o Append(w, e) = Append(q \o w, e)
  <2>1. Len(q \o Append(w, e)) = Len(Append(q \o w, e))
    OBVIOUS
  <2>2. \A i \in 1..Len(q \o Append(w, e)) : (q \o Append(w, e))[i] = Append(q \o w, e)[i]
    OBVIOUS
  <2>3. q \o Append(w, e) \in Seq(HidEvents) /\ Append(q \o w, e) \in Seq(HidEvents)
    OBVIOUS
  <2> QED
    BY <2>1, <2>2, <2>3, SeqEqual
<1>3. w = << >> => Append(q, e) \o w = Append(q \o w, e)
  OBVIOUS
<1>4. ASSUME q # << >> PROVE q \o w # << >> /\ Head(q \o w) = Head(q)
  BY <1>4
<1>5. ASSUME q # << >> PROVE Tail(q) \o w = Tail(q \o w)
  <2>1. Len(q) > 0
    BY <1>5
  <2>2. Tail(q) \in Seq(HidEvents) /\ Len(Tail(q)) = Len(q) - 1 /\ \A i \in 1..(Len(q) - 1) : Tail(q)[i] = q[i + 1]
    BY <1>5, <2>1
  <2>3. Len(q \o w) = Len(q) + Len(w) /\ q \o w # << >>
    BY <1>4, <1>5
  <2>4. Tail(q \o w) \in Seq(HidEvents) /\ Len(Tail(q \o w)) = Len(q) + Len(w) - 1
        /\ \A i \in 1..(Len(q) + Len(w) - 1) : Tail(q \o w)[i] = (q \o w)[i + 1]
    BY <1>1, <2>1, <2>3
  <2>5. Len(Tail(q) \o w) = Len(Tail(q \o w)) /\ Tail(q) \o w \in Seq(HidEvents)
    BY <2>1, <2>2, <2>4
  <2>6. ASSUME NEW i \in 1..(Len(q) + Len(w) - 1) PROVE (Tail(q) \o w)[i] = Tail(q \o w)[i]
    <3>1. Tail(q \o w)[i] = (q \o w)[i + 1]
      BY <2>4
    <3>2. CASE i <= Len(q) - 1
      BY <2>1, <2>2, <3>1, <3>2
    <3>3. CASE i > Len(q) - 1
      <4>1. (Tail(q) \o w)[i] = w[i - (Len(q) - 1)]
        BY <2>1, <2>2, <3>3
      <4>2. (q \o w)[i + 1] = w[i + 1 - Len(q)]
        BY <2>1, <3>3
      <4>3. i + 1 - Len(q) = i - (Len(q) - 1)
        BY <1>1
      <4> QED
        BY <3>1, <4>1, <4>2, <4>3
    <3> QED
      BY <1>1, <3>2, <3>3
  <2> QED
    BY <2>4, <2>5, <2>6, SeqEqual
<1>6. ASSUME q # << >>, w # << >> PROVE Append(Tail(q), Head(w)) \o Tail(w) = Tail(q) \o w
  <2> DEFINE t == Tail(q)
  <2>1. t \in Seq(HidEvents) /\ Len(t) \in Nat
    BY <1>6
  <2>2. Head(w) = w[1] /\ Tail(w) \in Seq(HidEvents) /\ Len(Tail(w)) = Len(w) - 1 /\ Len(w) > 0 /\ Head(w) \in HidEvents
        /\ \A i \in 1..(Len(w) - 1) : Tail(w)[i] = w[i + 1]
    BY <1>6
  <2> HIDE DEF t
  <2> DEFINE a == Append(t, Head(w))
  <2>3. a \in Seq(HidEvents) /\ Len(a) = Len(t) + 1 /\ a[Len(t) + 1] = w[1] /\ \A i \in 1..Len(t) : a[i] = t[i]
    BY <2>1, <2>2
  <2> HIDE DEF a
  <2>4. Len(a \o Tail(w)) = Len(t \o w) /\ a \o Tail(w) \in Seq(HidEvents) /\ t \o w \in Seq(HidEvents) /\ Len(t \o w) = Len(t) + Len(w)
    <3>1. a \o Tail(w) \in Seq(HidEvents) /\ Len(a \o Tail(w)) = Len(a) + Len(Tail(w))
      BY <2>2, <2>3, ConcatProperties, Zenon
    <3>2. t \o w \in Seq(HidEvents) /\ Len(t \o w) = Len(t) + Len(w)
      BY <2>1, ConcatProperties, Zenon
    <3>3. Len(w) \in Nat
      OBVIOUS
    <3>4. Len(a) + Len(Tail(w)) = Len(t) + Len(w)
      BY <2>1, <2>2, <2>3, <3>3
    <3> QED
      BY <3>1, <3>2, <3>4
  <2>5. ASSUME NEW i \in 1..(Len(t) + Len(w)) PROVE (a \o Tail(w))[i] = (t \o w)[i]
    <3>1. CASE i <= Len(t)
      <4>1. (a \o Tail(w))[i] = a[i] /\ (t \o w)[i] = t[i]
        BY <2>1, <2>2, <2>3, <3>1
      <4> QED
        BY <2>1, <2>3, <3>1, <4>1
    <3>2. CASE i = Len(t) + 1
      <4>1. (a \o Tail(w))[i] = a[i] /\ (t \o w)[i] = w[1]
        BY <2>1, <2>2, <2>3, <3>2
      <4> QED
        BY <2>3, <3>2, <4>1
    <3>3. CASE i > Len(t) + 1
      <4>a. (a \o Tail(w))[i] = Tail(w)[i - Len(a)]
        <5>1. i \in 1..(Len(a) + Len(Tail(w))) /\ ~(i <= Len(a))
          BY <2>1, <2>2, <2>3, <3>3
        <5> QED
          BY <2>2, <2>3, <5>1, ConcatProperties
      <4>b. (t \o w)[i] = w[i - Len(t)]
        <5>1. i \in 1..(Len(t) + Len(w)) /\ ~(i <= Len(t))
          BY <2>1, <2>2, <3>3
        <5> QED
          BY <2>1, <5>1, ConcatProperties
      <4>1. (a \o Tail(w))[i] = Tail(w)[i - (Len(t) + 1)] /\ (t \o w)[i] = w[i - Len(t)]
        BY <2>3, <4>a, <4>b
      <4>2. i - (Len(t) + 1) \in 1..(Len(w) - 1) /\ (i - (Len(t) + 1)) + 1 = i - Len(t)
        BY <2>1, <2>2, <3>3
      <4>3. Tail(w)[i - (Len(t) + 1)] = w[(i - (Len(t) + 1)) + 1]
        BY <2>2, <4>2
      <4> QED
        BY <4>1, <4>2, <4>3
    <3>4. i <= Len(t) \/ i = Len(t) + 1 \/ i > Len(t) + 1
      BY <2>1
    <3> QED
      BY <3>1, <3>2, <3>3, <3>4
  <2> QED
    BY <2>4, <2>5, SeqEqual DEF a, t
<1> QED
  BY <1>1, <1>2, <1>3, <1>4, <1>5, <1>6

\* The newest event of a queue is its last.
LEMMA NewestIsLast ==
    ASSUME NEW n \in 0..MaxBackends, \A b \in Backends : (backends[b].made <=> b <= n)
    PROVE  Newest = n
<1>1. {b \in Backends : backends[b].made} = 1..n
  <2>1. 1..n \subseteq Backends /\ \A b \in Backends : b \in 1..n <=> b <= n
    BY HidAssumption DEF Backends
  <2> QED
    BY <2>1
<1>2. Cardinality(1..n) = n
  BY FS_Interval
<1> QED
  BY <1>1, <1>2 DEF Newest

\* Adding to and taking from a set of keys.
LEMMA SetFacts ==
    ASSUME NEW T, NEW q \in Seq(T)
    PROVE  /\ ToSet(q) \subseteq T
           /\ \A e : ToSet(Append(q, e)) = ToSet(q) \cup {e}
           /\ q # << >> => ToSet(q) = {Head(q)} \cup ToSet(Tail(q))
           /\ \A i \in DOMAIN q : RemoveAt(q, i) \in Seq(T) /\ ToSet(RemoveAt(q, i)) \subseteq ToSet(q)
<1>0. DOMAIN q = 1..Len(q) /\ Len(q) \in Nat
  OBVIOUS
<1>1. ToSet(q) \subseteq T
  BY DEF ToSet
<1>2. ASSUME NEW e PROVE ToSet(Append(q, e)) = ToSet(q) \cup {e}
  <2>0. q \in Seq(T \cup {e})
    BY SeqMonotonic, T \subseteq T \cup {e}
  <2>1. /\ DOMAIN Append(q, e) = 1..(Len(q) + 1) /\ Append(q, e)[Len(q) + 1] = e
        /\ \A i \in 1..Len(q) : Append(q, e)[i] = q[i]
    BY <2>0
  <2>2. ToSet(Append(q, e)) \subseteq ToSet(q) \cup {e}
    BY <1>0, <2>1 DEF ToSet
  <2>3. ASSUME NEW x \in ToSet(q) \cup {e} PROVE x \in ToSet(Append(q, e))
    <3>1. Len(q) + 1 \in DOMAIN Append(q, e) /\ \A i \in DOMAIN q : i \in DOMAIN Append(q, e)
      BY <1>0, <2>1
    <3> QED
      BY <1>0, <2>1, <3>1 DEF ToSet
  <2> QED
    BY <2>2, <2>3
<1>3. ASSUME q # << >> PROVE ToSet(q) = {Head(q)} \cup ToSet(Tail(q))
  <2>1. /\ Len(q) > 0 /\ Head(q) = q[1] /\ DOMAIN Tail(q) = 1..(Len(q) - 1)
        /\ \A i \in 1..(Len(q) - 1) : Tail(q)[i] = q[i + 1]
    BY <1>3
  <2>2. ASSUME NEW i \in DOMAIN q PROVE q[i] \in {Head(q)} \cup ToSet(Tail(q))
    <3>1. CASE i = 1
      BY <2>1, <3>1
    <3>2. CASE i # 1
      <4>1. i - 1 \in 1..(Len(q) - 1) /\ (i - 1) + 1 = i
        BY <1>0, <3>2
      <4>2. Tail(q)[i - 1] = q[i]
        BY <2>1, <4>1
      <4> QED
        BY <2>1, <4>1, <4>2 DEF ToSet
    <3> QED
      BY <3>1, <3>2
  <2>3. Head(q) \in ToSet(q)
    <3>1. 1 \in DOMAIN q
      BY <1>0, <2>1
    <3> QED
      BY <2>1, <3>1 DEF ToSet
  <2>4. ASSUME NEW i \in DOMAIN Tail(q) PROVE Tail(q)[i] \in ToSet(q)
    <3>1. i + 1 \in DOMAIN q /\ Tail(q)[i] = q[i + 1]
      BY <1>0, <2>1
    <3> QED
      BY <3>1 DEF ToSet
  <2> QED
    BY <2>2, <2>3, <2>4 DEF ToSet
<1>4. ASSUME NEW U, q \in Seq(U), NEW i \in DOMAIN q PROVE RemoveAt(q, i) \in Seq(U)
  <2>1. SubSeq(q, 1, i - 1) \in Seq(U)
    <3>1. \A j \in 1..(i - 1) : q[j] \in U
      BY <1>0, <1>4
    <3>2. 1 \in Int /\ i - 1 \in Int
      BY <1>0
    <3> QED
      BY <3>1, <3>2, SubSeqProperties
  <2>2. SubSeq(q, i + 1, Len(q)) \in Seq(U)
    <3>1. \A j \in (i + 1)..Len(q) : q[j] \in U
      BY <1>0, <1>4
    <3>2. i + 1 \in Int /\ Len(q) \in Int
      BY <1>0
    <3> QED
      BY <3>1, <3>2, SubSeqProperties
  <2> QED
    BY <2>1, <2>2, ConcatProperties DEF RemoveAt
<1>5. ASSUME NEW i \in DOMAIN q PROVE ToSet(RemoveAt(q, i)) \subseteq ToSet(q)
  <2>1. q \in Seq(ToSet(q))
    <3>1. \A j \in 1..Len(q) : q[j] \in ToSet(q)
      BY <1>0 DEF ToSet
    <3>2. q = [j \in 1..Len(q) |-> q[j]]
      BY <1>0
    <3> QED
      BY <1>0, <3>1, <3>2, IsASeq
  <2>2. RemoveAt(q, i) \in Seq(ToSet(q))
    BY <1>4, <2>1
  <2> QED
    BY <2>2 DEF ToSet
<1> QED
  BY <1>1, <1>2, <1>3, <1>4, <1>5

\* What the host shows are keys.
LEMMA HandIsKeys ==
    HidInv => KeysNow \subseteq HidKeys /\ KeysInHand \subseteq HidKeys /\ hidQueue \o hidWaiting \in Seq(HidEvents)
<1> SUFFICES ASSUME HidInv PROVE KeysNow \subseteq HidKeys /\ KeysInHand \subseteq HidKeys /\ hidQueue \o hidWaiting \in Seq(HidEvents)
  OBVIOUS
<1>1. KeysNow \subseteq HidKeys
  BY DEF KeysNow, KeysIn
<1>2. hidWorker.ev \in HidEvents
  BY DEF HidInv, HidWorkerTypes
<1>3. Holding(KeysNow, hidWorker.ev) \subseteq HidKeys
  BY <1>1, <1>2 DEF Holding, HidEvents
<1>4. hidQueue \o hidWaiting \in Seq(HidEvents)
  BY DEF HidInv, HidQueueTypes
<1> QED
  BY <1>1, <1>3, <1>4 DEF KeysInHand

\* The queue starts empty with no key down.
LEMMA HidStarts == HidInit => HidInv
<1> SUFFICES ASSUME HidInit PROVE HidInv
  OBVIOUS
<1> USE HidAssumption
<1>1. HidQueueTypes
  BY DEF HidInit, HidQueueTypes
<1>2. HidWorkerTypes
  BY EventsAre, KeyTablesAre DEF HidInit, HidWorkerTypes, IdleWorker
<1>3. HidBackendTypes
  <2>1. backends \in [Backends -> [init : BOOLEAN, made : BOOLEAN, keys : KeyTables]]
    BY KeyTablesAre DEF HidInit
  <2>2. monitors \in [Backends -> [pc : {"off", "wait", "store"}, init : BOOLEAN, aborted : BOOLEAN]]
    BY DEF HidInit, NoMonitor
  <2> QED
    BY <2>1, <2>2 DEF HidInit, HidBackendTypes, BackendKinds
<1>9. HidFlags
  BY Zenon DEF HidInit, HidFlags
<1>4. HidMade
  <2>1. \A b \in Backends : (backends[b].made <=> b <= 0)
    BY DEF HidInit, Backends
  <2>2. backend <= 0 /\ hidWorker.to <= 0 /\ 0 \in 0..MaxBackends
    BY DEF HidInit, IdleWorker
  <2> QED
    BY <2>1, <2>2 DEF HidInit, HidMade
<1>5. HidFlow /\ HidHost
  <2>1. hidQueue \o hidWaiting = << >>
    BY DEF HidInit
  <2> QED
    BY <2>1, AfterNothing DEF HidInit, HidFlow, HidHost, KeysNow, KeysInHand, IdleWorker
<1>6. HidShown
  BY DEF HidInit, HidShown, AvailabilityAgrees, NoMonitor
<1>7. HidMoves
  <2>1. ToSet(hidQueue) \cup ToSet(hidWaiting) = {}
    BY DEF HidInit, ToSet
  <2> QED
    BY <2>1 DEF HidInit, HidMoves, IdleWorker, Reset
<1> QED
  BY <1>1, <1>2, <1>3, <1>4, <1>5, <1>6, <1>7, <1>9 DEF HidInv


\* An event is queued.
LEMMA HidSends ==
    ASSUME HidInv, NEW e \in HidEvents, e.type # "move", e.move = 0, SendEvent(e)
    PROVE  HidInv'
<1> USE DEF SendEvent, CanSend, queueVars, stateVars
<1>t. hidQueue \in Seq(HidEvents) /\ hidWaiting \in Seq(HidEvents) /\ held \subseteq HidKeys /\ host \subseteq HidKeys /\ hidWorker.ev \in HidEvents
  BY DEF HidInv, HidQueueTypes, HidWorkerTypes
<1>c. \/ hidQueue' = Append(hidQueue, e) /\ hidWaiting' = hidWaiting /\ hidWaiting = << >> /\ Len(hidQueue) < HidCapacity
      \/ hidWaiting' = Append(hidWaiting, e) /\ hidQueue' = hidQueue
  OBVIOUS
<1>a. Append(hidQueue, e) \in Seq(HidEvents) /\ Append(hidWaiting, e) \in Seq(HidEvents)
  BY <1>t, AppendProperties
<1>u. UNCHANGED <<mover, pendingMove, pendingFlag, hidWorker, backend, backends, stateVars, host, moved, eventGap, reportGap, reached>>
      /\ held' = Holding(held, e)
  OBVIOUS
<1> HIDE DEF SendEvent
<1>1. HidQueueTypes'
  <2>1. hidQueue' \in Seq(HidEvents) /\ hidWaiting' \in Seq(HidEvents)
    BY <1>t, <1>c, <1>a
  <2>2. Len(hidQueue') <= HidCapacity
    BY <1>t, <1>c, HidAssumption DEF HidInv, HidQueueTypes
  <2>3. held' \subseteq HidKeys
    BY <1>t, <1>u DEF Holding, HidEvents
  <2> QED
    BY <1>u, <2>1, <2>2, <2>3 DEF HidInv, HidQueueTypes
<1>2. HidFlags'
  BY <1>u, Zenon DEF HidInv, HidFlags
<1>3. HidWorkerTypes'
  BY <1>u DEF HidInv, HidWorkerTypes
<1>4. HidBackendTypes'
  BY <1>u DEF HidInv, HidBackendTypes
<1>5. HidMade'
  BY <1>u DEF HidInv, HidMade
<1>6. HidFlow'
  <2>1. hidQueue' \o hidWaiting' = Append(hidQueue \o hidWaiting, e)
    <3>1. CASE hidQueue' = Append(hidQueue, e) /\ hidWaiting' = hidWaiting /\ hidWaiting = << >>
      BY <1>t, <3>1, QueueFacts
    <3>2. CASE hidWaiting' = Append(hidWaiting, e) /\ hidQueue' = hidQueue
      BY <1>t, <3>2, QueueFacts
    <3> QED
      BY <1>c, <3>1, <3>2
  <2>2. KeysInHand' = KeysInHand
    BY <1>u DEF KeysInHand, KeysNow
  <2>3. ASSUME ~eventGap PROVE held' = HeldAfter(KeysInHand, Append(hidQueue \o hidWaiting, e))
    BY <1>u, <2>3, HandIsKeys, AfterOneMore DEF HidInv, HidFlow
  <2> QED
    BY <1>u, <2>1, <2>2, <2>3 DEF HidFlow
<1>7. HidHost'
  BY <1>u DEF HidInv, HidHost, KeysNow
<1>8. HidShown'
  BY <1>u DEF HidInv, HidShown, AvailabilityAgrees
<1>9. HidMoves'
  <2>1. ToSet(hidQueue') \cup ToSet(hidWaiting') = ToSet(hidQueue) \cup ToSet(hidWaiting) \cup {e} /\ ToSet(hidQueue) \subseteq ToSet(hidQueue')
    <3>1. ToSet(Append(hidQueue, e)) = ToSet(hidQueue) \cup {e} /\ ToSet(Append(hidWaiting, e)) = ToSet(hidWaiting) \cup {e}
      BY <1>t, SetFacts
    <3>2. CASE hidQueue' = Append(hidQueue, e) /\ hidWaiting' = hidWaiting
      BY <3>1, <3>2
    <3>3. CASE hidWaiting' = Append(hidWaiting, e) /\ hidQueue' = hidQueue
      BY <3>1, <3>3
    <3> QED
      BY <1>c, <3>2, <3>3
  <2>2. e.move <= moved
    BY DEF HidInv, HidQueueTypes
  <2> QED
    BY <1>u, <2>1, <2>2 DEF HidInv, HidMoves
<1> QED
  BY <1>1, <1>2, <1>3, <1>4, <1>5, <1>6, <1>7, <1>8, <1>9 DEF HidInv

\* An event that does not fit is dropped and a reset is asked for.
LEMMA HidDrops ==
    ASSUME HidInv, SendTimesOut
    PROVE  HidInv'
<1> USE DEF SendTimesOut, queueVars, stateVars
<1>t. hidQueue \in Seq(HidEvents) /\ hidWaiting \in Seq(HidEvents) /\ held \subseteq HidKeys /\ host \subseteq HidKeys /\ hidWorker.ev \in HidEvents
  BY DEF HidInv, HidQueueTypes, HidWorkerTypes
<1>1. HidQueueTypes'
  <2>1. hidWaiting' \in Seq(HidEvents)
    BY <1>t, SetFacts
  <2> QED
    BY <2>1 DEF HidInv, HidQueueTypes
<1>2. HidFlags'
  BY Zenon DEF HidInv, HidFlags
<1>3. HidWorkerTypes'
  BY DEF HidInv, HidWorkerTypes
<1>4. HidBackendTypes'
  BY DEF HidInv, HidBackendTypes
<1>5. HidMade'
  BY DEF HidInv, HidMade, Backends
<1>6. HidFlow'
  BY DEF HidInv, HidQueueTypes, HidWorkerTypes, HidBackendTypes, HidFlow, KeysNow, KeysInHand
<1>7. HidHost'
  BY DEF HidInv, HidHost, KeysNow
<1>8. HidShown'
  BY DEF HidInv, HidShown, AvailabilityAgrees
<1>9. HidMoves'
  <2>1. ToSet(hidWaiting') \subseteq ToSet(hidWaiting)
    BY <1>t, SetFacts
  <2> QED
    BY <2>1 DEF HidInv, HidMoves
<1> QED
  BY <1>1, <1>2, <1>3, <1>4, <1>5, <1>6, <1>7, <1>8, <1>9 DEF HidInv

\* A mouse move replaces the one that waits.
LEMMA HidMovesOn ==
    ASSUME HidInv, SendMove
    PROVE  HidInv'
<1> USE DEF SendMove, CanSend, queueVars, stateVars
<1>t. hidQueue \in Seq(HidEvents) /\ hidWaiting \in Seq(HidEvents) /\ held \subseteq HidKeys /\ host \subseteq HidKeys /\ hidWorker.ev \in HidEvents
  BY DEF HidInv, HidQueueTypes, HidWorkerTypes
<1>1. HidQueueTypes'
  <2>0. moved + 1 \in Nat /\ Move(moved + 1) \in HidEvents
    BY EventsAre DEF HidInv, HidQueueTypes
  <2>3. Append(hidQueue, Move(moved + 1)) \in Seq(HidEvents)
    BY <1>t, <2>0, AppendProperties
  <2>1. hidQueue' \in Seq(HidEvents) /\ moved + 1 \in Nat
    <3>1. hidQueue' \in {hidQueue, Append(hidQueue, Move(moved + 1))}
      OBVIOUS
    <3> QED
      BY <1>t, <2>0, <2>3, <3>1
  <2>2. Len(hidQueue') <= HidCapacity
    BY <1>t, HidAssumption, EventsAre DEF HidInv, HidQueueTypes
  <2> QED
    BY <2>1, <2>2 DEF HidInv, HidQueueTypes
<1>2. HidFlags'
  BY Zenon DEF HidInv, HidFlags
<1>3. HidWorkerTypes'
  BY DEF HidInv, HidWorkerTypes
<1>4. HidBackendTypes'
  BY DEF HidInv, HidBackendTypes
<1>5. HidMade'
  BY DEF HidInv, HidMade, Backends
<1>6. HidFlow'
  <2>0. Move(moved + 1) \in HidEvents /\ Move(moved + 1).type = "move"
    BY EventsAre DEF HidInv, HidQueueTypes, Move
  <2>1. hidQueue' \o hidWaiting' \in {hidQueue \o hidWaiting, Append(hidQueue \o hidWaiting, Move(moved + 1))}
    BY <1>t, <2>0, QueueFacts
  <2>2. KeysInHand' = KeysInHand
    BY DEF KeysInHand, KeysNow
  <2>3. HeldAfter(KeysInHand, Append(hidQueue \o hidWaiting, Move(moved + 1))) = HeldAfter(KeysInHand, hidQueue \o hidWaiting)
    BY <2>0, HandIsKeys, AfterOneMore DEF Holding
  <2> QED
    BY <2>1, <2>2, <2>3 DEF HidInv, HidFlow
<1>7. HidHost'
  BY DEF HidInv, HidHost, KeysNow
<1>8. HidShown'
  BY DEF HidInv, HidShown, AvailabilityAgrees
<1>9. HidMoves'
  <2>0. Move(moved + 1).type = "move" /\ Move(moved + 1).move = moved + 1 /\ moved \in Nat
    BY DEF HidInv, HidQueueTypes, Move
  <2>1. CASE Len(hidQueue) < HidCapacity /\ hidWaiting = << >>
    <3>1. ToSet(hidQueue') = ToSet(hidQueue) \cup {Move(moved + 1)}
      <4>1. hidQueue' = Append(hidQueue, Move(moved + 1))
        BY <2>1
      <4> QED
        BY <1>t, <4>1, SetFacts
    <3>2. \A x \in ToSet(hidQueue) \cup ToSet(hidWaiting) : x.move \in Nat
      BY <1>t, SetFacts DEF HidEvents
    <3>3. hidWorker.ev.move \in Nat
      BY <1>t DEF HidEvents
    <3> QED
      BY <2>0, <2>1, <3>1, <3>2, <3>3 DEF HidInv, HidMoves
  <2>2. CASE ~(Len(hidQueue) < HidCapacity /\ hidWaiting = << >>)
    <3>2. \A x \in ToSet(hidQueue) \cup ToSet(hidWaiting) : x.move \in Nat
      BY <1>t, SetFacts DEF HidEvents
    <3>3. hidWorker.ev.move \in Nat
      BY <1>t DEF HidEvents
    <3> QED
      BY <2>0, <2>2, <3>2, <3>3 DEF HidInv, HidMoves
  <2> QED
    BY <2>1, <2>2
<1> QED
  BY <1>1, <1>2, <1>3, <1>4, <1>5, <1>6, <1>7, <1>8, <1>9 DEF HidInv

\* The newest mouse move is kept.
LEMMA HidStores ==
    ASSUME HidInv, StorePending
    PROVE  HidInv'
<1> USE DEF StorePending, queueVars, stateVars
<1>1. HidQueueTypes'
  BY DEF HidInv, HidQueueTypes, HidWorkerTypes, HidBackendTypes, HidQueueTypes
<1>2. HidFlags'
  BY Zenon DEF HidInv, HidFlags
<1>3. HidWorkerTypes'
  BY DEF HidInv, HidWorkerTypes
<1>4. HidBackendTypes'
  BY DEF HidInv, HidBackendTypes
<1>5. HidMade'
  BY DEF HidInv, HidMade, Backends
<1>6. HidFlow'
  BY DEF HidInv, HidFlow, KeysNow, KeysInHand
<1>7. HidHost'
  BY DEF HidInv, HidHost, KeysNow
<1>8. HidShown'
  BY DEF HidInv, HidShown, AvailabilityAgrees
<1>9. HidMoves'
  BY DEF HidInv, HidQueueTypes, HidWorkerTypes, HidBackendTypes, HidMoves
<1> QED
  BY <1>1, <1>2, <1>3, <1>4, <1>5, <1>6, <1>7, <1>8, <1>9 DEF HidInv

\* A reset is asked for.
LEMMA HidRaises ==
    ASSUME HidInv, RaiseFlag
    PROVE  HidInv'
<1> USE DEF RaiseFlag, queueVars, stateVars
<1>1. HidQueueTypes'
  BY DEF HidInv, HidQueueTypes, HidWorkerTypes, HidBackendTypes, HidQueueTypes
<1>2. HidFlags'
  BY Zenon DEF HidInv, HidFlags
<1>3. HidWorkerTypes'
  BY DEF HidInv, HidWorkerTypes
<1>4. HidBackendTypes'
  BY DEF HidInv, HidBackendTypes
<1>5. HidMade'
  BY DEF HidInv, HidMade, Backends
<1>6. HidFlow'
  BY DEF HidInv, HidFlow, KeysNow, KeysInHand
<1>7. HidHost'
  BY DEF HidInv, HidHost, KeysNow
<1>8. HidShown'
  BY DEF HidInv, HidShown, AvailabilityAgrees
<1>9. HidMoves'
  BY DEF HidInv, HidQueueTypes, HidWorkerTypes, HidBackendTypes, HidMoves
<1> QED
  BY <1>1, <1>2, <1>3, <1>4, <1>5, <1>6, <1>7, <1>8, <1>9 DEF HidInv

\* The worker takes an event.
LEMMA HidReceives ==
    ASSUME HidInv, Receive
    PROVE  HidInv'
<1> USE DEF Receive, queueVars, stateVars
<1>t. hidQueue \in Seq(HidEvents) /\ hidWaiting \in Seq(HidEvents) /\ held \subseteq HidKeys /\ host \subseteq HidKeys /\ hidWorker.ev \in HidEvents
  BY DEF HidInv, HidQueueTypes, HidWorkerTypes
<1>1. HidQueueTypes'
  <2>1. hidQueue' \in Seq(HidEvents) /\ hidWaiting' \in Seq(HidEvents)
    <3>1. Tail(hidQueue) \in Seq(HidEvents)
      BY <1>t
    <3>2. hidWaiting # << >> => Head(hidWaiting) \in HidEvents /\ Tail(hidWaiting) \in Seq(HidEvents)
      BY <1>t
    <3>3. hidWaiting # << >> => Append(Tail(hidQueue), Head(hidWaiting)) \in Seq(HidEvents)
      BY <3>1, <3>2, AppendProperties
    <3> QED
      BY <1>t, <3>1, <3>2, <3>3
  <2>2. Len(hidQueue') <= HidCapacity
    BY <1>t, HidAssumption DEF HidInv, HidQueueTypes
  <2> QED
    BY <2>1, <2>2 DEF HidInv, HidQueueTypes
<1>2. HidFlags'
  BY Zenon DEF HidInv, HidFlags
<1>3. HidWorkerTypes'
  <2>1. Head(hidQueue) \in HidEvents
    BY <1>t
  <2> QED
    BY <2>1 DEF HidInv, HidWorkerTypes
<1>4. HidBackendTypes'
  BY DEF HidInv, HidBackendTypes
<1>5. HidMade'
  BY DEF HidInv, HidQueueTypes, HidWorkerTypes, HidBackendTypes, HidMade, Backends
<1>6. HidFlow'
  <2>1. /\ hidQueue \o hidWaiting # << >> /\ Head(hidQueue \o hidWaiting) = Head(hidQueue)
        /\ hidQueue' \o hidWaiting' = Tail(hidQueue \o hidWaiting)
    <3>1. ASSUME NEW e \in HidEvents
          PROVE  /\ hidQueue \o hidWaiting # << >> /\ Head(hidQueue \o hidWaiting) = Head(hidQueue)
                 /\ hidQueue' \o hidWaiting' = Tail(hidQueue \o hidWaiting)
      <4>1. CASE hidWaiting = << >>
        <5>1. hidQueue' = Tail(hidQueue) /\ hidWaiting' = hidWaiting /\ hidQueue # << >>
          BY <4>1
        <5> QED
          BY <1>t, <5>1, QueueFacts
      <4>2. CASE hidWaiting # << >>
        <5>1. hidQueue' = Append(Tail(hidQueue), Head(hidWaiting)) /\ hidWaiting' = Tail(hidWaiting) /\ hidQueue # << >>
          BY <4>2
        <5> QED
          BY <1>t, <4>2, <5>1, QueueFacts
      <4> QED
        BY <4>1, <4>2
    <3> QED
      BY <1>t, <3>1
  <2>2. KeysInHand = KeysNow /\ KeysInHand' = Holding(KeysNow, Head(hidQueue))
    BY DEF KeysInHand, KeysNow, HidInv, HidWorkerTypes
  <2>3. HeldAfter(KeysNow, hidQueue \o hidWaiting) = HeldAfter(Holding(KeysNow, Head(hidQueue)), Tail(hidQueue \o hidWaiting))
    BY <2>1, HandIsKeys, AfterTheFirst
  <2> QED
    BY <2>1, <2>2, <2>3 DEF HidInv, HidFlow
<1>7. HidHost'
  BY DEF HidInv, HidQueueTypes, HidWorkerTypes, HidBackendTypes, HidHost, KeysNow
<1>8. HidShown'
  BY DEF HidInv, HidShown, AvailabilityAgrees
<1>9. HidMoves'
  <2>1. /\ ToSet(hidQueue) = {Head(hidQueue)} \cup ToSet(Tail(hidQueue))
        /\ ToSet(hidQueue') \cup ToSet(hidWaiting') \subseteq ToSet(hidQueue) \cup ToSet(hidWaiting)
        /\ ToSet(Tail(hidQueue)) \subseteq ToSet(hidQueue')
    <3>1. ToSet(hidQueue) = {Head(hidQueue)} \cup ToSet(Tail(hidQueue)) /\ Tail(hidQueue) \in Seq(HidEvents)
      BY <1>t, SetFacts
    <3>2. hidWaiting # << >> => ToSet(hidWaiting) = {Head(hidWaiting)} \cup ToSet(Tail(hidWaiting))
      BY <1>t, SetFacts
    <3>3. ToSet(Append(Tail(hidQueue), Head(hidWaiting))) = ToSet(Tail(hidQueue)) \cup {Head(hidWaiting)}
      BY <3>1, SetFacts
    <3> QED
      BY <3>1, <3>2, <3>3
  <2>2. hidWorker'.ev = Head(hidQueue) /\ hidWorker'.pc = "event" /\ hidWorker.pc = "recv"
    BY DEF HidInv, HidWorkerTypes
  <2> QED
    BY <2>1, <2>2 DEF HidInv, HidMoves
<1> QED
  BY <1>1, <1>2, <1>3, <1>4, <1>5, <1>6, <1>7, <1>8, <1>9 DEF HidInv

\* The worker looks at what it has taken.
LEMMA HidProcesses ==
    ASSUME HidInv, Process
    PROVE  HidInv'
<1> USE DEF Process, Handled, IdleWorker, queueVars, stateVars
<1>t. hidQueue \in Seq(HidEvents) /\ hidWaiting \in Seq(HidEvents) /\ held \subseteq HidKeys /\ host \subseteq HidKeys /\ hidWorker.ev \in HidEvents
  BY DEF HidInv, HidQueueTypes, HidWorkerTypes
<1>b. /\ backend \in 0..MaxBackends /\ (backend # 0 => backend \in Backends /\ backends[backend].keys \in KeyTables)
      /\ backends \in [Backends -> [init : BOOLEAN, made : BOOLEAN, keys : KeyTables]]
  BY HidAssumption DEF HidInv, HidBackendTypes, Backends
<1>e. /\ hidWorker.ev.type \in {"down", "up", "move", "reset"} /\ hidWorker.ev.move \in Nat
      /\ (hidWorker.pc = "move" => hidWorker.ev.type = "move")
      /\ hidWorker \in [pc : {"off", "recv", "event", "write", "flag", "move"}, ev : HidEvents, to : 0..MaxBackends, report : KeyTables]
  BY <1>t DEF HidEvents, HidInv, HidWorkerTypes
<1> DEFINE keys == KeyboardState(backends[backend].keys, hidWorker.ev)
<1>k. backend # 0 => keys \in KeyTables
  BY <1>t, <1>b, KeyTablesAre
<1>h. Handled \in [pc : {"recv", "flag"}, ev : HidEvents, to : {0}, report : KeyTables] /\ Handled.to = 0 /\ Handled.pc \in {"recv", "flag"}
      /\ Handled.ev.move = 0
      /\ Handled \in [pc : {"off", "recv", "event", "write", "flag", "move"}, ev : HidEvents, to : 0..MaxBackends, report : KeyTables]
  BY EventsAre, KeyTablesAre, HidAssumption DEF Reset
<1>n. backend # 0 => /\ backends' = [backends EXCEPT ![backend].keys = keys]
                     /\ hidWorker' = IF hidWorker.ev.type = "move" THEN Handled
                                      ELSE [pc |-> "write", ev |-> hidWorker.ev, to |-> backend, report |-> keys]
                     /\ held' = IF hidWorker.ev.type = "reset" THEN Replay(hidQueue \o hidWaiting) ELSE held
                     /\ eventGap' = IF hidWorker.ev.type = "reset" THEN FALSE
                                     ELSE eventGap \/ (hidWorker.ev.type = "down" /\ keys = backends[backend].keys)
  OBVIOUS
<1>z. backend = 0 => /\ hidWorker' = Handled /\ UNCHANGED <<backends, held>>
                     /\ eventGap' = (eventGap \/ hidWorker.ev.type \in {"down", "up"})
  OBVIOUS
<1>u. /\ UNCHANGED <<hidQueue, hidWaiting, mover, pendingMove, pendingFlag, backend, available, backendType, shown,
                      monitors, reloading, lateStore, host, moved, sent, reportGap>>
      /\ hidWorker.pc \in {"event", "move"}
      /\ reached' = IF hidWorker.ev.move > reached THEN hidWorker.ev.move ELSE reached
  OBVIOUS
<1> HIDE DEF keys, Process, Handled
<1>p. hidWorker'.pc \in {"recv", "flag", "write"} /\ hidWorker'.to \in {0, backend} /\ hidWorker'.ev.move \in {0, hidWorker.ev.move}
  <2>1. CASE hidWorker' = Handled
    BY <1>h, <2>1
  <2>2. CASE hidWorker' = [pc |-> "write", ev |-> hidWorker.ev, to |-> backend, report |-> keys]
    BY <2>2
  <2> QED
    BY <1>n, <1>z, <2>1, <2>2
<1>1. HidQueueTypes'
  <2>1. held' \subseteq HidKeys
    BY <1>t, <1>n, <1>z DEF Replay, HeldAfter
  <2>2. reached' \in 0..moved
    BY <1>e, <1>u DEF HidInv, HidQueueTypes, HidMoves
  <2> QED
    BY <1>u, <2>1, <2>2 DEF HidInv, HidQueueTypes
<1>2. HidFlags'
  <2>1. eventGap' \in BOOLEAN
    BY <1>n, <1>z, Zenon DEF HidInv, HidFlags
  <2> QED
    BY <1>u, <2>1, Zenon DEF HidInv, HidFlags
<1>3. HidWorkerTypes'
  <2>1. ASSUME backend # 0, hidWorker.ev.type # "move" PROVE HidWorkerTypes'
    <3>1. hidWorker' = [pc |-> "write", ev |-> hidWorker.ev, to |-> backend, report |-> keys]
      BY <2>1, <1>n
    <3> QED
      BY <1>t, <1>b, <1>k, <2>1, <3>1 DEF HidWorkerTypes
  <2>2. ASSUME hidWorker' = Handled PROVE HidWorkerTypes'
    BY <1>h, <2>2 DEF HidWorkerTypes
  <2> QED
    BY <1>n, <1>z, <2>1, <2>2
<1>4. HidBackendTypes'
  <2>1. backends' \in [Backends -> [init : BOOLEAN, made : BOOLEAN, keys : KeyTables]]
    <3>1. CASE backend = 0
      BY <3>1, <1>z, <1>b
    <3>2. CASE backend # 0
      BY <3>2, <1>n, <1>b, <1>k
    <3> QED
      BY <3>1, <3>2
  <2> QED
    BY <1>u, <2>1 DEF HidInv, HidBackendTypes
<1>5. HidMade'
  <2>1. \A b \in Backends : backends'[b].made = backends[b].made /\ backends'[b].init = backends[b].init
    <3>1. CASE backend = 0
      BY <1>z, <3>1
    <3>2. CASE backend # 0
      BY <1>n, <1>b, <3>2
    <3> QED
      BY <3>1, <3>2
  <2>2. hidWorker'.to \in {0, backend}
    BY <1>p
  <2>3. PICK n \in 0..MaxBackends : backend <= n /\ \A b \in Backends : (backends[b].made <=> b <= n)
    BY DEF HidInv, HidMade
  <2>4. hidWorker'.to <= n
    BY <2>2, <2>3
  <2>5. \A b \in Backends : (backends'[b].made <=> b <= n)
    BY <2>1, <2>3
  <2>6. backend # 0 => backends'[backend].init
    BY <1>b, <2>1 DEF HidInv, HidMade
  <2> QED
    BY <1>u, <2>3, <2>4, <2>5, <2>6 DEF HidInv, HidMade
<1>6. HidFlow'
  <2>0. KeysInHand' = KeysNow'
    BY <1>p DEF KeysInHand
  <2>1. CASE backend = 0
    <3>1. KeysNow = {} /\ KeysNow' = {}
      BY <1>u, <2>1 DEF KeysNow
    <3>2. ~eventGap' => ~eventGap /\ KeysInHand = {}
      BY <1>e, <1>z, <2>1, <3>1 DEF KeysInHand, Holding
    <3> QED
      BY <1>z, <1>u, <2>0, <2>1, <3>1, <3>2 DEF HidInv, HidFlow
  <2>2. CASE backend # 0
    <3>1. KeysNow = KeysIn(backends[backend].keys) /\ KeysNow' = KeysIn(keys)
      BY <1>b, <1>n, <1>u, <2>2 DEF KeysNow
    <3>2. CASE hidWorker.ev.type = "reset"
      <4>1. keys = NoKeys
        BY <3>2 DEF keys, KeyboardState
      <4> QED
        BY <1>n, <1>u, <2>0, <2>2, <3>1, <3>2, <4>1, KeyTablesAre DEF HidFlow, Replay
    <3>3. CASE hidWorker.ev.type # "reset"
      <4>1. ASSUME ~eventGap' PROVE ~eventGap /\ ~(hidWorker.ev.type = "down" /\ keys = backends[backend].keys)
        BY <1>n, <2>2, <3>3, <4>1
      <4>2. ASSUME ~eventGap' PROVE KeysIn(keys) = Holding(KeysNow, hidWorker.ev)
        BY <1>t, <1>b, <2>2, <3>1, <4>1, <4>2, KeyboardFollows DEF keys
      <4>3. ASSUME ~eventGap' PROVE KeysIn(keys) = KeysInHand
        <5>1. CASE hidWorker.pc = "event"
          BY <4>2, <4>3, <5>1 DEF KeysInHand
        <5>2. CASE hidWorker.pc = "move"
          BY <1>e, <3>1, <4>2, <4>3, <5>2 DEF KeysInHand, Holding
        <5> QED
          BY <1>u, <5>1, <5>2
      <4> QED
        BY <1>n, <1>u, <2>0, <2>2, <3>1, <3>3, <4>1, <4>3 DEF HidInv, HidFlow
    <3> QED
      BY <3>2, <3>3
  <2> QED
    BY <2>1, <2>2
<1>7. HidHost'
  <2>1. CASE backend = 0
    BY <1>z, <1>u, <1>h, <2>1 DEF HidInv, HidHost, KeysNow
  <2>2. CASE backend # 0 /\ hidWorker.ev.type = "move"
    <3>1. keys = backends[backend].keys
      BY <2>2 DEF keys, KeyboardState
    <3>2. KeysNow' = KeysNow
      BY <1>b, <1>n, <1>u, <2>2, <3>1 DEF KeysNow
    <3> QED
      BY <1>n, <1>u, <1>h, <2>2, <3>2 DEF HidInv, HidHost
  <2>3. CASE backend # 0 /\ hidWorker.ev.type # "move"
    <3>1. hidWorker'.pc = "write" /\ hidWorker'.report = keys /\ backends'[backend].keys = keys
      BY <1>b, <1>n, <2>3
    <3> QED
      BY <1>u, <3>1 DEF HidHost
  <2> QED
    BY <2>1, <2>2, <2>3
<1>8. HidShown'
  BY <1>u DEF HidInv, HidShown, AvailabilityAgrees
<1>9. HidMoves'
  <2>1. hidWorker'.ev.move <= moved /\ hidWorker'.pc \notin {"event", "move"}
    BY <1>e, <1>p DEF HidInv, HidMoves, HidQueueTypes
  <2>2. moved = reached \/ moved = hidWorker.ev.move => moved = reached'
    BY <1>e, <1>u DEF HidInv, HidMoves, HidQueueTypes
  <2> QED
    BY <1>u, <2>1, <2>2 DEF HidInv, HidMoves
<1> QED
  BY <1>1, <1>2, <1>3, <1>4, <1>5, <1>6, <1>7, <1>8, <1>9 DEF HidInv

\* The worker writes a report.
LEMMA HidWrites ==
    ASSUME HidInv, WriteReport
    PROVE  HidInv'
<1> USE DEF WriteReport, ReportWritten, ReportLost, Handled, IdleWorker, queueVars, stateVars
<1>t. hidQueue \in Seq(HidEvents) /\ hidWaiting \in Seq(HidEvents) /\ held \subseteq HidKeys /\ host \subseteq HidKeys /\ hidWorker.ev \in HidEvents
  BY DEF HidInv, HidQueueTypes, HidWorkerTypes
<1>h. /\ Handled \in [pc : {"recv", "flag"}, ev : HidEvents, to : {0}, report : KeyTables] /\ Handled.to = 0 /\ Handled.pc \in {"recv", "flag"}
      /\ Handled.ev.move = 0 /\ hidWorker' = Handled
      /\ Handled \in [pc : {"off", "recv", "event", "write", "flag", "move"}, ev : HidEvents, to : 0..MaxBackends, report : KeyTables]
  BY EventsAre, KeyTablesAre, HidAssumption DEF Reset
<1> HIDE DEF Handled
<1>1. HidQueueTypes'
  BY <1>t DEF HidInv, HidQueueTypes, KeysIn
<1>2. HidFlags'
  BY Zenon DEF HidInv, HidFlags
<1>3. HidWorkerTypes'
  BY <1>h DEF HidWorkerTypes
<1>4. HidBackendTypes'
  BY DEF HidInv, HidBackendTypes
<1>5. HidMade'
  BY <1>h DEF HidInv, HidMade
<1>6. HidFlow'
  BY <1>h DEF HidInv, HidFlow, KeysInHand, KeysNow
<1>7. HidHost'
  <2>1. CASE ReportLost
    BY <2>1, <1>h DEF HidHost
  <2>2. CASE ReportWritten
    <3>1. hidWorker.to = backend => backend # 0 /\ host' = KeysNow
      BY <2>2 DEF HidInv, HidHost, HidWorkerTypes, KeysNow
    <3>2. KeysNow' = KeysNow /\ (~reportGap' => hidWorker.to = backend)
      BY <2>2 DEF KeysNow
    <3> QED
      BY <1>h, <3>1, <3>2 DEF HidHost
  <2> QED
    BY <2>1, <2>2
<1>8. HidShown'
  BY DEF HidInv, HidShown, AvailabilityAgrees
<1>9. HidMoves'
  BY <1>h DEF HidInv, HidMoves, HidQueueTypes
<1> QED
  BY <1>1, <1>2, <1>3, <1>4, <1>5, <1>6, <1>7, <1>8, <1>9 DEF HidInv

\* The worker takes the mouse move that waits.
LEMMA HidTakes ==
    ASSUME HidInv, TakePending
    PROVE  HidInv'
<1> USE DEF TakePending, queueVars, stateVars
<1>t. hidQueue \in Seq(HidEvents) /\ hidWaiting \in Seq(HidEvents) /\ held \subseteq HidKeys /\ host \subseteq HidKeys /\ hidWorker.ev \in HidEvents
  BY DEF HidInv, HidQueueTypes, HidWorkerTypes
<1>1. HidQueueTypes'
  BY DEF HidInv, HidQueueTypes
<1>2. HidFlags'
  BY Zenon DEF HidInv, HidFlags
<1>3. HidWorkerTypes'
  <2>1. Move(pendingMove) \in HidEvents /\ Move(pendingMove).type = "move"
    BY EventsAre DEF HidInv, HidQueueTypes, Move
  <2> QED
    BY <2>1 DEF HidInv, HidWorkerTypes
<1>4. HidBackendTypes'
  BY DEF HidInv, HidBackendTypes
<1>5. HidMade'
  BY DEF HidInv, HidQueueTypes, HidWorkerTypes, HidBackendTypes, HidMade, Backends
<1>6. HidFlow'
  <2>1. KeysInHand' = KeysInHand
    BY DEF KeysInHand, KeysNow, HidInv, HidWorkerTypes
  <2> QED
    BY <2>1 DEF HidInv, HidFlow
<1>7. HidHost'
  BY DEF HidInv, HidQueueTypes, HidWorkerTypes, HidBackendTypes, HidHost, KeysNow
<1>8. HidShown'
  BY DEF HidInv, HidShown, AvailabilityAgrees
<1>9. HidMoves'
  <2>1. Move(pendingMove).type = "move" /\ Move(pendingMove).move = pendingMove
    BY DEF Move
  <2>2. CASE pendingFlag /\ pendingMove # 0
    <3>1. hidWorker'.pc = "move" /\ hidWorker'.ev = Move(pendingMove) /\ hidWorker.pc = "flag"
      BY <2>2 DEF HidInv, HidWorkerTypes
    <3> QED
      BY <2>1, <3>1 DEF HidInv, HidMoves, HidQueueTypes
  <2>3. CASE ~(pendingFlag /\ pendingMove # 0)
    <3>1. hidWorker'.pc = "recv" /\ hidWorker'.ev = hidWorker.ev /\ hidWorker.pc = "flag" /\ UNCHANGED pendingMove
      BY <2>3 DEF HidInv, HidWorkerTypes
    <3> QED
      BY <3>1 DEF HidInv, HidMoves
  <2> QED
    BY <2>2, <2>3
<1> QED
  BY <1>1, <1>2, <1>3, <1>4, <1>5, <1>6, <1>7, <1>8, <1>9 DEF HidInv

\* A backend is replaced.
LEMMA HidReloads ==
    ASSUME HidInv, NEW op \in {"reload", "prepare", "shutdown"}, NEW kind \in BackendKinds, BeginReload(op, kind)
    PROVE  HidInv'
<1> USE DEF BeginReload, Aborted, queueVars, stateVars
<1>b. /\ backend \in 0..MaxBackends /\ (backend # 0 => backend \in Backends)
      /\ backends \in [Backends -> [init : BOOLEAN, made : BOOLEAN, keys : KeyTables]]
      /\ monitors \in [Backends -> [pc : {"off", "wait", "store"}, init : BOOLEAN, aborted : BOOLEAN]]
      /\ reloading \in [pc : {"idle", "take", "zero", "create", "sync"},
                        op : {"init", "reload", "prepare", "shutdown", "none"}, kind : BackendKinds]
  BY HidAssumption DEF HidInv, HidBackendTypes, Backends
<1>1. HidQueueTypes'
  BY DEF HidInv, HidQueueTypes
<1>2. HidFlags'
  <2>1. available' \in BOOLEAN
    BY Zenon
  <2> QED
    BY <2>1, Zenon DEF HidInv, HidFlags
<1>3. HidWorkerTypes'
  BY DEF HidInv, HidWorkerTypes
<1>4. HidBackendTypes'
  <2>1. monitors' \in [Backends -> [pc : {"off", "wait", "store"}, init : BOOLEAN, aborted : BOOLEAN]]
    <3>1. NoMonitor \in [pc : {"off", "wait", "store"}, init : BOOLEAN, aborted : BOOLEAN]
      BY DEF NoMonitor
    <3>2. ASSUME NEW b \in Backends
          PROVE  [monitors[b] EXCEPT !.aborted = TRUE] \in [pc : {"off", "wait", "store"}, init : BOOLEAN, aborted : BOOLEAN]
      BY <1>b
    <3> QED
      BY <3>1, <3>2
  <2>2. reloading' \in [pc : {"idle", "take", "zero", "create", "sync"},
                        op : {"init", "reload", "prepare", "shutdown", "none"}, kind : BackendKinds]
    OBVIOUS
  <2> QED
    BY <2>1, <2>2 DEF HidInv, HidBackendTypes
<1>5. HidMade'
  BY DEF HidInv, HidQueueTypes, HidWorkerTypes, HidBackendTypes, HidMade, Backends
<1>6. HidFlow'
  BY DEF HidInv, HidFlow, KeysNow, KeysInHand
<1>7. HidHost'
  BY DEF HidInv, HidQueueTypes, HidWorkerTypes, HidBackendTypes, HidHost, KeysNow
<1>8. HidShown'
  <2>1. \A b \in Backends : monitors'[b].pc = "off" \/ monitors'[b].aborted
    BY <1>b DEF NoMonitor
  <2>2. reloading'.pc = "take" /\ reloading'.op = op /\ op \in {"reload", "prepare", "shutdown"}
    OBVIOUS
  <2>3. op \in {"reload", "prepare"} => ~available'
    OBVIOUS
  <2> QED
    BY <2>1, <2>2, <2>3 DEF HidShown, AvailabilityAgrees
<1>9. HidMoves'
  BY DEF HidInv, HidMoves
<1> QED
  BY <1>1, <1>2, <1>3, <1>4, <1>5, <1>6, <1>7, <1>8, <1>9 DEF HidInv

\* A write fails.
LEMMA HidGivesUp ==
    ASSUME HidInv, TakeBackend
    PROVE  HidInv'
<1> USE DEF TakeBackend, Goes, queueVars, stateVars
<1>t. hidQueue \in Seq(HidEvents) /\ hidWaiting \in Seq(HidEvents) /\ held \subseteq HidKeys /\ host \subseteq HidKeys /\ hidWorker.ev \in HidEvents
  BY DEF HidInv, HidQueueTypes, HidWorkerTypes
<1>b. /\ backend \in 0..MaxBackends /\ (backend # 0 => backend \in Backends)
      /\ backends \in [Backends -> [init : BOOLEAN, made : BOOLEAN, keys : KeyTables]]
      /\ monitors \in [Backends -> [pc : {"off", "wait", "store"}, init : BOOLEAN, aborted : BOOLEAN]]
      /\ reloading \in [pc : {"idle", "take", "zero", "create", "sync"},
                        op : {"init", "reload", "prepare", "shutdown", "none"}, kind : BackendKinds]
  BY HidAssumption DEF HidInv, HidBackendTypes, Backends
<1>d. /\ backends' \in [Backends -> [init : BOOLEAN, made : BOOLEAN, keys : KeyTables]]
      /\ \A b \in Backends : backends'[b].made = backends[b].made
  <2>1. CASE backend = 0 \/ reloading.op = "prepare"
    <3>1. ASSUME NEW b \in Backends
          PROVE  /\ [backends[b] EXCEPT !.init = FALSE] \in [init : BOOLEAN, made : BOOLEAN, keys : KeyTables]
                 /\ [backends[b] EXCEPT !.init = FALSE].made = backends[b].made
      <4>1. backends[b] \in [init : BOOLEAN, made : BOOLEAN, keys : KeyTables]
        BY <1>b
      <4>2. [backends[b] EXCEPT !.init = FALSE] \in [init : BOOLEAN, made : BOOLEAN, keys : KeyTables]
        BY <4>1
      <4>3. [backends[b] EXCEPT !.init = FALSE].made = backends[b].made
        BY <4>1, Zenon
      <4> QED
        BY <4>2, <4>3
    <3>2. backends' = [b \in Backends |-> IF b = backend THEN [backends[b] EXCEPT !.init = FALSE] ELSE backends[b]]
      BY <2>1
    <3> QED
      BY <1>b, <3>1, <3>2
  <2>2. CASE ~(backend = 0 \/ reloading.op = "prepare")
    <3>1. backends' = [backends EXCEPT ![backend].keys = NoKeys]
      BY <2>2
    <3> QED
      BY <1>b, <2>2, <3>1, KeyTablesAre
  <2> QED
    BY <2>1, <2>2
<1>1. HidQueueTypes'
  <2>1. held' \subseteq HidKeys /\ host' \subseteq HidKeys
    BY <1>t DEF Replay, HeldAfter
  <2> QED
    BY <2>1 DEF HidInv, HidQueueTypes
<1>2. HidFlags'
  <2>1. eventGap' \in BOOLEAN
    OBVIOUS
  <2>2. reportGap' \in BOOLEAN
    OBVIOUS
  <2> QED
    BY <2>1, <2>2, Zenon DEF HidInv, HidFlags
<1>3. HidWorkerTypes'
  BY DEF HidInv, HidWorkerTypes
<1>4. HidBackendTypes'
  <2>1. backends' \in [Backends -> [init : BOOLEAN, made : BOOLEAN, keys : KeyTables]]
    BY <1>d
  <2>2. reloading' \in [pc : {"idle", "take", "zero", "create", "sync"},
                        op : {"init", "reload", "prepare", "shutdown", "none"}, kind : BackendKinds]
    BY <1>b
  <2>3. backend' \in 0..MaxBackends
    BY HidAssumption
  <2> QED
    BY <2>1, <2>2, <2>3 DEF HidInv, HidBackendTypes
<1>5. HidMade'
  <2>1. PICK n \in 0..MaxBackends : hidWorker.to <= n /\ \A b \in Backends : (backends[b].made <=> b <= n)
    BY DEF HidInv, HidMade
  <2>2. backend' <= n /\ \A b \in Backends : (backends'[b].made <=> b <= n)
    BY <1>d, <2>1
  <2>3. reloading'.pc \in {"create", "zero"}
    BY <1>b
  <2> QED
    BY <2>1, <2>2, <2>3 DEF HidMade
<1>6. HidFlow'
  <2>1. eventGap' = (hidWorker.pc = "event") /\ KeysNow' = {} /\ held' = HeldAfter({}, hidQueue \o hidWaiting)
    BY DEF KeysNow, Replay
  <2> QED
    BY <2>1 DEF HidFlow, KeysInHand
<1>7. HidHost'
  <2>1. KeysNow' = {} /\ (hidWorker.pc = "write" => hidWorker.to # backend')
    BY DEF KeysNow, HidInv, HidWorkerTypes
  <2>2. CASE reloading.op = "prepare"
    BY <2>1, <2>2 DEF HidHost
  <2>3. CASE reloading.op # "prepare" /\ backend = 0
    BY <2>1, <2>3 DEF HidInv, HidHost, KeysNow
  <2>4. CASE reloading.op # "prepare" /\ backend # 0
    <3>1. reloading'.pc = "zero"
      BY <1>b, <2>4
    <3> QED
      BY <2>1, <3>1 DEF HidHost
  <2> QED
    BY <2>2, <2>3, <2>4
<1>8. HidShown'
  <2>1. reloading'.pc \in {"create", "zero"} /\ reloading'.op = reloading.op /\ reloading'.kind = reloading.kind /\ reloading'.op = reloading.op /\ reloading.pc # "idle"
    BY <1>b
  <2> QED
    BY <2>1 DEF HidInv, HidShown, AvailabilityAgrees
<1>9. HidMoves'
  BY DEF HidInv, HidMoves
<1> QED
  BY <1>1, <1>2, <1>3, <1>4, <1>5, <1>6, <1>7, <1>8, <1>9 DEF HidInv

\* A reset releases every key.
LEMMA HidZeroes ==
    ASSUME HidInv, ZeroReport
    PROVE  HidInv'
<1> USE DEF ZeroReport, Goes, queueVars, stateVars
<1>b. /\ backend \in 0..MaxBackends /\ (backend # 0 => backend \in Backends)
      /\ backends \in [Backends -> [init : BOOLEAN, made : BOOLEAN, keys : KeyTables]]
      /\ monitors \in [Backends -> [pc : {"off", "wait", "store"}, init : BOOLEAN, aborted : BOOLEAN]]
      /\ reloading \in [pc : {"idle", "take", "zero", "create", "sync"},
                        op : {"init", "reload", "prepare", "shutdown", "none"}, kind : BackendKinds]
  BY HidAssumption DEF HidInv, HidBackendTypes, Backends
<1>z. backend = 0 /\ backend' = 0
  BY DEF HidInv, HidMade
<1>d. /\ backends' \in [Backends -> [init : BOOLEAN, made : BOOLEAN, keys : KeyTables]]
      /\ \A b \in Backends : backends'[b].made = backends[b].made
  <2>1. CASE backends' = backends
    BY <1>b, <2>1
  <2>2. CASE backends' = [backends EXCEPT ![Newest].init = FALSE]
    <3>1. backends' \in [Backends -> [init : BOOLEAN, made : BOOLEAN, keys : KeyTables]]
      BY <1>b, <2>2
    <3>2. ASSUME NEW b \in Backends PROVE backends'[b].made = backends[b].made
      BY <1>b, <2>2
    <3> QED
      BY <3>1, <3>2
  <2> QED
    BY <2>1, <2>2
<1>1. HidQueueTypes'
  BY DEF HidInv, HidQueueTypes, HidWorkerTypes, HidBackendTypes, HidQueueTypes
<1>2. HidFlags'
  <2>1. reportGap' \in BOOLEAN
    OBVIOUS
  <2> QED
    BY <2>1, Zenon DEF HidInv, HidFlags
<1>3. HidWorkerTypes'
  BY DEF HidInv, HidWorkerTypes
<1>4. HidBackendTypes'
  <2>2. reloading' \in [pc : {"idle", "take", "zero", "create", "sync"},
                        op : {"init", "reload", "prepare", "shutdown", "none"}, kind : BackendKinds]
    BY <1>b
  <2> QED
    BY <1>d, <2>2 DEF HidInv, HidBackendTypes
<1>5. HidMade'
  <2>1. PICK n \in 0..MaxBackends : backend <= n /\ hidWorker.to <= n /\ \A b \in Backends : (backends[b].made <=> b <= n)
    BY DEF HidInv, HidMade
  <2>2. \A b \in Backends : (backends'[b].made <=> b <= n)
    BY <1>d, <2>1
  <2>3. reloading'.pc = "create"
    BY <1>b
  <2> QED
    BY <1>z, <2>1, <2>2, <2>3 DEF HidMade
<1>6. HidFlow'
  BY <1>z DEF HidInv, HidFlow, KeysNow, KeysInHand
<1>7. HidHost'
  <2>1. KeysNow' = {} /\ (hidWorker.pc = "write" => hidWorker.to # backend')
    BY <1>z DEF KeysNow, HidInv, HidWorkerTypes
  <2> QED
    BY <2>1 DEF HidHost
<1>8. HidShown'
  <2>1. reloading'.pc = "create" /\ reloading'.op = reloading.op /\ reloading'.kind = reloading.kind /\ reloading'.op = reloading.op /\ reloading.pc # "idle"
    BY <1>b
  <2> QED
    BY <2>1 DEF HidInv, HidShown, AvailabilityAgrees
<1>9. HidMoves'
  BY DEF HidInv, HidMoves
<1> QED
  BY <1>1, <1>2, <1>3, <1>4, <1>5, <1>6, <1>7, <1>8, <1>9 DEF HidInv

\* A backend is made.
LEMMA HidCreates ==
    ASSUME HidInv, CreateBackend
    PROVE  HidInv'
<1> USE DEF CreateBackend, Goes, Creates, Initialized, IdleWorker, queueVars, stateVars
<1>b. /\ backend \in 0..MaxBackends /\ (backend # 0 => backend \in Backends)
      /\ backends \in [Backends -> [init : BOOLEAN, made : BOOLEAN, keys : KeyTables]]
      /\ monitors \in [Backends -> [pc : {"off", "wait", "store"}, init : BOOLEAN, aborted : BOOLEAN]]
      /\ reloading \in [pc : {"idle", "take", "zero", "create", "sync"},
                        op : {"init", "reload", "prepare", "shutdown", "none"}, kind : BackendKinds]
  BY HidAssumption DEF HidInv, HidBackendTypes, Backends
<1>m. PICK n \in 0..MaxBackends : hidWorker.to <= n /\ \A b \in Backends : (backends[b].made <=> b <= n)
  BY DEF HidInv, HidMade
<1>n. n < MaxBackends /\ backend' = n + 1 /\ n + 1 \in Backends /\ n \in Nat /\ hidWorker.to <= n /\ hidWorker.to \in Nat
      /\ \A b \in Backends : (backends[b].made <=> b <= n)
  BY <1>m, NewestIsLast, HidAssumption DEF Backends, HidInv, HidWorkerTypes
<1>i. backends' = [backends EXCEPT ![n + 1] = Initialized] /\ Initialized \in [init : BOOLEAN, made : BOOLEAN, keys : KeyTables]
  BY <1>n, KeyTablesAre
<1>w. \/ hidWorker' = hidWorker /\ hidWorker.pc # "off"
      \/ hidWorker.pc = "off" /\ hidWorker' = IdleWorker /\ hidWorker'.pc = "recv" /\ hidWorker'.to = 0 /\ hidWorker'.ev = Reset
  OBVIOUS
<1>k. KeysNow' = KeysNow
  <2>1. KeysNow = {}
    BY DEF HidInv, HidMade, KeysNow
  <2>2. backends'[backend'].keys = NoKeys
    BY <1>b, <1>n, <1>i
  <2> QED
    BY <1>n, <2>1, <2>2, KeyTablesAre DEF KeysNow
<1>1. HidQueueTypes'
  BY DEF HidInv, HidQueueTypes
<1>2. HidFlags'
  BY Zenon DEF HidInv, HidFlags
<1>3. HidWorkerTypes'
  <2>1. IdleWorker \in [pc : {"off", "recv", "event", "write", "flag", "move"}, ev : HidEvents, to : 0..MaxBackends, report : KeyTables]
    BY EventsAre, KeyTablesAre, HidAssumption
  <2> HIDE DEF IdleWorker
  <2> QED
    BY <1>w, <2>1 DEF HidInv, HidWorkerTypes
<1>4. HidBackendTypes'
  <2>1. backends' \in [Backends -> [init : BOOLEAN, made : BOOLEAN, keys : KeyTables]]
    BY <1>b, <1>n, <1>i
  <2>2. reloading' \in [pc : {"idle", "take", "zero", "create", "sync"},
                        op : {"init", "reload", "prepare", "shutdown", "none"}, kind : BackendKinds]
    BY <1>b
  <2>3. backend' \in 0..MaxBackends
    BY <1>n, HidAssumption
  <2> QED
    BY <2>1, <2>2, <2>3 DEF HidInv, HidBackendTypes
<1>5. HidMade'
  <2>1. backend' <= n + 1 /\ n + 1 \in 0..MaxBackends /\ hidWorker'.to <= n + 1
    BY <1>n, <1>w, HidAssumption
  <2>2. \A b \in Backends : (backends'[b].made <=> b <= n + 1)
    <3>1. ASSUME NEW b \in Backends, b # n + 1 PROVE backends'[b] = backends[b]
      BY <1>b, <1>n, <1>i, <3>1
    <3>2. backends'[n + 1].made
      BY <1>b, <1>n, <1>i
    <3>3. \A b \in Backends : b # n + 1 => (b <= n + 1 <=> b <= n)
      BY <1>n DEF Backends
    <3> QED
      BY <1>n, <3>1, <3>2, <3>3 DEF Backends
  <2>3. backends'[backend'].init /\ backend' # 0
    BY <1>b, <1>n, <1>i
  <2>4. reloading'.pc = "sync"
    BY <1>b
  <2> QED
    BY <2>1, <2>2, <2>3, <2>4 DEF HidMade
<1>6. HidFlow'
  <2>1. KeysInHand' = KeysInHand
    BY <1>k, <1>w DEF KeysInHand
  <2> QED
    BY <2>1 DEF HidInv, HidFlow
<1>7. HidHost'
  <2>1. hidWorker'.pc = "write" => hidWorker.to # backend' /\ hidWorker' = hidWorker
    BY <1>w, <1>n
  <2>2. reloading.pc = "create"
    OBVIOUS
  <2>3. hidWorker'.pc # "write" => hidWorker.pc # "write"
    BY <1>w
  <2> QED
    BY <1>k, <2>1, <2>2, <2>3 DEF HidInv, HidHost
<1>8. HidShown'
  <2>1. reloading'.pc = "sync" /\ reloading.pc = "create" /\ reloading'.kind = reloading.kind /\ reloading'.op = reloading.op /\ reloading.pc # "idle"
    BY <1>b
  <2> QED
    BY <2>1 DEF HidInv, HidShown, AvailabilityAgrees
<1>9. HidMoves'
  <2>1. hidWorker'.ev.move <= moved
    BY <1>w DEF HidInv, HidMoves, HidQueueTypes, Reset
  <2> QED
    BY <1>w, <2>1 DEF HidInv, HidMoves
<1> QED
  BY <1>1, <1>2, <1>3, <1>4, <1>5, <1>6, <1>7, <1>8, <1>9 DEF HidInv

\* The worker is brought in line with its backend.
LEMMA HidSyncs ==
    ASSUME HidInv, Sync
    PROVE  HidInv'
<1> USE DEF Sync, NoReload, NoMonitor, Shown, queueVars, stateVars
<1>b. /\ backend \in 0..MaxBackends /\ (backend # 0 => backend \in Backends)
      /\ backends \in [Backends -> [init : BOOLEAN, made : BOOLEAN, keys : KeyTables]]
      /\ monitors \in [Backends -> [pc : {"off", "wait", "store"}, init : BOOLEAN, aborted : BOOLEAN]]
      /\ reloading \in [pc : {"idle", "take", "zero", "create", "sync"},
                        op : {"init", "reload", "prepare", "shutdown", "none"}, kind : BackendKinds]
  BY HidAssumption DEF HidInv, HidBackendTypes, Backends
<1>s. backend # 0 /\ backends[backend].init /\ reloading.pc = "sync"
  BY DEF HidInv, HidMade
<1>1. HidQueueTypes'
  BY DEF HidInv, HidQueueTypes
<1>2. HidFlags'
  <2>1. available' \in BOOLEAN
    BY <1>b, <1>s
  <2> QED
    BY <2>1, Zenon DEF HidInv, HidFlags
<1>3. HidWorkerTypes'
  BY DEF HidInv, HidWorkerTypes
<1>4. HidBackendTypes'
  <2>1. monitors' \in [Backends -> [pc : {"off", "wait", "store"}, init : BOOLEAN, aborted : BOOLEAN]]
    BY <1>b, <1>s
  <2>2. reloading' \in [pc : {"idle", "take", "zero", "create", "sync"},
                        op : {"init", "reload", "prepare", "shutdown", "none"}, kind : BackendKinds]
    BY DEF BackendKinds
  <2> QED
    BY <1>b, <2>1, <2>2 DEF HidInv, HidBackendTypes
<1>5. HidMade'
  BY DEF HidInv, HidQueueTypes, HidWorkerTypes, HidBackendTypes, HidMade, Backends
<1>6. HidFlow'
  BY DEF HidInv, HidFlow, KeysNow, KeysInHand
<1>7. HidHost'
  BY DEF HidInv, HidQueueTypes, HidWorkerTypes, HidBackendTypes, HidHost, KeysNow
<1>8. HidShown'
  <2>1. reloading'.pc = "idle" /\ available' = backends[backend].init /\ shown'= Shown(backendType', available')
    OBVIOUS
  <2>2. available' = TRUE
    BY <1>b, <1>s, <2>1
  <2>3. ASSUME NEW b \in Backends, b # backend PROVE monitors'[b] = monitors[b] /\ (monitors[b].pc = "off" \/ monitors[b].aborted)
    BY <1>b, <1>s, <2>3 DEF HidInv, HidShown
  <2>4. monitors'[backend].pc = "wait"
    BY <1>b, <1>s
  <2> HIDE DEF Shown
  <2> QED
    BY <1>s, <2>1, <2>2, <2>3, <2>4 DEF HidShown, AvailabilityAgrees
<1>9. HidMoves'
  BY DEF HidInv, HidMoves
<1> QED
  BY <1>1, <1>2, <1>3, <1>4, <1>5, <1>6, <1>7, <1>8, <1>9 DEF HidInv

\* A step that leaves queue, worker and backend alone.
LEMMA HidStays ==
    ASSUME HidInv, NoBackend
    PROVE  HidInv'
<1> USE DEF NoBackend, NoReload, Shown, queueVars, stateVars
<1>b. /\ backend \in 0..MaxBackends /\ (backend # 0 => backend \in Backends)
      /\ backends \in [Backends -> [init : BOOLEAN, made : BOOLEAN, keys : KeyTables]]
      /\ monitors \in [Backends -> [pc : {"off", "wait", "store"}, init : BOOLEAN, aborted : BOOLEAN]]
      /\ reloading \in [pc : {"idle", "take", "zero", "create", "sync"},
                        op : {"init", "reload", "prepare", "shutdown", "none"}, kind : BackendKinds]
  BY HidAssumption DEF HidInv, HidBackendTypes, Backends
<1>o. \A b \in Backends : monitors'[b] = monitors[b] /\ (monitors[b].pc = "off" \/ monitors[b].aborted)
  BY DEF HidInv, HidShown
<1>1. HidQueueTypes'
  BY DEF HidInv, HidQueueTypes
<1>2. HidFlags'
  <2>1. available' \in {available, FALSE} /\ lateStore' \in {lateStore, FALSE}
    BY Zenon
  <2> QED
    BY <2>1, Zenon DEF HidInv, HidFlags
<1>3. HidWorkerTypes'
  BY DEF HidInv, HidWorkerTypes
<1>4. HidBackendTypes'
  <2>1. backendType' \in BackendKinds
    BY <1>b DEF HidInv, HidBackendTypes
  <2>2. reloading' \in [pc : {"idle", "take", "zero", "create", "sync"},
                        op : {"init", "reload", "prepare", "shutdown", "none"}, kind : BackendKinds]
    BY DEF BackendKinds
  <2> QED
    BY <1>b, <2>1, <2>2 DEF HidInv, HidBackendTypes
<1>5. HidMade'
  BY DEF HidInv, HidQueueTypes, HidWorkerTypes, HidBackendTypes, HidMade, Backends
<1>6. HidFlow'
  BY DEF HidInv, HidFlow, KeysNow, KeysInHand
<1>7. HidHost'
  BY DEF HidInv, HidQueueTypes, HidWorkerTypes, HidBackendTypes, HidHost, KeysNow
<1>8. HidShown'
  <2>1. reloading'.pc = "idle" /\ backend' = 0 /\ shown' = Shown(backendType', FALSE) /\ reloading.pc = "create"
    BY DEF HidInv, HidMade
  <2>2. reloading.op \in {"reload", "prepare"} /\ ~lateStore => ~available
    BY <2>1 DEF HidInv, HidShown
  <2>3. CASE reloading.op = "prepare" \/ (reloading.kind = "none" /\ reloading.op # "shutdown")
    <3>1. reloading.op \in {"reload", "prepare"}
      BY <1>b, <2>1, <2>3 DEF HidInv, HidShown
    <3>2. ~lateStore' => available' = FALSE
      BY <2>2, <2>3, <3>1, Zenon DEF HidInv, HidFlags
    <3> HIDE DEF Shown
    <3> QED
      BY <1>o, <2>1, <3>2 DEF HidInv, HidShown, AvailabilityAgrees
  <2>4. CASE ~(reloading.op = "prepare" \/ (reloading.kind = "none" /\ reloading.op # "shutdown"))
    <3>1. available' = FALSE
      BY <2>4
    <3> HIDE DEF Shown
    <3> QED
      BY <1>o, <2>1, <3>1 DEF HidInv, HidShown, AvailabilityAgrees
  <2> QED
    BY <2>3, <2>4
<1>9. HidMoves'
  BY DEF HidInv, HidMoves
<1> QED
  BY <1>1, <1>2, <1>3, <1>4, <1>5, <1>6, <1>7, <1>8, <1>9 DEF HidInv

\* The state of the backend is noted.
LEMMA HidNotes ==
    ASSUME HidInv, NEW b \in Backends, Notified(b)
    PROVE  HidInv'
<1> USE DEF Notified, Monitor, queueVars, stateVars
<1>b. /\ monitors \in [Backends -> [pc : {"off", "wait", "store"}, init : BOOLEAN, aborted : BOOLEAN]]
      /\ backends[b].init \in BOOLEAN /\ monitors[b].init \in BOOLEAN /\ monitors[b].aborted \in BOOLEAN
  BY DEF HidInv, HidBackendTypes
<1>1. HidQueueTypes'
  BY DEF HidInv, HidQueueTypes
<1>2. HidFlags'
  BY Zenon DEF HidInv, HidFlags
<1>3. HidWorkerTypes'
  BY DEF HidInv, HidWorkerTypes
<1>4. HidBackendTypes'
  BY DEF HidInv, HidQueueTypes, HidWorkerTypes, HidBackendTypes, HidBackendTypes
<1>5. HidMade'
  BY DEF HidInv, HidMade, Backends
<1>6. HidFlow'
  BY DEF HidInv, HidFlow, KeysNow, KeysInHand
<1>7. HidHost'
  BY DEF HidInv, HidHost, KeysNow
<1>8. HidShown'
  <2>1. /\ monitors'[b].pc = "store" /\ monitors'[b].aborted = monitors[b].aborted /\ monitors'[b].init = backends[b].init
        /\ \A x \in Backends : x # b => monitors'[x] = monitors[x]
    BY <1>b
  <2>2. ~monitors[b].aborted => reloading.pc = "idle" /\ backend = b /\ backends[b].init
    <3>1. b # 0
      BY DEF Backends
    <3> QED
      BY <3>1 DEF HidInv, HidShown, HidMade
  <2> QED
    BY <2>1, <2>2 DEF HidInv, HidShown, AvailabilityAgrees
<1>9. HidMoves'
  BY DEF HidInv, HidMoves
<1> QED
  BY <1>1, <1>2, <1>3, <1>4, <1>5, <1>6, <1>7, <1>8, <1>9 DEF HidInv

\* The state of the backend is published.
LEMMA HidPublishes ==
    ASSUME HidInv, NEW b \in Backends, Stores(b)
    PROVE  HidInv'
<1> USE DEF Stores, Monitor, NoMonitor, Shown, queueVars, stateVars
<1>b. /\ monitors \in [Backends -> [pc : {"off", "wait", "store"}, init : BOOLEAN, aborted : BOOLEAN]]
      /\ backends[b].init \in BOOLEAN /\ monitors[b].init \in BOOLEAN /\ monitors[b].aborted \in BOOLEAN
  BY DEF HidInv, HidBackendTypes
<1>1. HidQueueTypes'
  BY DEF HidInv, HidQueueTypes
<1>2. HidFlags'
  <2>1. available' \in BOOLEAN
    BY <1>b
  <2>2. lateStore' \in BOOLEAN
    BY Zenon
  <2> QED
    BY <2>1, <2>2, Zenon DEF HidInv, HidFlags
<1>3. HidWorkerTypes'
  BY DEF HidInv, HidWorkerTypes
<1>4. HidBackendTypes'
  BY DEF HidInv, HidQueueTypes, HidWorkerTypes, HidBackendTypes, HidBackendTypes
<1>5. HidMade'
  BY DEF HidInv, HidMade, Backends
<1>6. HidFlow'
  BY DEF HidInv, HidFlow, KeysNow, KeysInHand
<1>7. HidHost'
  BY DEF HidInv, HidHost, KeysNow
<1>8. HidShown'
  <2>1. /\ monitors'[b] = IF monitors[b].aborted THEN NoMonitor ELSE [NoMonitor EXCEPT !.pc = "wait"]
        /\ \A x \in Backends : x # b => monitors'[x] = monitors[x]
    BY <1>b
  <2>2. CASE monitors[b].aborted
    <3>0. monitors'[b].pc = "off"
      BY <2>1, <2>2
    <3>1. lateStore' /\ monitors'[b].pc = "off"
      BY <2>2, <3>0, Zenon
    <3> QED
      BY <2>1, <3>1 DEF HidInv, HidShown, AvailabilityAgrees
  <2>3. CASE ~monitors[b].aborted
    <3>1. reloading.pc = "idle" /\ backend = b /\ monitors[b].init /\ b # 0
      BY <2>3 DEF HidInv, HidShown, Backends
    <3>2. available' = TRUE
      BY <1>b, <3>1
    <3>3. monitors'[b].pc = "wait"
      BY <2>1, <2>3
    <3>4. shown' = Shown(backendType, available')
      OBVIOUS
    <3> HIDE DEF Shown
    <3> QED
      BY <2>1, <3>1, <3>2, <3>3, <3>4 DEF HidInv, HidShown, AvailabilityAgrees
  <2> QED
    BY <2>2, <2>3
<1>9. HidMoves'
  BY DEF HidInv, HidMoves
<1> QED
  BY <1>1, <1>2, <1>3, <1>4, <1>5, <1>6, <1>7, <1>8, <1>9 DEF HidInv

\* A request is cancelled.
LEMMA HidCancels ==
    ASSUME HidInv, NEW b \in Backends, Cancelled(b)
    PROVE  HidInv'
<1> USE DEF Cancelled, Monitor, NoMonitor, queueVars, stateVars
<1>b. /\ monitors \in [Backends -> [pc : {"off", "wait", "store"}, init : BOOLEAN, aborted : BOOLEAN]]
      /\ backends[b].init \in BOOLEAN /\ monitors[b].init \in BOOLEAN /\ monitors[b].aborted \in BOOLEAN
  BY DEF HidInv, HidBackendTypes
<1>1. HidQueueTypes'
  BY DEF HidInv, HidQueueTypes
<1>2. HidFlags'
  BY Zenon DEF HidInv, HidFlags
<1>3. HidWorkerTypes'
  BY DEF HidInv, HidWorkerTypes
<1>4. HidBackendTypes'
  BY DEF HidInv, HidQueueTypes, HidWorkerTypes, HidBackendTypes, HidBackendTypes
<1>5. HidMade'
  BY DEF HidInv, HidMade, Backends
<1>6. HidFlow'
  BY DEF HidInv, HidFlow, KeysNow, KeysInHand
<1>7. HidHost'
  BY DEF HidInv, HidHost, KeysNow
<1>8. HidShown'
  BY DEF HidInv, HidQueueTypes, HidWorkerTypes, HidBackendTypes, HidShown, AvailabilityAgrees
<1>9. HidMoves'
  BY DEF HidInv, HidMoves
<1> QED
  BY <1>1, <1>2, <1>3, <1>4, <1>5, <1>6, <1>7, <1>8, <1>9 DEF HidInv

\* Every step of the input queue keeps its invariant.
LEMMA HidSteps == HidInv /\ [HidNext]_hidVars => HidInv'
<1> SUFFICES ASSUME HidInv, [HidNext]_hidVars PROVE HidInv'
  OBVIOUS
<1>1. ASSUME NEW k \in HidKeys, SendEvent(Down(k)) \/ SendEvent(Up(k)) PROVE HidInv'
  BY <1>1, EventsAre, HidSends DEF Down, Up
<1>2. CASE Disconnect
  BY <1>2, EventsAre, HidSends DEF Disconnect, Reset
<1>3. CASE SendTimesOut \/ SendMove \/ StorePending \/ RaiseFlag
  BY <1>3, HidDrops, HidMovesOn, HidStores, HidRaises
<1>4. CASE Receive \/ Process \/ WriteReport \/ TakePending
  BY <1>4, HidReceives, HidProcesses, HidWrites, HidTakes
<1>5. CASE (\E kind \in BackendKinds : Reload(kind)) \/ PrepareRebuild \/ ShutdownController
  <2>1. "otg" \in BackendKinds /\ "none" \in BackendKinds
    BY DEF BackendKinds
  <2> QED
    BY <1>5, <2>1, HidReloads DEF Reload, PrepareRebuild, ShutdownController
<1>6. CASE TakeBackend \/ ZeroReport \/ CreateBackend \/ Sync \/ NoBackend
  BY <1>6, HidGivesUp, HidZeroes, HidCreates, HidSyncs, HidStays
<1>7. ASSUME NEW b \in Backends, Notified(b) \/ Stores(b) \/ Cancelled(b) PROVE HidInv'
  BY <1>7, HidNotes, HidPublishes, HidCancels
<1>8. CASE UNCHANGED hidVars
  <2> USE <1>8 DEF hidVars, queueVars, stateVars
  <2>1. HidQueueTypes' /\ HidWorkerTypes' /\ HidBackendTypes'
    BY DEF HidInv, HidQueueTypes, HidWorkerTypes, HidBackendTypes
  <2>2. HidFlags'
    BY Zenon DEF HidInv, HidFlags
  <2>3. HidMade' /\ HidMoves'
    BY DEF HidInv, HidMade, HidMoves
  <2>4. HidFlow' /\ HidHost'
    BY DEF HidInv, HidFlow, HidHost, KeysNow, KeysInHand
  <2>5. HidShown'
    BY DEF HidInv, HidShown, AvailabilityAgrees
  <2> QED
    BY <2>1, <2>2, <2>3, <2>4, <2>5 DEF HidInv
<1> QED
  BY <1>1, <1>2, <1>3, <1>4, <1>5, <1>6, <1>7, <1>8 DEF HidNext

\* The invariant gives what is promised of the input queue.
LEMMA HidPromised == HidInv => HidPromise
<1> SUFFICES ASSUME HidInv PROVE HidPromise
  OBVIOUS
<1>1. HidTypeOK
  <2>1. pendingFlag \in BOOLEAN /\ available \in BOOLEAN
    BY Zenon DEF HidInv, HidFlags
  <2> QED
    BY <2>1 DEF HidTypeOK, HidInv, HidQueueTypes, HidWorkerTypes, HidBackendTypes
<1>2. HostFollowsClients
  <2> SUFFICES ASSUME HidQuiet, ~eventGap, ~reportGap PROVE host = held
    BY DEF HostFollowsClients
  <2>1. hidQueue \o hidWaiting = << >> /\ KeysInHand = KeysNow
    BY DEF HidQuiet, KeysInHand
  <2>2. held = KeysNow
    BY <2>1, HandIsKeys, AfterNothing DEF HidInv, HidFlow
  <2>3. host = KeysNow
    BY DEF HidQuiet, HidInv, HidHost
  <2> QED
    BY <2>2, <2>3
<1>3. AvailabilityAgrees
  BY DEF HidInv, HidShown
<1>4. NewestMoveKept
  <2>1. ASSUME NEW e \in ToSet(hidQueue), e.type = "move", e.move = moved PROVE moved \in Queued
    BY <2>1 DEF ToSet, Queued
  <2>2. hidWorker.pc \in {"event", "move"} /\ hidWorker.ev.type = "move" /\ hidWorker.ev.move = moved => moved \in InHand
    BY DEF InHand
  <2> QED
    BY <2>1, <2>2 DEF HidInv, HidMoves, NewestMoveKept
<1> QED
  BY <1>1, <1>2, <1>3, <1>4 DEF HidPromise

-----------------------------------------------------------------------------
\* The network bridge

Journals == [txn : Nat, uplink : NbUplinks, uuids : SUBSET {"bridge", "uplink", "usb"}]

\* Before the journal is written, while it is acted on, and while it is undone.
NbPreparing == {"build", "select", "prepare", "reset", "journal"}
NbActing == {"link", "add", "record", "configure", "down", "activate", "address"}
NbUndoing == {"delete", "unlink", "original", "forget"}

NbPcs == {"idle", "reconcile"} \cup NbPreparing \cup NbActing \cup NbUndoing

NbJobs == [pc : NbPcs, step : 0..4,
           j : Journals \cup {NbNone}, ok : BOOLEAN,
           then : {"-", "recover", "reconcile", "shutdown", "failed"}, want : BOOLEAN]

NbTypes ==
    /\ nbCon \in [NbUplinks -> {"orig", "port", "down"}]
    /\ nbProfs \subseteq Nat \X NbKinds
    /\ nbDisk \in Journals \cup {NbNone} /\ nbGone \subseteq Journals
    /\ nbSvc \in [up : BOOLEAN, checked : BOOLEAN, runtime : Journals \cup {NbNone}]
    /\ nbJob \in NbJobs /\ nbTxn \in Nat
    /\ nbJob.pc \in {"add", "record", "configure", "down", "activate", "delete"} => nbJob.step \in 1..3
    /\ nbJob.pc \in {"prepare", "reset", "journal"} => nbJob.j \in Journals

\* Who owns the journal: an operation that acts on it, a roll back, or the
\* bridge the service holds; never two of them.
NbOwns ==
    /\ nbJob.pc # "idle" => nbSvc.up
    /\ ~nbSvc.checked => nbSvc.runtime = NbNone
    /\ nbJob.pc \in {"reconcile"} \cup NbPreparing \cup NbActing => nbSvc.checked
    /\ nbJob.pc \in NbPreparing \cup NbActing => nbSvc.runtime = NbNone
    /\ nbJob.pc \in NbActing => nbDisk \in Journals /\ nbJob.j = nbDisk
    /\ nbJob.pc \in NbUndoing =>
         /\ nbDisk \in Journals /\ nbJob.j \in Journals
         /\ nbDisk.txn = nbJob.j.txn /\ nbDisk.uplink = nbJob.j.uplink
         /\ nbJob.then \in {"recover", "reconcile", "shutdown", "failed"}
         /\ nbJob.then \in {"recover", "failed"} => nbSvc.runtime = NbNone
         /\ nbJob.then = "reconcile" => nbSvc.checked
    /\ RuntimeIsJournaled

\* What a restore without an error has undone so far.
NbUndone ==
    nbJob.pc \in NbUndoing /\ nbJob.ok =>
       /\ \A i \in 1..3 : (nbJob.pc = "delete" => i > nbJob.step) => <<nbJob.j.txn, Kinds[i]>> \notin nbProfs
       /\ nbJob.pc = "forget" => nbCon[nbJob.j.uplink] = "orig"

NbInv == NbTypes /\ NbOwns /\ NbUndone /\ UplinkCanComeBack /\ ProfilesAccounted

\* The three profiles of a transaction.
LEMMA KindsAre ==
    /\ Kinds[1] = "bridge" /\ Kinds[2] = "uplink" /\ Kinds[3] = "usb"
    /\ NbKinds = {"bridge", "uplink", "usb"}
    /\ \A i \in 1..3 : Kinds[i] \in NbKinds
<1>1. Kinds[1] = "bridge" /\ Kinds[2] = "uplink" /\ Kinds[3] = "usb"
  BY DEF Kinds
<1>2. NbKinds = {Kinds[1], Kinds[2], Kinds[3]}
  BY DEF NbKinds
<1> QED
  BY <1>1, <1>2

\* The value for no journal is no journal.
LEMMA NoneIsNoJournal == NbNone \notin Journals /\ \A j \in Journals : j # NbNone
BY NbAssumption DEF Journals

\* The machine boots with every uplink on its own connection.
LEMMA NbStarts == NbInit => NbInv
<1> SUFFICES ASSUME NbInit PROVE NbInv
  OBVIOUS
<1>1. NbTypes
  BY DEF NbInit, NbTypes, NbDown, NbIdle, NbJobs, NbPcs
<1>2. NbOwns
  BY DEF NbInit, NbOwns, NbDown, NbIdle, NbPreparing, NbActing, NbUndoing, RuntimeIsJournaled
<1>3. NbUndone /\ UplinkCanComeBack /\ ProfilesAccounted
  BY DEF NbInit, NbUndone, NbIdle, NbUndoing, UplinkCanComeBack, ProfilesAccounted
<1> QED
  BY <1>1, <1>2, <1>3 DEF NbInv

\* The places where an operation can be.
LEMMA PcsAre ==
    /\ NbPreparing \subseteq NbPcs /\ NbActing \subseteq NbPcs /\ NbUndoing \subseteq NbPcs
    /\ {"build", "select", "prepare", "reset", "journal"} \subseteq NbPcs
    /\ {"link", "add", "record", "configure", "down", "activate", "address"} \subseteq NbPcs
    /\ {"delete", "unlink", "original", "forget"} \subseteq NbPcs
BY DEF NbPcs, NbPreparing, NbActing, NbUndoing

\* An operation that moves on keeps the rest of its record.
LEMMA ToPc ==
    ASSUME NEW b \in NbJobs, NEW p \in NbPcs
    PROVE  /\ [b EXCEPT !.pc = p] \in NbJobs
           /\ [b EXCEPT !.pc = p].pc = p
           /\ [b EXCEPT !.pc = p].j = b.j
           /\ [b EXCEPT !.pc = p].then = b.then
           /\ [b EXCEPT !.pc = p].ok = b.ok
           /\ [b EXCEPT !.pc = p].step = b.step
           /\ [b EXCEPT !.pc = p].want = b.want
BY DEF NbJobs

\* An operation that notes an error keeps its journal and who waits for it.
LEMMA ToPcFailed ==
    ASSUME NEW b \in NbJobs, NEW p \in NbPcs
    PROVE  /\ [b EXCEPT !.pc = p, !.ok = FALSE] \in NbJobs
           /\ [b EXCEPT !.pc = p, !.ok = FALSE].pc = p
           /\ [b EXCEPT !.pc = p, !.ok = FALSE].j = b.j
           /\ [b EXCEPT !.pc = p, !.ok = FALSE].then = b.then
           /\ [b EXCEPT !.pc = p, !.ok = FALSE].ok = FALSE
BY DEF NbJobs

\* A restore begins with the last profile of its journal.
LEMMA RestoringIs ==
    ASSUME NEW j \in Journals, NEW t \in {"recover", "reconcile", "shutdown", "failed"}, NEW w \in BOOLEAN
    PROVE  /\ Restoring(j, t, w) \in NbJobs /\ Restoring(j, t, w).pc = "delete" /\ Restoring(j, t, w).step = 3
           /\ Restoring(j, t, w).j = j /\ Restoring(j, t, w).then = t
BY DEF Restoring, NbJobs, NbPcs, NbUndoing

\* An operation that starts anew with what is wanted.
LEMMA WantsBoolean ==
    ASSUME NEW b \in NbJobs, NEW p \in NbPcs, NEW w \in BOOLEAN
    PROVE  [b EXCEPT !.pc = p, !.want = w] \in NbJobs /\ [b EXCEPT !.pc = p, !.want = w].pc = p
BY DEF NbJobs

\* An operation that begins, or none.
LEMMA NewJobs ==
    /\ NbIdle \in NbJobs /\ NbIdle.pc = "idle"
    /\ \A w \in BOOLEAN, p \in {"reconcile", "build"} :
         [NbIdle EXCEPT !.pc = p, !.want = w] \in NbJobs /\ [NbIdle EXCEPT !.pc = p, !.want = w].pc = p
<1>1. NbIdle \in NbJobs /\ NbIdle.pc = "idle"
  BY DEF NbIdle, NbJobs, NbPcs
<1>2. {"reconcile", "build"} \subseteq NbPcs
  BY DEF NbPcs, NbPreparing
<1> QED
  BY <1>1, <1>2, WantsBoolean

\* An operation gives up with nothing to undo.
LEMMA NbLeaves ==
    ASSUME NbInv, nbJob' = NbIdle, UNCHANGED <<nbCon, nbProfs, nbDisk, nbSvc, nbTxn, nbGone>>
    PROVE  NbInv'
<1>n. nbJob' \in NbJobs /\ nbJob'.pc = "idle"
  BY NewJobs
<1>1. NbTypes'
  BY <1>n DEF NbInv, NbTypes
<1>2. NbOwns'
  BY <1>n DEF NbInv, NbOwns, RuntimeIsJournaled, NbPreparing, NbActing, NbUndoing
<1>3. NbUndone'
  BY <1>n DEF NbUndone, NbUndoing
<1>4. UplinkCanComeBack' /\ ProfilesAccounted'
  BY DEF NbInv, UplinkCanComeBack, ProfilesAccounted
<1> QED
  BY <1>1, <1>2, <1>3, <1>4 DEF NbInv

\* An operation that has not written its journal goes on.
LEMMA NbGetsReady ==
    ASSUME NbInv, nbJob.pc \in {"reconcile"} \cup NbPreparing, nbSvc.runtime = NbNone,
           nbJob' \in NbJobs, nbJob'.pc \in NbPreparing,
           nbJob'.pc \in {"prepare", "reset", "journal"} => nbJob'.j \in Journals,
           nbCon' \in [NbUplinks -> {"orig", "port", "down"}], nbProfs' \subseteq nbProfs,
           \A u \in NbUplinks : nbCon[u] = "orig" => nbCon'[u] = "orig",
           UNCHANGED <<nbDisk, nbSvc, nbTxn, nbGone>>
    PROVE  NbInv'
<1>n. nbJob'.pc \in {"build", "select", "prepare", "reset", "journal"}
  BY DEF NbPreparing
<1>o. nbSvc.up /\ nbSvc.checked
  BY DEF NbInv, NbOwns, NbPreparing
<1>1. NbTypes'
  BY <1>n DEF NbInv, NbTypes
<1>2. NbOwns'
  BY <1>n, <1>o DEF NbInv, NbOwns, RuntimeIsJournaled, NbPreparing, NbActing, NbUndoing
<1>3. NbUndone'
  BY <1>n DEF NbUndone, NbUndoing
<1>4. UplinkCanComeBack' /\ ProfilesAccounted'
  BY DEF NbInv, NbTypes, UplinkCanComeBack, ProfilesAccounted
<1> QED
  BY <1>1, <1>2, <1>3, <1>4 DEF NbInv

\* An operation that has written its journal goes on: it touches its own uplink
\* and makes profiles of its own transaction.
LEMMA NbActs ==
    ASSUME NbInv, nbJob.pc \in NbActing,
           nbJob' \in NbJobs, nbJob'.pc \in NbActing, nbJob'.j = nbJob.j,
           nbJob'.pc \in {"add", "record", "configure", "down", "activate"} => nbJob'.step \in 1..3,
           nbCon' \in [NbUplinks -> {"orig", "port", "down"}],
           \A u \in NbUplinks : u # nbJob.j.uplink => nbCon'[u] = nbCon[u],
           nbProfs' \subseteq nbProfs \cup {<<nbJob.j.txn, k>> : k \in NbKinds},
           UNCHANGED <<nbDisk, nbSvc, nbTxn, nbGone>>
    PROVE  NbInv'
<1>n. nbJob'.pc \in {"link", "add", "record", "configure", "down", "activate", "address"}
  BY DEF NbActing
<1>o. nbSvc.up /\ nbSvc.checked /\ nbSvc.runtime = NbNone /\ nbDisk \in Journals /\ nbJob.j = nbDisk
  BY DEF NbInv, NbOwns, NbActing
<1>t. nbDisk.txn \in Nat /\ nbDisk.uplink \in NbUplinks /\ nbDisk # NbNone
  BY <1>o, NoneIsNoJournal DEF Journals
<1>p. \A p \in nbProfs' : p \in nbProfs \/ (p[1] = nbDisk.txn /\ p \in Nat \X NbKinds)
  BY <1>o, <1>t
<1>1. NbTypes'
  BY <1>n, <1>p DEF NbInv, NbTypes
<1>2. NbOwns'
  BY <1>n, <1>o DEF NbInv, NbOwns, RuntimeIsJournaled, NbPreparing, NbActing, NbUndoing
<1>3. NbUndone'
  BY <1>n DEF NbUndone, NbUndoing
<1>4. UplinkCanComeBack'
  BY <1>o, <1>t DEF NbInv, NbTypes, UplinkCanComeBack
<1>5. ProfilesAccounted'
  BY <1>p, <1>t DEF NbInv, ProfilesAccounted
<1> QED
  BY <1>1, <1>2, <1>3, <1>4, <1>5 DEF NbInv

\* A restore of the journal on disk begins: a roll back, a recovery, or the
\* taking down of the bridge the service holds.
LEMMA NbTurnsBack ==
    ASSUME NbInv, NEW k \in Journals, NEW t \in {"recover", "reconcile", "shutdown", "failed"}, NEW w \in BOOLEAN,
           nbSvc.up, nbDisk \in Journals, k.txn = nbDisk.txn, k.uplink = nbDisk.uplink,
           t \in {"recover", "failed"} => nbSvc.runtime = NbNone, t = "reconcile" => nbSvc.checked,
           nbJob' = Restoring(k, t, w),
           nbProfs' \subseteq nbProfs \cup {<<nbDisk.txn, x>> : x \in NbKinds},
           UNCHANGED <<nbCon, nbDisk, nbSvc, nbTxn, nbGone>>
    PROVE  NbInv'
<1>n. nbJob' \in NbJobs /\ nbJob'.pc = "delete" /\ nbJob'.step = 3 /\ nbJob'.j = k /\ nbJob'.then = t
  BY RestoringIs
<1>t. nbDisk.txn \in Nat /\ nbDisk # NbNone
  BY NoneIsNoJournal DEF Journals
<1>p. \A p \in nbProfs' : p \in nbProfs \/ (p[1] = nbDisk.txn /\ p \in Nat \X NbKinds)
  BY <1>t
<1>1. NbTypes'
  BY <1>n, <1>p DEF NbInv, NbTypes
<1>2. NbOwns'
  BY <1>n DEF NbInv, NbOwns, RuntimeIsJournaled, NbPreparing, NbActing, NbUndoing
<1>3. NbUndone'
  BY <1>n DEF NbUndone, NbUndoing
<1>4. UplinkCanComeBack'
  BY DEF NbInv, UplinkCanComeBack
<1>5. ProfilesAccounted'
  BY <1>p, <1>t DEF NbInv, ProfilesAccounted
<1> QED
  BY <1>1, <1>2, <1>3, <1>4, <1>5 DEF NbInv

\* A step of a restore: it removes profiles of its own transaction and moves its
\* own uplink.
LEMMA NbUndoes ==
    ASSUME NbInv, nbJob.pc \in NbUndoing,
           nbJob' \in NbJobs, nbJob'.pc \in NbUndoing, nbJob'.j = nbJob.j, nbJob'.then = nbJob.then,
           nbJob'.pc = "delete" => nbJob'.step \in 1..3,
           nbCon' \in [NbUplinks -> {"orig", "port", "down"}],
           \A u \in NbUplinks : u # nbJob.j.uplink => nbCon'[u] = nbCon[u],
           nbProfs' \subseteq nbProfs, NbUndone',
           UNCHANGED <<nbDisk, nbSvc, nbTxn, nbGone>>
    PROVE  NbInv'
<1>n. nbJob'.pc \in {"delete", "unlink", "original", "forget"}
  BY DEF NbUndoing
<1>o. nbSvc.up /\ nbDisk \in Journals /\ nbJob.j \in Journals /\ nbDisk.txn = nbJob.j.txn /\ nbDisk.uplink = nbJob.j.uplink
  BY DEF NbInv, NbOwns, NbUndoing
<1>t. nbDisk # NbNone
  BY <1>o, NoneIsNoJournal
<1>1. NbTypes'
  BY <1>n DEF NbInv, NbTypes
<1>2. NbOwns'
  BY <1>n, <1>o DEF NbInv, NbOwns, RuntimeIsJournaled, NbPreparing, NbActing, NbUndoing
<1>4. UplinkCanComeBack'
  BY <1>o, <1>t DEF NbInv, NbTypes, UplinkCanComeBack
<1>5. ProfilesAccounted'
  BY <1>t DEF NbInv, ProfilesAccounted
<1> QED
  BY <1>1, <1>2, <1>4, <1>5 DEF NbInv

\* A profile is deleted, or deleting it fails.
LEMMA NbDeletes == ASSUME NbInv, DeleteProfile PROVE NbInv'
<1> DEFINE n == nbJob.step
           p == IF n = 1 THEN "unlink" ELSE "delete"
<1>o. /\ nbJob \in NbJobs /\ nbJob.pc = "delete" /\ n \in 1..3 /\ nbJob.j \in Journals
      /\ nbCon \in [NbUplinks -> {"orig", "port", "down"}]
  BY DEF NbInv, NbTypes, NbOwns, NbUndoing, DeleteProfile
<1>u. nbJob.j.uplink \in NbUplinks
  BY <1>o DEF Journals
<1>p. n - 1 \in 0..4 /\ p \in NbUndoing /\ (p = "delete" => n - 1 \in 1..3)
  BY <1>o DEF NbUndoing
<1>q. p \in NbPcs
  BY <1>p, PcsAre
<1> HIDE DEF p
<1>1. CASE /\ nbProfs' = nbProfs \ {<<nbJob.j.txn, Kinds[n]>>}
           /\ nbCon' = IF Kinds[n] = "usb" THEN nbCon ELSE Dropped(nbJob.j.uplink)
           /\ nbJob' = [nbJob EXCEPT !.step = n - 1, !.pc = p]
  <2>1. nbJob' \in NbJobs /\ nbJob'.pc = p /\ nbJob'.j = nbJob.j /\ nbJob'.step = n - 1 /\ nbJob'.ok = nbJob.ok
        /\ nbJob'.then = nbJob.then
    BY <1>1, <1>o, <1>p, <1>q DEF NbJobs
  <2>2. /\ nbCon' \in [NbUplinks -> {"orig", "port", "down"}]
        /\ \A u \in NbUplinks : u # nbJob.j.uplink => nbCon'[u] = nbCon[u]
    BY <1>1, <1>o, <1>u DEF Dropped
  <2>3. NbUndone'
    <3>1. SUFFICES ASSUME nbJob'.ok, NEW i \in 1..3, p = "delete" => i > n - 1
                   PROVE  <<nbJob.j.txn, Kinds[i]>> \notin nbProfs'
      BY <2>1, <1>p DEF NbUndone, NbUndoing, p
    <3>2. i >= n
      BY <3>1, <1>o DEF p
    <3>3. CASE i = n
      BY <3>3, <1>1
    <3>4. CASE i > n
      BY <3>1, <3>4, <2>1, <1>o, <1>1 DEF NbInv, NbUndone, NbUndoing
    <3> QED
      BY <3>2, <3>3, <3>4, <1>o
  <2> QED
    BY <2>1, <2>2, <2>3, <1>1, <1>o, <1>p, NbUndoes DEF DeleteProfile, NbUndoing
<1>2. CASE nbJob' = [nbJob EXCEPT !.step = n - 1, !.ok = FALSE, !.pc = p] /\ UNCHANGED <<nbProfs, nbCon>>
  <2>1. nbJob' \in NbJobs /\ nbJob'.pc = p /\ nbJob'.j = nbJob.j /\ nbJob'.step = n - 1 /\ ~nbJob'.ok
        /\ nbJob'.then = nbJob.then
    BY <1>2, <1>o, <1>p, <1>q DEF NbJobs
  <2>3. NbUndone'
    BY <2>1 DEF NbUndone
  <2> QED
    BY <2>1, <2>3, <1>2, <1>o, <1>p, NbUndoes DEF DeleteProfile, NbUndoing
<1> QED
  BY <1>1, <1>2 DEF DeleteProfile, p

\* The bridge interface is deleted, or deleting it fails.
LEMMA NbUnlinks == ASSUME NbInv, DeleteLink PROVE NbInv'
<1>o. /\ nbJob \in NbJobs /\ nbJob.pc = "unlink" /\ nbJob.j \in Journals
      /\ nbCon \in [NbUplinks -> {"orig", "port", "down"}]
  BY DEF NbInv, NbTypes, NbOwns, NbUndoing, DeleteLink
<1>u. nbJob.j.uplink \in NbUplinks /\ "original" \in NbUndoing
  BY <1>o DEF Journals, NbUndoing
<1>1. CASE nbCon' = Dropped(nbJob.j.uplink) /\ nbJob' = [nbJob EXCEPT !.pc = "original"]
  <2>1. nbJob' \in NbJobs /\ nbJob'.pc = "original" /\ nbJob'.j = nbJob.j /\ nbJob'.ok = nbJob.ok /\ nbJob'.then = nbJob.then
    BY <1>1, <1>o, <1>u, PcsAre, ToPc
  <2>2. /\ nbCon' \in [NbUplinks -> {"orig", "port", "down"}]
        /\ \A u \in NbUplinks : u # nbJob.j.uplink => nbCon'[u] = nbCon[u]
    BY <1>1, <1>o, <1>u DEF Dropped
  <2>3. NbUndone'
    BY <2>1, <1>o DEF NbInv, NbUndone, NbUndoing, DeleteLink
  <2> QED
    BY <2>1, <2>2, <2>3, <1>o, <1>u, NbUndoes DEF DeleteLink, NbUndoing
<1>2. CASE nbJob' = [nbJob EXCEPT !.pc = "original", !.ok = FALSE] /\ UNCHANGED nbCon
  <2>1. nbJob' \in NbJobs /\ nbJob'.pc = "original" /\ nbJob'.j = nbJob.j /\ ~nbJob'.ok /\ nbJob'.then = nbJob.then
    BY <1>2, <1>o, <1>u, PcsAre, ToPcFailed
  <2>3. NbUndone'
    BY <2>1 DEF NbUndone
  <2> QED
    BY <2>1, <2>3, <1>2, <1>o, <1>u, NbUndoes DEF DeleteLink, NbUndoing
<1> QED
  BY <1>1, <1>2 DEF DeleteLink

\* The original connection is brought up, or that fails.
LEMMA NbRestores == ASSUME NbInv, RestoreOriginal PROVE NbInv'
<1>o. /\ nbJob \in NbJobs /\ nbJob.pc = "original" /\ nbJob.j \in Journals
      /\ nbCon \in [NbUplinks -> {"orig", "port", "down"}]
  BY DEF NbInv, NbTypes, NbOwns, NbUndoing, RestoreOriginal
<1>u. nbJob.j.uplink \in NbUplinks /\ "forget" \in NbUndoing
  BY <1>o DEF Journals, NbUndoing
<1>1. CASE nbCon' = [nbCon EXCEPT ![nbJob.j.uplink] = "orig"] /\ nbJob' = [nbJob EXCEPT !.pc = "forget"]
  <2>1. nbJob' \in NbJobs /\ nbJob'.pc = "forget" /\ nbJob'.j = nbJob.j /\ nbJob'.ok = nbJob.ok /\ nbJob'.then = nbJob.then
    BY <1>1, <1>o, <1>u, PcsAre, ToPc
  <2>2. /\ nbCon' \in [NbUplinks -> {"orig", "port", "down"}] /\ nbCon'[nbJob.j.uplink] = "orig"
        /\ \A u \in NbUplinks : u # nbJob.j.uplink => nbCon'[u] = nbCon[u]
    BY <1>1, <1>o, <1>u
  <2>3. NbUndone'
    BY <2>1, <2>2, <1>o DEF NbInv, NbUndone, NbUndoing, RestoreOriginal
  <2> QED
    BY <2>1, <2>2, <2>3, <1>o, <1>u, NbUndoes DEF RestoreOriginal, NbUndoing
<1>2. CASE nbJob' = [nbJob EXCEPT !.pc = "forget", !.ok = FALSE] /\ UNCHANGED nbCon
  <2>1. nbJob' \in NbJobs /\ nbJob'.pc = "forget" /\ nbJob'.j = nbJob.j /\ ~nbJob'.ok /\ nbJob'.then = nbJob.then
    BY <1>2, <1>o, <1>u, PcsAre, ToPcFailed
  <2>3. NbUndone'
    BY <2>1 DEF NbUndone
  <2> QED
    BY <2>1, <2>3, <1>2, <1>o, <1>u, NbUndoes DEF RestoreOriginal, NbUndoing
<1> QED
  BY <1>1, <1>2 DEF RestoreOriginal

\* A restore ends: the journal goes only if everything was undone.
LEMMA NbForgets == ASSUME NbInv, RestoreEnds PROVE NbInv'
<1>o. /\ nbJob \in NbJobs /\ nbJob.pc = "forget" /\ nbJob.j \in Journals /\ nbDisk \in Journals /\ nbSvc.up
      /\ nbDisk.txn = nbJob.j.txn /\ nbDisk.uplink = nbJob.j.uplink /\ nbJob.want \in BOOLEAN
      /\ nbJob.then \in {"recover", "reconcile", "shutdown", "failed"}
      /\ nbJob.then \in {"recover", "failed"} => nbSvc.runtime = NbNone
      /\ nbCon \in [NbUplinks -> {"orig", "port", "down"}] /\ nbProfs \subseteq Nat \X NbKinds
      /\ nbSvc \in [up : BOOLEAN, checked : BOOLEAN, runtime : Journals \cup {NbNone}]
      /\ ~nbSvc.checked => nbSvc.runtime = NbNone
  BY DEF NbInv, NbTypes, NbOwns, NbUndoing, RestoreEnds, NbJobs
<1>k. UNCHANGED <<nbCon, nbProfs, nbTxn, nbGone>>
  BY DEF RestoreEnds, nbHost
<1>j. nbJob' \in NbJobs /\ nbJob'.pc \in {"idle", "reconcile", "build"}
  <2>1. \/ nbJob' = NbIdle
        \/ nbJob' = [NbIdle EXCEPT !.pc = "reconcile", !.want = nbJob.want]
        \/ nbJob' = [NbIdle EXCEPT !.pc = "build", !.want = nbJob.want]
    BY <1>o DEF RestoreEnds, AfterRestore
  <2> DEFINE w == nbJob.want
  <2>2. w \in BOOLEAN
    BY <1>o
  <2> HIDE DEF w
  <2>3. /\ [NbIdle EXCEPT !.pc = "reconcile", !.want = w] \in NbJobs
        /\ [NbIdle EXCEPT !.pc = "reconcile", !.want = w].pc = "reconcile"
        /\ [NbIdle EXCEPT !.pc = "build", !.want = w] \in NbJobs
        /\ [NbIdle EXCEPT !.pc = "build", !.want = w].pc = "build"
    BY <2>2, NewJobs
  <2> QED
    BY <2>1, <2>3, NewJobs DEF w
<1>s. /\ nbSvc' \in [up : BOOLEAN, checked : BOOLEAN, runtime : Journals \cup {NbNone}]
      /\ ~nbSvc'.checked => nbSvc'.runtime = NbNone
  <2>1. \/ nbSvc' = [nbSvc EXCEPT !.checked = TRUE] /\ nbSvc.runtime = NbNone
        \/ nbSvc' = [nbSvc EXCEPT !.runtime = NbNone]
        \/ nbSvc' = NbDown
        \/ nbSvc' = nbSvc
    BY <1>o DEF RestoreEnds, AfterRestore
  <2>2. CASE nbSvc' = [nbSvc EXCEPT !.checked = TRUE] /\ nbSvc.runtime = NbNone
    BY <1>o, <2>2
  <2>3. CASE nbSvc' = [nbSvc EXCEPT !.runtime = NbNone]
    BY <1>o, <2>3
  <2>4. CASE nbSvc' = NbDown
    BY <2>4 DEF NbDown
  <2>5. CASE nbSvc' = nbSvc
    BY <1>o, <2>5
  <2> QED
    BY <2>1, <2>2, <2>3, <2>4, <2>5
<1>1. CASE nbJob.ok /\ nbDisk' = NbNone /\ AfterRestore(TRUE)
  <2>g. \A p \in nbProfs : p[1] # nbDisk.txn
    <3>1. SUFFICES ASSUME NEW p \in nbProfs, p[1] = nbDisk.txn PROVE FALSE
      OBVIOUS
    <3>2. p \in Nat \X NbKinds /\ p = <<nbJob.j.txn, p[2]>>
      BY <3>1, <1>o
    <3>3. PICK i \in 1..3 : p[2] = Kinds[i]
      BY <3>2 DEF NbKinds
    <3>4. <<nbJob.j.txn, Kinds[i]>> \notin nbProfs
      BY <1>1, <1>o DEF NbInv, NbUndone, NbUndoing
    <3> QED
      BY <3>1, <3>2, <3>3, <3>4
  <2>c. nbCon[nbDisk.uplink] = "orig"
    BY <1>1, <1>o DEF NbInv, NbUndone, NbUndoing
  <2>r. nbSvc'.runtime = NbNone /\ (nbJob'.pc # "idle" => nbSvc'.up /\ nbSvc'.checked)
    <3>1. \/ /\ nbSvc' = [nbSvc EXCEPT !.checked = TRUE] /\ nbSvc.runtime = NbNone
             /\ nbJob' = [NbIdle EXCEPT !.pc = "reconcile", !.want = nbJob.want]
          \/ /\ nbSvc' = [nbSvc EXCEPT !.runtime = NbNone] /\ nbJob.then = "reconcile"
             /\ nbJob' = [NbIdle EXCEPT !.pc = "build", !.want = nbJob.want]
          \/ nbSvc' = NbDown /\ nbJob' = NbIdle
          \/ nbSvc' = nbSvc /\ nbSvc.runtime = NbNone /\ nbJob' = NbIdle
      BY <1>1, <1>o DEF AfterRestore
    <3>2. CASE /\ nbSvc' = [nbSvc EXCEPT !.checked = TRUE] /\ nbSvc.runtime = NbNone
      BY <3>2, <1>o
    <3>3. CASE nbSvc' = [nbSvc EXCEPT !.runtime = NbNone] /\ nbJob.then = "reconcile"
      <4>1. nbSvc.checked /\ nbSvc.up
        BY <1>o, <3>3 DEF NbInv, NbOwns, NbUndoing
      <4> QED
        BY <3>3, <4>1, <1>o
    <3>4. CASE nbSvc' = NbDown /\ nbJob' = NbIdle
      BY <3>4, NewJobs DEF NbDown
    <3>5. CASE nbSvc' = nbSvc /\ nbSvc.runtime = NbNone /\ nbJob' = NbIdle
      BY <3>5, NewJobs
    <3> QED
      BY <3>1, <3>2, <3>3, <3>4, <3>5
  <2>1. NbTypes'
    BY <1>1, <1>j, <1>k, <1>s DEF NbInv, NbTypes
  <2>2. NbOwns'
    BY <1>j, <1>s, <2>r DEF NbOwns, RuntimeIsJournaled, NbPreparing, NbActing, NbUndoing
  <2>3. NbUndone'
    BY <1>j DEF NbUndone, NbUndoing
  <2>4. UplinkCanComeBack'
    BY <1>1, <1>k, <1>o, <2>c DEF NbInv, UplinkCanComeBack
  <2>5. ProfilesAccounted'
    BY <1>1, <1>k, <2>g DEF NbInv, ProfilesAccounted
  <2> QED
    BY <2>1, <2>2, <2>3, <2>4, <2>5 DEF NbInv
<1>2. CASE UNCHANGED nbDisk /\ AfterRestore(FALSE)
  <2>r. nbJob' = NbIdle /\ nbJob'.pc = "idle" /\ (nbSvc'.runtime # NbNone => nbSvc'.runtime = nbSvc.runtime)
    <3>1. nbJob' = NbIdle /\ (nbSvc' = NbDown \/ nbSvc' = nbSvc)
      BY <1>2 DEF AfterRestore
    <3>2. NbDown.runtime = NbNone
      BY DEF NbDown
    <3> QED
      BY <3>1, <3>2, NewJobs
  <2>1. NbTypes'
    BY <1>2, <1>j, <1>k, <1>s, <2>r DEF NbInv, NbTypes
  <2>2. NbOwns'
    BY <1>2, <1>s, <2>r DEF NbInv, NbOwns, RuntimeIsJournaled, NbPreparing, NbActing, NbUndoing
  <2>3. NbUndone'
    BY <2>r DEF NbUndone, NbUndoing
  <2>4. UplinkCanComeBack' /\ ProfilesAccounted'
    BY <1>2, <1>k DEF NbInv, UplinkCanComeBack, ProfilesAccounted
  <2> QED
    BY <2>1, <2>2, <2>3, <2>4 DEF NbInv
<1>3. nbJob.ok \in BOOLEAN
  BY <1>o DEF NbJobs
<1>4. nbJob.ok = TRUE \/ nbJob.ok = FALSE
  BY <1>3
<1> QED
  BY <1>1, <1>2, <1>4 DEF RestoreEnds

\* The service starts, or applies a configuration with nothing to undo.
LEMMA NbBoots == ASSUME NbInv, Boot PROVE NbInv'
<1>o. nbJob.pc = "idle" /\ nbSvc' = [up |-> TRUE, checked |-> FALSE, runtime |-> NbNone]
  BY DEF NbInv, NbTypes, NbJobs, NbOwns, Boot, NbDown
<1>1. NbTypes'
  <2>1. nbSvc' \in [up : BOOLEAN, checked : BOOLEAN, runtime : Journals \cup {NbNone}]
    BY <1>o
  <2> QED
    BY <1>o, <2>1 DEF NbInv, NbTypes, Boot, nbHost
<1>2. NbOwns'
  BY <1>o DEF NbOwns, Boot, RuntimeIsJournaled, NbPreparing, NbActing, NbUndoing
<1>3. NbUndone'
  BY <1>o DEF NbUndone, NbUndoing, Boot
<1>4. UplinkCanComeBack' /\ ProfilesAccounted'
  BY DEF NbInv, UplinkCanComeBack, ProfilesAccounted, Boot, nbHost
<1> QED
  BY <1>1, <1>2, <1>3, <1>4 DEF NbInv

\* A configuration is applied; the first of a process recovers.
LEMMA NbApplies == ASSUME NbInv, NEW w \in BOOLEAN, ApplyConfig(w) PROVE NbInv'
<1>s. /\ nbSvc \in [up : BOOLEAN, checked : BOOLEAN, runtime : Journals \cup {NbNone}] /\ nbSvc.up
      /\ nbDisk \in Journals \cup {NbNone} /\ UNCHANGED <<nbCon, nbProfs, nbDisk, nbTxn, nbGone>>
  BY DEF NbInv, NbTypes, ApplyConfig, nbHost
<1>1. CASE nbSvc' = [nbSvc EXCEPT !.checked = TRUE] /\ nbJob' = [NbIdle EXCEPT !.pc = "reconcile", !.want = w]
  <2>1. nbJob' \in NbJobs /\ nbJob'.pc = "reconcile"
    BY <1>1, NewJobs
  <2>2. /\ nbSvc' \in [up : BOOLEAN, checked : BOOLEAN, runtime : Journals \cup {NbNone}]
        /\ nbSvc'.up /\ nbSvc'.checked /\ nbSvc'.runtime = nbSvc.runtime
    BY <1>1, <1>s
  <2>3. NbTypes'
    BY <2>1, <2>2, <1>s DEF NbInv, NbTypes
  <2>4. NbOwns'
    BY <2>1, <2>2, <1>s DEF NbInv, NbOwns, RuntimeIsJournaled, NbPreparing, NbActing, NbUndoing
  <2>5. NbUndone' /\ UplinkCanComeBack' /\ ProfilesAccounted'
    BY <2>1, <1>s DEF NbInv, NbUndone, NbUndoing, UplinkCanComeBack, ProfilesAccounted
  <2> QED
    BY <2>3, <2>4, <2>5 DEF NbInv
<1>2. CASE ~nbSvc.checked /\ nbDisk # NbNone /\ nbJob' = Restoring(nbDisk, "recover", w) /\ UNCHANGED nbSvc
  <2>1. nbDisk \in Journals /\ nbSvc.runtime = NbNone
    BY <1>2, <1>s DEF NbInv, NbOwns
  <2> QED
    BY <2>1, <1>2, <1>s, NbTurnsBack
<1> QED
  BY <1>1, <1>2 DEF ApplyConfig

\* A bridge that is on is taken down first.
LEMMA NbReconciles == ASSUME NbInv, ReconcileGadget PROVE NbInv'
<1>s. /\ nbJob \in NbJobs /\ nbJob.pc = "reconcile" /\ nbJob.want \in BOOLEAN /\ nbSvc.up /\ nbSvc.checked
      /\ nbSvc \in [up : BOOLEAN, checked : BOOLEAN, runtime : Journals \cup {NbNone}]
      /\ nbCon \in [NbUplinks -> {"orig", "port", "down"}]
      /\ UNCHANGED <<nbCon, nbProfs, nbDisk, nbSvc, nbTxn, nbGone>>
  BY DEF NbInv, NbTypes, NbJobs, NbOwns, ReconcileGadget, nbHost
<1>1. CASE nbSvc.runtime = NbNone /\ nbJob' = [nbJob EXCEPT !.pc = "build"]
  <2>1. nbJob' \in NbJobs /\ nbJob'.pc = "build"
    BY <1>1, <1>s, PcsAre, ToPc
  <2> QED
    BY <2>1, <1>1, <1>s, NbGetsReady DEF NbPreparing
<1>2. CASE nbSvc.runtime # NbNone /\ nbJob' = Restoring(nbSvc.runtime, "reconcile", nbJob.want)
  <2>1. nbSvc.runtime \in Journals /\ nbDisk = nbSvc.runtime
    BY <1>2, <1>s DEF NbInv, NbOwns, RuntimeIsJournaled
  <2> QED
    BY <2>1, <1>2, <1>s, NbTurnsBack
<1> QED
  BY <1>1, <1>2 DEF ReconcileGadget

\* The gadget is built.
LEMMA NbBuilds == ASSUME NbInv, BuildGadget PROVE NbInv'
<1>s. /\ nbJob \in NbJobs /\ nbJob.pc = "build" /\ nbSvc.runtime = NbNone
      /\ nbCon \in [NbUplinks -> {"orig", "port", "down"}]
      /\ UNCHANGED <<nbCon, nbProfs, nbDisk, nbSvc, nbTxn, nbGone>>
  BY DEF NbInv, NbTypes, NbOwns, BuildGadget, nbHost, NbPreparing
<1>1. CASE nbJob' = NbIdle
  BY <1>1, <1>s, NbLeaves
<1>2. CASE nbJob' = [nbJob EXCEPT !.pc = "select"]
  <2>1. nbJob' \in NbJobs /\ nbJob'.pc = "select"
    BY <1>2, <1>s, PcsAre, ToPc
  <2> QED
    BY <2>1, <1>s, NbGetsReady DEF NbPreparing
<1> QED
  BY <1>1, <1>2 DEF BuildGadget

\* The service shuts down and takes its bridge along.
LEMMA NbShutsDown == ASSUME NbInv, ShutdownOtg PROVE NbInv'
<1>s. /\ nbJob \in NbJobs /\ nbJob.pc = "idle" /\ nbSvc.up
      /\ nbSvc \in [up : BOOLEAN, checked : BOOLEAN, runtime : Journals \cup {NbNone}]
      /\ UNCHANGED <<nbCon, nbProfs, nbDisk, nbTxn, nbGone>>
  BY DEF NbInv, NbTypes, ShutdownOtg, nbHost
<1>1. CASE nbSvc' = NbDown /\ UNCHANGED nbJob
  <2>1. /\ nbSvc' \in [up : BOOLEAN, checked : BOOLEAN, runtime : Journals \cup {NbNone}] /\ nbSvc'.runtime = NbNone
    BY <1>1 DEF NbDown
  <2>3. NbTypes'
    BY <2>1, <1>1, <1>s DEF NbInv, NbTypes
  <2>4. NbOwns'
    BY <2>1, <1>1, <1>s DEF NbOwns, RuntimeIsJournaled, NbPreparing, NbActing, NbUndoing
  <2>5. NbUndone' /\ UplinkCanComeBack' /\ ProfilesAccounted'
    BY <1>1, <1>s DEF NbInv, NbUndone, NbUndoing, UplinkCanComeBack, ProfilesAccounted
  <2> QED
    BY <2>3, <2>4, <2>5 DEF NbInv
<1>2. CASE nbSvc.runtime # NbNone /\ nbJob' = Restoring(nbSvc.runtime, "shutdown", FALSE) /\ UNCHANGED nbSvc
  <2>1. nbSvc.runtime \in Journals /\ nbDisk = nbSvc.runtime
    BY <1>2, <1>s DEF NbInv, NbOwns, RuntimeIsJournaled
  <2> QED
    BY <2>1, <1>2, <1>s, NbTurnsBack
<1> QED
  BY <1>1, <1>2 DEF ShutdownOtg

\* The process dies and the journal survives.
LEMMA NbCrashes == ASSUME NbInv, Crash PROVE NbInv'
<1>n. nbJob' \in NbJobs /\ nbJob'.pc = "idle" /\ UNCHANGED <<nbCon, nbProfs, nbDisk, nbTxn, nbGone>>
  BY NewJobs DEF Crash, nbHost
<1>s. /\ nbSvc' \in [up : BOOLEAN, checked : BOOLEAN, runtime : Journals \cup {NbNone}] /\ nbSvc'.runtime = NbNone
  BY DEF Crash, NbDown
<1>3. NbTypes'
  BY <1>n, <1>s DEF NbInv, NbTypes
<1>4. NbOwns'
  BY <1>n, <1>s DEF NbOwns, RuntimeIsJournaled, NbPreparing, NbActing, NbUndoing
<1>5. NbUndone' /\ UplinkCanComeBack' /\ ProfilesAccounted'
  BY <1>n DEF NbInv, NbUndone, NbUndoing, UplinkCanComeBack, ProfilesAccounted
<1> QED
  BY <1>3, <1>4, <1>5 DEF NbInv

\* The machine restarts and the journal does not survive.
LEMMA NbReboots == ASSUME NbInv, Reboot PROVE NbInv'
<1>n. /\ nbJob' \in NbJobs /\ nbJob'.pc = "idle" /\ nbDisk' = NbNone /\ UNCHANGED <<nbProfs, nbTxn>>
      /\ nbCon' = [u \in NbUplinks |-> "orig"]
      /\ nbGone' = IF nbDisk = NbNone THEN nbGone ELSE nbGone \cup {nbDisk}
  BY NewJobs DEF Reboot
<1>s. /\ nbSvc' \in [up : BOOLEAN, checked : BOOLEAN, runtime : Journals \cup {NbNone}] /\ nbSvc'.runtime = NbNone
  BY DEF Reboot, NbDown
<1>3. NbTypes'
  BY <1>n, <1>s DEF NbInv, NbTypes
<1>4. NbOwns'
  BY <1>n, <1>s DEF NbOwns, RuntimeIsJournaled, NbPreparing, NbActing, NbUndoing
<1>5. NbUndone' /\ UplinkCanComeBack'
  BY <1>n DEF NbUndone, NbUndoing, UplinkCanComeBack
<1>6. ProfilesAccounted'
  BY <1>n DEF NbInv, ProfilesAccounted
<1> QED
  BY <1>3, <1>4, <1>5, <1>6 DEF NbInv

\* An uplink is selected.
LEMMA NbSelects == ASSUME NbInv, SelectUplink PROVE NbInv'
<1>s. /\ nbJob \in NbJobs /\ nbJob.pc = "select" /\ nbSvc.runtime = NbNone /\ nbTxn \in Nat
      /\ nbCon \in [NbUplinks -> {"orig", "port", "down"}]
      /\ UNCHANGED <<nbCon, nbProfs, nbDisk, nbSvc, nbTxn, nbGone>>
  BY DEF NbInv, NbTypes, NbOwns, SelectUplink, nbHost, NbPreparing
<1>1. CASE nbJob' = NbIdle
  BY <1>1, <1>s, NbLeaves
<1>2. ASSUME NEW u \in NbUplinks, nbJob' = [nbJob EXCEPT !.pc = "prepare", !.j = Journal(nbTxn + 1, u)]
      PROVE  NbInv'
  <2>0. Journal(nbTxn + 1, u) \in Journals
    BY <1>s DEF Journal, Journals
  <2> DEFINE x == Journal(nbTxn + 1, u)
  <2> HIDE DEF x
  <2>p. "prepare" \in NbPcs /\ x \in Journals /\ nbJob' = [nbJob EXCEPT !.pc = "prepare", !.j = x]
    BY <1>2, <2>0, PcsAre DEF x
  <2>1. nbJob' \in NbJobs /\ nbJob'.pc = "prepare" /\ nbJob'.j \in Journals
    BY <2>p, <1>s DEF NbJobs
  <2> QED
    BY <2>1, <1>s, NbGetsReady DEF NbPreparing
<1> QED
  BY <1>1, <1>2 DEF SelectUplink, GiveUp

\* The USB interface is prepared.
LEMMA NbPrepares == ASSUME NbInv, PrepareDevice PROVE NbInv'
<1>s. /\ nbJob \in NbJobs /\ nbJob.pc = "prepare" /\ nbSvc.runtime = NbNone /\ nbJob.j \in Journals
      /\ nbCon \in [NbUplinks -> {"orig", "port", "down"}]
      /\ UNCHANGED <<nbCon, nbProfs, nbDisk, nbSvc, nbTxn, nbGone>>
  BY DEF NbInv, NbTypes, NbOwns, PrepareDevice, nbHost, NbPreparing
<1>1. CASE nbJob' = NbIdle
  BY <1>1, <1>s, NbLeaves
<1>2. CASE nbJob' = [nbJob EXCEPT !.pc = "reset"]
  <2>1. nbJob' \in NbJobs /\ nbJob'.pc = "reset" /\ nbJob'.j \in Journals
    BY <1>2, <1>s, PcsAre, ToPc
  <2> QED
    BY <2>1, <1>s, NbGetsReady DEF NbPreparing
<1> QED
  BY <1>1, <1>2 DEF PrepareDevice, GiveUp

\* An old bridge is removed.
LEMMA NbResets == ASSUME NbInv, ResetBridge PROVE NbInv'
<1>s. /\ nbJob \in NbJobs /\ nbJob.pc = "reset" /\ nbSvc.runtime = NbNone /\ nbJob.j \in Journals
      /\ nbCon \in [NbUplinks -> {"orig", "port", "down"}]
      /\ UNCHANGED <<nbDisk, nbSvc, nbTxn, nbGone>>
  BY DEF NbInv, NbTypes, NbOwns, ResetBridge, NbPreparing
<1>1. CASE nbJob' = NbIdle /\ UNCHANGED <<nbCon, nbProfs>>
  BY <1>1, <1>s, NbLeaves
<1>2. CASE /\ nbProfs' = {p \in nbProfs : p[2] # "bridge"}
           /\ nbCon' = [u \in NbUplinks |-> IF nbCon[u] = "port" THEN "down" ELSE nbCon[u]]
           /\ nbJob' = [nbJob EXCEPT !.pc = "journal"]
  <2>1. nbJob' \in NbJobs /\ nbJob'.pc = "journal" /\ nbJob'.j \in Journals
    BY <1>2, <1>s, PcsAre, ToPc
  <2>2. /\ nbCon' \in [NbUplinks -> {"orig", "port", "down"}] /\ nbProfs' \subseteq nbProfs
        /\ \A u \in NbUplinks : nbCon[u] = "orig" => nbCon'[u] = "orig"
    BY <1>2, <1>s
  <2> QED
    BY <2>1, <2>2, <1>s, NbGetsReady DEF NbPreparing
<1> QED
  BY <1>1, <1>2 DEF ResetBridge, GiveUp, nbHost

\* The journal is written before anything is taken.
LEMMA NbJournals == ASSUME NbInv, WriteJournal PROVE NbInv'
<1>s. /\ nbJob \in NbJobs /\ nbJob.pc = "journal" /\ nbSvc.runtime = NbNone /\ nbJob.j \in Journals /\ nbTxn \in Nat
      /\ nbSvc.up /\ nbSvc.checked /\ UNCHANGED <<nbCon, nbProfs, nbSvc>>
  BY DEF NbInv, NbTypes, NbOwns, WriteJournal, nbHost, NbPreparing
<1>1. CASE nbJob' = NbIdle /\ UNCHANGED <<nbDisk, nbTxn, nbGone>>
  BY <1>1, <1>s, NbLeaves
<1>2. CASE /\ nbDisk' = nbJob.j
           /\ nbGone' = IF nbDisk = NbNone THEN nbGone ELSE nbGone \cup {nbDisk}
           /\ nbTxn' = nbTxn + 1 /\ nbJob' = [nbJob EXCEPT !.pc = "link"]
  <2>1. nbJob' \in NbJobs /\ nbJob'.pc = "link" /\ nbJob'.j = nbJob.j
    BY <1>2, <1>s, PcsAre, ToPc
  <2>2. NbTypes'
    BY <1>2, <1>s, <2>1 DEF NbInv, NbTypes
  <2>3. NbOwns'
    BY <1>2, <1>s, <2>1 DEF NbOwns, RuntimeIsJournaled, NbPreparing, NbActing, NbUndoing
  <2>4. NbUndone'
    BY <2>1 DEF NbUndone, NbUndoing
  <2>5. UplinkCanComeBack'
    BY <1>2, <1>s DEF NbInv, UplinkCanComeBack
  <2>6. ProfilesAccounted'
    BY <1>2, <1>s DEF NbInv, ProfilesAccounted
  <2> QED
    BY <2>2, <2>3, <2>4, <2>5, <2>6 DEF NbInv
<1> QED
  BY <1>1, <1>2 DEF WriteJournal, GiveUp

\* What an operation on its journal may rely on.
LEMMA Acting ==
    ASSUME NbInv, nbJob.pc \in NbActing
    PROVE  /\ nbJob \in NbJobs /\ nbDisk \in Journals /\ nbJob.j = nbDisk /\ nbSvc.up /\ nbSvc.runtime = NbNone
           /\ nbCon \in [NbUplinks -> {"orig", "port", "down"}] /\ nbJob.j.uplink \in NbUplinks
           /\ nbJob.pc \in {"add", "record", "configure", "down", "activate"} => nbJob.step \in 1..3
<1>1. /\ nbJob \in NbJobs /\ nbDisk \in Journals /\ nbJob.j = nbDisk /\ nbSvc.runtime = NbNone
      /\ nbCon \in [NbUplinks -> {"orig", "port", "down"}]
      /\ nbJob.pc \in {"add", "record", "configure", "down", "activate"} => nbJob.step \in 1..3
  BY DEF NbInv, NbTypes, NbOwns
<1>2. nbSvc.up
  BY DEF NbInv, NbOwns, NbActing
<1> QED
  BY <1>1, <1>2 DEF Journals

\* The bridge interface is made.
LEMMA NbLinks == ASSUME NbInv, CreateLink PROVE NbInv'
<1>p. nbJob.pc = "link" /\ nbJob.pc \in NbActing
  BY DEF CreateLink, NbActing
<1>s. UNCHANGED <<nbCon, nbProfs, nbDisk, nbSvc, nbTxn, nbGone>>
  BY DEF CreateLink, nbHost
<1>1. CASE nbJob' = [nbJob EXCEPT !.pc = "add", !.step = 1]
  <2>1. nbJob' \in NbJobs /\ nbJob'.pc = "add" /\ nbJob'.step = 1 /\ nbJob'.j = nbJob.j
    <3>1. "add" \in NbPcs /\ 1 \in 0..4
      BY PcsAre
    <3> QED
      BY <3>1, <1>1, <1>p, Acting DEF NbJobs
  <2> QED
    BY <2>1, <1>1, <1>p, <1>s, Acting, NbActs DEF NbActing
<1>2. CASE nbJob' = Restoring(nbJob.j, "failed", FALSE) /\ TRUE
  BY <1>2, <1>p, <1>s, Acting, NbTurnsBack
<1> QED
  BY <1>1, <1>2 DEF CreateLink, RollBack

\* A profile is added.
LEMMA NbAdds == ASSUME NbInv, AddProfile PROVE NbInv'
<1>p. nbJob.pc = "add" /\ nbJob.pc \in NbActing
  BY DEF AddProfile, NbActing
<1>s. UNCHANGED <<nbCon, nbDisk, nbSvc, nbTxn, nbGone>>
  BY DEF AddProfile, nbHost
<1>1. CASE nbProfs' = nbProfs \cup {<<nbJob.j.txn, Kinds[nbJob.step]>>} /\ nbJob' = [nbJob EXCEPT !.pc = "record"]
  <2>1. nbJob' \in NbJobs /\ nbJob'.pc = "record" /\ nbJob'.step = nbJob.step /\ nbJob'.j = nbJob.j
    BY <1>1, <1>p, Acting, PcsAre, ToPc
  <2>2. nbProfs' \subseteq nbProfs \cup {<<nbJob.j.txn, k>> : k \in NbKinds}
    BY <1>1, <1>p, Acting, KindsAre
  <2> QED
    BY <2>1, <2>2, <1>1, <1>p, <1>s, Acting, NbActs DEF NbActing
<1>2. CASE nbJob' = Restoring(nbJob.j, "failed", FALSE) /\ nbProfs' \in {nbProfs, nbProfs \cup {<<nbJob.j.txn, Kinds[nbJob.step]>>}}
  <2>1. nbProfs' \subseteq nbProfs \cup {<<nbDisk.txn, x>> : x \in NbKinds}
    BY <1>2, <1>p, Acting, KindsAre
  <2> QED
    BY <2>1, <1>2, <1>p, <1>s, Acting, NbTurnsBack
<1> QED
  BY <1>1, <1>2 DEF AddProfile, RollBack

\* A profile is configured.
LEMMA NbConfigures == ASSUME NbInv, ConfigureProfile PROVE NbInv'
<1>p. nbJob.pc = "configure" /\ nbJob.pc \in NbActing
  BY DEF ConfigureProfile, NbActing
<1>s. UNCHANGED <<nbCon, nbProfs, nbDisk, nbSvc, nbTxn, nbGone>>
  BY DEF ConfigureProfile, nbHost
<1>1. CASE nbJob' = [nbJob EXCEPT !.pc = "add"]
  <2>1. nbJob' \in NbJobs /\ nbJob'.pc = "add" /\ nbJob'.step = nbJob.step /\ nbJob'.j = nbJob.j
    BY <1>1, <1>p, Acting, PcsAre, ToPc
  <2> QED
    BY <2>1, <1>1, <1>p, <1>s, Acting, NbActs DEF NbActing
<1>2. CASE nbJob' = Restoring(nbJob.j, "failed", FALSE) /\ TRUE
  BY <1>2, <1>p, <1>s, Acting, NbTurnsBack
<1> QED
  BY <1>1, <1>2 DEF ConfigureProfile, RollBack

\* The original connection is taken down.
LEMMA NbTakesDown == ASSUME NbInv, TakeDown PROVE NbInv'
<1>p. nbJob.pc = "down" /\ nbJob.pc \in NbActing
  BY DEF TakeDown, NbActing
<1>s. UNCHANGED <<nbProfs, nbDisk, nbSvc, nbTxn, nbGone>>
  BY DEF TakeDown, nbHost
<1>1. CASE nbCon' = [nbCon EXCEPT ![nbJob.j.uplink] = "down"] /\ nbJob' = [nbJob EXCEPT !.pc = "activate"]
  <2>1. nbJob' \in NbJobs /\ nbJob'.pc = "activate" /\ nbJob'.step = nbJob.step /\ nbJob'.j = nbJob.j
    BY <1>1, <1>p, Acting, PcsAre, ToPc
  <2>2. /\ nbCon' \in [NbUplinks -> {"orig", "port", "down"}]
        /\ \A u \in NbUplinks : u # nbJob.j.uplink => nbCon'[u] = nbCon[u]
    BY <1>1, <1>p, Acting
  <2> QED
    BY <2>1, <2>2, <1>1, <1>p, <1>s, Acting, NbActs DEF NbActing
<1>2. CASE nbJob' = Restoring(nbJob.j, "failed", FALSE) /\ UNCHANGED nbCon
  BY <1>2, <1>p, <1>s, Acting, NbTurnsBack
<1> QED
  BY <1>1, <1>2 DEF TakeDown, RollBack

\* A profile is activated.
LEMMA NbActivates == ASSUME NbInv, ActivateProfile PROVE NbInv'
<1>p. nbJob.pc = "activate" /\ nbJob.pc \in NbActing
  BY DEF ActivateProfile, NbActing
<1>s. UNCHANGED <<nbProfs, nbDisk, nbSvc, nbTxn, nbGone>>
  BY DEF ActivateProfile, nbHost
<1>1. CASE /\ nbCon' = IF Kinds[nbJob.step] = "uplink" THEN [nbCon EXCEPT ![nbJob.j.uplink] = "port"] ELSE nbCon
           /\ nbJob' = [nbJob EXCEPT !.step = nbJob.step + 1, !.pc = IF nbJob.step = 3 THEN "address" ELSE "activate"]
  <2>0. nbJob.step + 1 \in 0..4 /\ (nbJob.step # 3 => nbJob.step + 1 \in 1..3)
    BY <1>p, Acting
  <2>1. nbJob' \in NbJobs /\ nbJob'.pc = (IF nbJob.step = 3 THEN "address" ELSE "activate") /\ nbJob'.step = nbJob.step + 1 /\ nbJob'.j = nbJob.j
    <3> DEFINE q == IF nbJob.step = 3 THEN "address" ELSE "activate"
    <3>1. q \in NbPcs
      BY PcsAre
    <3> HIDE DEF q
    <3>2. nbJob' = [nbJob EXCEPT !.step = nbJob.step + 1, !.pc = q]
      BY <1>1 DEF q
    <3>3. nbJob' \in NbJobs /\ nbJob'.pc = q /\ nbJob'.step = nbJob.step + 1 /\ nbJob'.j = nbJob.j
      BY <3>1, <3>2, <2>0, <1>p, Acting DEF NbJobs
    <3> QED
      BY <3>3 DEF q
  <2>2. /\ nbCon' \in [NbUplinks -> {"orig", "port", "down"}]
        /\ \A u \in NbUplinks : u # nbJob.j.uplink => nbCon'[u] = nbCon[u]
    BY <1>1, <1>p, Acting
  <2> QED
    BY <2>1, <2>0, <2>2, <1>1, <1>p, <1>s, Acting, NbActs DEF NbActing
<1>2. CASE nbJob' = Restoring(nbJob.j, "failed", FALSE) /\ UNCHANGED nbCon
  BY <1>2, <1>p, <1>s, Acting, NbTurnsBack
<1> QED
  BY <1>1, <1>2 DEF ActivateProfile, RollBack

\* The bridge has its address and the service holds it.
LEMMA NbAddressed == ASSUME NbInv, WaitAddress PROVE NbInv'
<1>p. nbJob.pc = "address" /\ nbJob.pc \in NbActing
  BY DEF WaitAddress, NbActing
<1>s. UNCHANGED <<nbCon, nbProfs, nbDisk, nbTxn, nbGone>>
  BY DEF WaitAddress, nbHost
<1>1. CASE nbSvc' = [nbSvc EXCEPT !.runtime = nbJob.j] /\ nbJob' = NbIdle
  <2>1. nbJob' \in NbJobs /\ nbJob'.pc = "idle"
    BY <1>1, NewJobs
  <2>2. /\ nbSvc' \in [up : BOOLEAN, checked : BOOLEAN, runtime : Journals \cup {NbNone}]
        /\ nbSvc'.checked /\ nbSvc'.runtime = nbDisk
    BY <1>1, <1>p, Acting DEF NbInv, NbTypes, NbOwns
  <2>3. NbTypes'
    BY <2>1, <2>2, <1>s DEF NbInv, NbTypes
  <2>4. NbOwns'
    BY <2>1, <2>2, <1>s DEF NbOwns, RuntimeIsJournaled, NbPreparing, NbActing, NbUndoing
  <2>5. NbUndone' /\ UplinkCanComeBack' /\ ProfilesAccounted'
    BY <2>1, <1>s DEF NbInv, NbUndone, NbUndoing, UplinkCanComeBack, ProfilesAccounted
  <2> QED
    BY <2>3, <2>4, <2>5 DEF NbInv
<1>2. CASE nbJob' = Restoring(nbJob.j, "failed", FALSE) /\ UNCHANGED nbSvc
  BY <1>2, <1>p, <1>s, Acting, NbTurnsBack
<1> QED
  BY <1>1, <1>2 DEF WaitAddress, RollBack

\* The identifier of a profile is recorded in the journal.
LEMMA NbRecords == ASSUME NbInv, RecordProfile PROVE NbInv'
<1> DEFINE k == [nbJob.j EXCEPT !.uuids = @ \cup {Kinds[nbJob.step]}]
           n == (nbJob.step % 3) + 1
           p == <<"configure", "add", "down">>[nbJob.step]
<1>p. nbJob.pc = "record" /\ nbJob.pc \in NbActing
  BY DEF RecordProfile, NbActing
<1>s. UNCHANGED <<nbCon, nbProfs, nbSvc, nbTxn, nbGone>>
  BY DEF RecordProfile, nbHost
<1>k. k \in Journals /\ k.txn = nbJob.j.txn /\ k.uplink = nbJob.j.uplink
  BY <1>p, Acting, KindsAre DEF Journals
<1>a. nbJob.step \in {1, 2, 3} /\ n \in 1..3 /\ n \in 0..4
  BY <1>p, Acting
<1>b. p \in {"configure", "add", "down"}
  BY <1>a
<1> HIDE DEF k, n, p
<1>1. CASE nbDisk' = k /\ nbJob' = [nbJob EXCEPT !.j = k, !.step = n, !.pc = p]
  <2>1. nbJob' \in NbJobs /\ nbJob'.pc = p /\ nbJob'.j = k /\ nbJob'.step = n
    <3>1. p \in NbPcs
      BY <1>b, PcsAre
    <3>2. n \in 0..4 /\ k \in Journals /\ nbJob \in NbJobs
      BY <1>a, <1>k, <1>p, Acting
    <3> QED
      BY <3>1, <3>2, <1>1 DEF NbJobs
  <2>2. nbDisk # NbNone /\ nbDisk' # NbNone
    BY <1>1, <1>p, <1>k, Acting, NoneIsNoJournal
  <2>3. NbTypes'
    BY <2>1, <1>1, <1>k, <1>a, <1>b, <1>s DEF NbInv, NbTypes
  <2>4. NbOwns'
    BY <2>1, <1>1, <1>k, <1>b, <1>s, <1>p, Acting DEF NbInv, NbOwns, RuntimeIsJournaled, NbPreparing, NbActing, NbUndoing
  <2>5. NbUndone'
    BY <2>1, <1>b DEF NbUndone, NbUndoing
  <2>6. UplinkCanComeBack'
    BY <2>2, <1>1, <1>k, <1>p, <1>s, Acting DEF NbInv, UplinkCanComeBack
  <2>7. ProfilesAccounted'
    BY <2>2, <1>1, <1>k, <1>p, <1>s, Acting DEF NbInv, ProfilesAccounted
  <2> QED
    BY <2>3, <2>4, <2>5, <2>6, <2>7 DEF NbInv
<1>2. ASSUME NEW x \in {k, nbJob.j}, nbJob' = Restoring(x, "failed", FALSE), UNCHANGED nbDisk
      PROVE  NbInv'
  <2>1. x \in Journals /\ x.txn = nbDisk.txn /\ x.uplink = nbDisk.uplink
    BY <1>2, <1>k, <1>p, Acting
  <2> QED
    BY <2>1, <1>2, <1>p, <1>s, Acting, NbTurnsBack
<1> QED
  BY <1>1, <1>2 DEF RecordProfile, RollBack, k, n, p

\* Every step keeps the invariant.
LEMMA NbSteps == NbInv /\ [NbNext]_nbVars => NbInv'
<1> SUFFICES ASSUME NbInv, [NbNext]_nbVars PROVE NbInv'
  OBVIOUS
<1>1. CASE UNCHANGED nbVars
  <2>1. NbTypes' /\ NbUndone'
    BY <1>1 DEF NbInv, nbVars, NbTypes, NbUndone
  <2>2. NbOwns'
    BY <1>1 DEF NbInv, nbVars, NbOwns, RuntimeIsJournaled
  <2>3. UplinkCanComeBack' /\ ProfilesAccounted'
    BY <1>1 DEF NbInv, nbVars, UplinkCanComeBack, ProfilesAccounted
  <2> QED
    BY <2>1, <2>2, <2>3 DEF NbInv
<1>2. CASE \/ DeleteProfile \/ DeleteLink \/ RestoreOriginal \/ RestoreEnds \/ Boot
           \/ (\E w \in BOOLEAN : ApplyConfig(w)) \/ ReconcileGadget \/ BuildGadget
  BY <1>2, NbDeletes, NbUnlinks, NbRestores, NbForgets, NbBoots, NbApplies, NbReconciles, NbBuilds
<1>3. CASE \/ ShutdownOtg \/ Crash \/ Reboot \/ SelectUplink \/ PrepareDevice \/ ResetBridge \/ ConfigureProfile
           \/ WriteJournal
  BY <1>3, NbShutsDown, NbCrashes, NbReboots, NbSelects, NbPrepares, NbResets, NbConfigures, NbJournals
<1>4. CASE \/ CreateLink \/ AddProfile \/ RecordProfile \/ TakeDown \/ ActivateProfile \/ WaitAddress
  BY <1>4, NbLinks, NbAdds, NbRecords, NbTakesDown, NbActivates, NbAddressed
<1> QED
  BY <1>1, <1>2, <1>3, <1>4 DEF NbNext

-----------------------------------------------------------------------------
\* The gadget in configfs

GtFunctions == {"uac", "hid0", "hid1", "msd", "net"}
GtDirs == {GDir, GStrings, CDir, CStrings}
GtNodes == GtDirs \cup {Lun, OsLink} \cup {FDir(f) : f \in GtFunctions} \cup {Link(f) : f \in GtFunctions}
GtPcs == {"idle", "unbind", "rollback", "cleanup", "undo", "begin", "setup", "bind", "ok", "failed"}
GtJobs == [pc : GtPcs, want : GtConfigs \cup {<<>>}, todo : SUBSET GtNodes, errs : BOOLEAN, ours : BOOLEAN]

\* The nodes that belong to a configuration.
Belong(fs) == {n \in GtNodes : n[1] = "dir" \/ n[2] \in ToSet(fs)}

GtTypes ==
    /\ gtTree \subseteq GtNodes
    /\ gtMinor \in [HidNames -> Nat]
    /\ gtMgr \in GtConfigs \cup {<<>>, <<"none">>}
    /\ gtJob \in GtJobs

\* Who has no manager yet is not active.
GtManaged ==
    /\ gtJob.pc \in {"begin", "setup", "bind", "rollback", "undo"} => gtMgr = <<"none">>
    /\ gtActive => gtMgr # <<"none">>
    /\ gtActive /\ gtJob.pc = "failed" => gtOdd

\* The directory of the gadget is the first to come and the last to go.
GtRooted == GDir \notin gtTree => gtTree = {}

\* An attempt that met nothing wrong will remove all there is.
GtCleans ==
    gtClean => /\ gtJob.pc \notin {"failed", "rollback", "undo"}
               /\ gtJob.pc \in {"unbind", "cleanup"} => gtTree \subseteq gtJob.todo /\ ~gtJob.errs
               /\ gtJob.pc = "begin" => gtTree \subseteq Belong(gtJob.want)

\* The n-th HID function has the n-th minor.
GtMinors == \A h \in HidNames : FDir(h) \in gtTree => gtMinor[h] = (IF h = "hid0" THEN 0 ELSE 1)

\* Setup has made what is not left to make.
GtBuilds ==
    /\ gtJob.pc = "setup" =>
          /\ gtTree = Belong(gtJob.want) \ gtJob.todo /\ gtJob.todo \subseteq Belong(gtJob.want)
          /\ FDir("hid1") \in gtTree => FDir("hid0") \in gtTree
          /\ GtMinors
    /\ gtJob.pc = "bind" /\ ~gtOdd => gtTree = Belong(gtJob.want) /\ GtMinors

GtBuilt ==
    gtActive /\ gtJob.pc \in {"idle", "ok"} /\ ~gtOdd => gtBound /\ gtTree = Belong(gtMgr) /\ GtMinors

GtInv == GtTypes /\ GtManaged /\ GtRooted /\ GtCleans /\ GtBuilds /\ GtBuilt

-----------------------------------------------------------------------------
\* The nodes one by one.
LEMMA NodesAre ==
    ASSUME NEW n \in GtNodes
    PROVE  /\ n[1] \in {"dir", "function", "link", "lun", "os_desc"}
           /\ n[1] = "dir" <=> n \in GtDirs
           /\ n[1] = "function" => n[2] \in GtFunctions /\ n = FDir(n[2])
           /\ n[1] = "link" => n[2] \in GtFunctions /\ n = Link(n[2])
           /\ n[1] = "lun" <=> n = Lun
           /\ n[1] = "os_desc" <=> n = OsLink
BY DEF GtNodes, GtDirs, GDir, GStrings, CDir, CStrings, Lun, OsLink, FDir, Link, GtFunctions

\* The names of the nodes.
LEMMA NamesAre ==
    /\ \A f : FDir(f)[1] = "function" /\ FDir(f)[2] = f /\ Link(f)[1] = "link" /\ Link(f)[2] = f
    /\ Lun[1] = "lun" /\ Lun[2] = "msd" /\ OsLink[1] = "os_desc" /\ OsLink[2] = "net"
    /\ GDir[1] = "dir" /\ GStrings[1] = "dir" /\ CDir[1] = "dir" /\ CStrings[1] = "dir"
BY DEF GDir, GStrings, CDir, CStrings, Lun, OsLink, FDir, Link

\* The four directories are four.
LEMMA DirsDiffer ==
    /\ GDir # GStrings /\ GDir # CDir /\ GDir # CStrings
    /\ GStrings # CDir /\ GStrings # CStrings /\ CDir # CStrings
BY DEF GDir, GStrings, CDir, CStrings

\* What a configuration is made of.
LEMMA ConfigsAre ==
    ASSUME GtAssumption, NEW fs \in GtConfigs \cup {<<>>}
    PROVE  ToSet(fs) \subseteq GtFunctions
<1>1. ASSUME fs \in Seq(GtFunctions) PROVE ToSet(fs) \subseteq GtFunctions
  BY <1>1 DEF ToSet
<1>2. <<>> \in Seq(GtFunctions)
  OBVIOUS
<1> QED
  BY <1>1, <1>2 DEF GtAssumption, GtFunctions

\* The value for no manager is no configuration.
LEMMA NoneIsNone == GtAssumption => <<"none">> \notin GtConfigs
<1> SUFFICES ASSUME GtAssumption, <<"none">> \in GtConfigs PROVE FALSE
  OBVIOUS
<1>1. <<"none">> \in Seq(GtFunctions)
  BY DEF GtAssumption, GtFunctions
<1>2. <<"none">>[1] \in GtFunctions
  BY <1>1
<1> QED
  BY <1>2 DEF GtFunctions

\* Each function brings the nodes with its name.
LEMMA FunctionNodes ==
    ASSUME NEW f \in GtFunctions
    PROVE  NodesOf(f) = {n \in GtNodes : n[1] # "dir" /\ n[2] = f}
<1>1. NodesOf(f) \subseteq GtNodes /\ \A n \in NodesOf(f) : n[1] # "dir" /\ n[2] = f
  BY NamesAre DEF GtFunctions, NodesOf, HidNames, HidNodes, UacNodes, MsdNodes, NetNodes, GtNodes
<1>2. ASSUME NEW n \in GtNodes, n[1] # "dir", n[2] = f PROVE n \in NodesOf(f)
  <2>1. n = FDir(f) \/ n = Link(f) \/ (n = Lun /\ f = "msd") \/ (n = OsLink /\ f = "net")
    BY <1>2, NodesAre, NamesAre
  <2> QED
    BY <2>1 DEF GtFunctions, NodesOf, HidNames, HidNodes, UacNodes, MsdNodes, NetNodes
<1> QED
  BY <1>1, <1>2

\* What setup makes, and cleanup removes, are the nodes that belong to it.
LEMMA NodesBelong ==
    ASSUME GtAssumption, NEW fs \in GtConfigs \cup {<<>>}
    PROVE  SetupNodes(fs) = Belong(fs) /\ CleanupNodes(fs) = Belong(fs)
<1>1. ToSet(fs) \subseteq GtFunctions
  BY ConfigsAre
<1>2. \A f \in ToSet(fs) : NodesOf(f) = {n \in GtNodes : n[1] # "dir" /\ n[2] = f}
  BY <1>1, FunctionNodes
<1>3. UNION {NodesOf(f) : f \in ToSet(fs)} = {n \in GtNodes : n[1] # "dir" /\ n[2] \in ToSet(fs)}
  BY <1>2
<1>4. {GDir, GStrings, CDir, CStrings} = {n \in GtNodes : n[1] = "dir"}
  BY NodesAre, NamesAre DEF GtNodes, GtDirs
<1>5. SetupNodes(fs) = {n \in GtNodes : n[1] = "dir"} \cup {n \in GtNodes : n[1] # "dir" /\ n[2] \in ToSet(fs)}
  BY <1>3, <1>4 DEF SetupNodes
<1>6. SetupNodes(fs) = Belong(fs)
  BY <1>5 DEF Belong
<1> QED
  BY <1>6 DEF CleanupNodes

\* The rounds of cleanup.
LEMMA RoundsAre ==
    /\ \A n \in GtNodes : n[1] \in {"link", "os_desc"} => Round(n) = 1
    /\ Round(CStrings) = 2 /\ Round(CDir) = 3 /\ Round(GStrings) = 5 /\ Round(GDir) = 6
    /\ \A n \in GtNodes : n[1] \in {"function", "lun"} => Round(n) = 4
<1>1. \A n \in GtNodes : n[1] \in {"link", "os_desc"} => Round(n) = 1
  BY NamesAre DEF Round
<1>2. Round(CStrings) = 2
  BY NamesAre, DirsDiffer DEF Round
<1>3. Round(CDir) = 3
  BY NamesAre, DirsDiffer DEF Round
<1>4. Round(GStrings) = 5
  BY NamesAre, DirsDiffer DEF Round
<1>5. Round(GDir) = 6
  BY NamesAre, DirsDiffer DEF Round
<1>6. \A n \in GtNodes : n[1] \in {"function", "lun"} => Round(n) = 4
  BY NamesAre DEF Round
<1> QED
  BY <1>1, <1>2, <1>3, <1>4, <1>5, <1>6

\* What holds a node is removed before it.
LEMMA HoldersFirst ==
    ASSUME gtTree \subseteq GtNodes, NEW fs, NEW n \in GtNodes, NEW h \in Holders(n)
    PROVE  h \in gtTree /\ h # n /\ ~RemovedBefore(fs, n, h)
<1>1. CASE n = GDir
  <2>1. h \in gtTree /\ h # GDir
    BY <1>1, DirsDiffer, NamesAre DEF Holders
  <2>2. h \in GtDirs \/ h[1] \in {"link", "os_desc", "function", "lun"}
    BY <2>1, NodesAre
  <2>3. Round(h) \in 1..5
    BY <2>1, <2>2, RoundsAre DEF GtDirs
  <2> QED
    BY <1>1, <2>1, <2>3, RoundsAre DEF RemovedBefore
<1>2. CASE n = CDir
  <2>1. h \in gtTree /\ (h = CStrings \/ h[1] \in {"link", "os_desc"})
    BY <1>2, DirsDiffer, NamesAre DEF Holders
  <2>2. Round(h) \in 1..2
    BY <2>1, RoundsAre
  <2> QED
    BY <1>2, <2>1, <2>2, RoundsAre DEF RemovedBefore
<1>3. CASE n[1] = "function"
  <2>1. h \in gtTree /\ (h = Link(n[2]) \/ (h = Lun /\ n[2] = "msd"))
    BY <1>3, NamesAre DEF Holders
  <2>2. CASE h = Link(n[2])
    <3>1. Round(h) = 1 /\ Round(n) = 4 /\ h # n
      BY <2>1, <2>2, <1>3, RoundsAre, NamesAre
    <3> QED
      BY <2>1, <3>1 DEF RemovedBefore
  <2>3. CASE h = Lun /\ n[2] = "msd"
    <3>1. Round(h) = 4 /\ Round(n) = 4 /\ h # n /\ h[2] = n[2]
      BY <2>1, <2>3, <1>3, RoundsAre, NamesAre
    <3> QED
      BY <2>1, <3>1, <1>3 DEF RemovedBefore
  <2> QED
    BY <2>1, <2>2, <2>3
<1>4. CASE n # GDir /\ n # CDir /\ n[1] # "function"
  BY <1>4 DEF Holders
<1> QED
  BY <1>1, <1>2, <1>3, <1>4

\* The place of a function is where it stands.
LEMMA PlaceIs ==
    ASSUME GtAssumption, NEW fs \in GtConfigs, NEW f \in ToSet(fs)
    PROVE  At(fs, f) \in DOMAIN fs /\ fs[At(fs, f)] = f
<1>1. \E i \in DOMAIN fs : fs[i] = f
  BY DEF ToSet
<1> QED
  BY <1>1 DEF At

\* The first HID function is made before the second.
LEMMA HidOrder ==
    ASSUME GtAssumption, NEW fs \in GtConfigs, "hid1" \in ToSet(fs)
    PROVE  "hid0" \in ToSet(fs) /\ ~MadeBefore(fs, FDir("hid1"), FDir("hid0"))
<1>1. At(fs, "hid1") \in DOMAIN fs /\ fs[At(fs, "hid1")] = "hid1"
  BY PlaceIs
<1>2. PICK j \in DOMAIN fs : j < At(fs, "hid1") /\ fs[j] = "hid0"
  BY <1>1 DEF GtAssumption
<1>3. "hid0" \in ToSet(fs)
  BY <1>2 DEF ToSet
<1>4. At(fs, "hid0") \in DOMAIN fs /\ fs[At(fs, "hid0")] = "hid0"
  BY <1>3, PlaceIs
<1>5. At(fs, "hid0") = j
  BY <1>2, <1>4 DEF GtAssumption
<1>6. DOMAIN fs \subseteq Nat
  BY DEF GtAssumption
<1>7. ~(At(fs, "hid1") < At(fs, "hid0"))
  BY <1>1, <1>2, <1>5, <1>6
<1>8. ~(FDir("hid1")[1] = "dir" \/ FDir("hid0")[1] = "dir" \/ FDir("hid1")[2] = FDir("hid0")[2])
  BY NamesAre
<1> QED
  BY <1>3, <1>7, <1>8, NamesAre DEF MadeBefore

\* The directory of the gadget is made first.
LEMMA RootFirst ==
    ASSUME NEW fs, NEW n \in GtNodes, n # GDir
    PROVE  ~MadeBefore(fs, n, GDir)
<1>1. Stage(GDir) = 0
  BY DirsDiffer, NamesAre DEF Stage
<1>2. Stage(n) \in 0..7
  <2>1. CASE n[1] = "dir"
    <3>1. n \in {GStrings, CDir, CStrings}
      BY <2>1, NodesAre DEF GtDirs
    <3> QED
      BY <3>1, DirsDiffer, NamesAre DEF Stage
  <2>2. CASE n[1] # "dir"
    <3>1. n \notin GtDirs /\ n[1] \in {"function", "link", "lun", "os_desc"}
      BY <2>2, NodesAre
    <3> QED
      BY <3>1 DEF Stage, GtDirs
  <2> QED
    BY <2>1, <2>2
<1> QED
  BY <1>1, <1>2, NamesAre DEF MadeBefore

-----------------------------------------------------------------------------
\* Nothing is there when the program is started for the first time.
LEMMA GtStarts == GtInit => GtInv
<1> SUFFICES ASSUME GtInit PROVE GtInv
  OBVIOUS
<1>1. GtDone \in GtJobs /\ GtDone.pc = "idle"
  BY DEF GtDone, GtJobs, GtPcs
<1>2. GtTypes
  BY <1>1 DEF GtInit, GtTypes
<1>3. GtManaged /\ GtRooted /\ GtCleans /\ GtBuilds /\ GtBuilt
  BY <1>1 DEF GtInit, GtManaged, GtRooted, GtCleans, GtBuilds, GtBuilt
<1> QED
  BY <1>2, <1>3 DEF GtInv

\* A job that goes on to a new list.
LEMMA GtGoesTo ==
    ASSUME GtTypes, NEW pc \in GtPcs, NEW todo \in SUBSET GtNodes, GtGoes(pc, todo)
    PROVE  /\ gtJob' \in GtJobs
           /\ gtJob'.pc = pc /\ gtJob'.todo = todo /\ ~gtJob'.errs /\ gtJob'.want = gtJob.want
<1>0. gtJob \in GtJobs
  BY DEF GtTypes
<1>1. gtJob' = [gtJob EXCEPT !.pc = pc, !.todo = todo, !.errs = FALSE]
  BY DEF GtGoes
<1>2. gtJob' \in GtJobs
  BY <1>0, <1>1 DEF GtJobs
<1>3. gtJob'.pc = pc
  BY <1>0, <1>1 DEF GtJobs
<1>4. gtJob'.todo = todo
  BY <1>0, <1>1 DEF GtJobs
<1>5. ~gtJob'.errs
  BY <1>0, <1>1 DEF GtJobs
<1>6. gtJob'.want = gtJob.want
  BY <1>0, <1>1 DEF GtJobs
<1> QED
  BY <1>2, <1>3, <1>4, <1>5, <1>6

\* A job that ended.
LEMMA GtEnded ==
    ASSUME NEW pc \in {"ok", "failed"}
    PROVE  [GtDone EXCEPT !.pc = pc] \in GtJobs /\ [GtDone EXCEPT !.pc = pc].pc = pc
BY DEF GtDone, GtJobs, GtPcs

\* No job is an idle job.
LEMMA GtDoneIs == GtDone \in GtJobs /\ GtDone.pc = "idle"
BY DEF GtDone, GtJobs, GtPcs

\* What belongs to a configuration are nodes.
LEMMA BelongsAre == \A fs : Belong(fs) \subseteq GtNodes
BY DEF Belong

\* A configuration comes to be applied.
LEMMA GtReconciles ==
    ASSUME GtAssumption, GtInv, NEW fs \in GtConfigs, Reconcile(fs)
    PROVE  GtInv'
<1>1. UNCHANGED <<gtTree, gtBound, gtMinor, gtMgr, gtActive, gtOdd>> /\ gtJob.pc = "idle"
  BY DEF Reconcile, gtKernel
<1>2. GtDone = [pc |-> "idle", want |-> <<>>, todo |-> {}, errs |-> FALSE, ours |-> FALSE]
  BY DEF GtDone
<1>3. CASE gtMgr = <<"none">>
  <2>1. gtJob' = [GtDone EXCEPT !.want = fs, !.pc = "begin", !.todo = {}]
    BY <1>3 DEF Reconcile
  <2>2. gtJob' \in GtJobs
    BY <2>1, <1>2 DEF GtJobs, GtPcs
  <2>3. gtJob'.pc = "begin"
    BY <2>1, <1>2
  <2>4. gtJob'.want = fs
    BY <2>1, <1>2
  <2>5. gtClean' => gtTree \subseteq Belong(fs)
    BY <1>3 DEF Reconcile, Belong, GtInv, GtTypes
  <2>6. GtTypes'
    BY <1>1, <2>2 DEF GtInv, GtTypes
  <2>7. GtManaged' /\ GtRooted' /\ GtBuilds' /\ GtBuilt'
    BY <1>1, <1>3, <2>3 DEF GtInv, GtManaged, GtRooted, GtBuilds, GtBuilt
  <2>8. GtCleans'
    BY <1>1, <2>3, <2>4, <2>5 DEF GtCleans
  <2> QED
    BY <2>6, <2>7, <2>8 DEF GtInv
<1>4. CASE gtMgr # <<"none">>
  <2>1. gtJob' = [GtDone EXCEPT !.want = fs, !.pc = "unbind", !.todo = CleanupNodes(gtMgr)]
    BY <1>4 DEF Reconcile
  <2>0. gtMgr \in GtConfigs \cup {<<>>}
    BY <1>4 DEF GtInv, GtTypes
  <2>a. CleanupNodes(gtMgr) = Belong(gtMgr) /\ Belong(gtMgr) \subseteq GtNodes
    BY <2>0, NodesBelong, BelongsAre
  <2>2. gtJob' \in GtJobs
    BY <2>1, <2>a, <1>2 DEF GtJobs, GtPcs
  <2>3. gtJob'.pc = "unbind"
    BY <2>1, <1>2
  <2>4. gtJob'.todo = Belong(gtMgr)
    BY <2>1, <2>a, <1>2
  <2>b. ~gtJob'.errs
    BY <2>1, <1>2
  <2>5. gtClean' => gtTree \subseteq Belong(gtMgr)
    BY <1>4 DEF Reconcile, Belong, GtInv, GtTypes
  <2>6. GtTypes'
    BY <1>1, <2>2 DEF GtInv, GtTypes
  <2>7. GtManaged' /\ GtRooted' /\ GtBuilds' /\ GtBuilt'
    BY <1>1, <2>3 DEF GtInv, GtManaged, GtRooted, GtBuilds, GtBuilt
  <2>8. GtCleans'
    BY <1>1, <2>3, <2>4, <2>5, <2>b DEF GtCleans
  <2> QED
    BY <2>6, <2>7, <2>8 DEF GtInv
<1> QED
  BY <1>3, <1>4

\* The gadget is unbound, or that fails.
LEMMA GtUnbinds ==
    ASSUME GtInv, Unbind
    PROVE  GtInv'
<1>0. gtJob \in GtJobs
  BY DEF GtInv, GtTypes
<1>1. UNCHANGED <<gtTree, gtMinor, gtMgr, gtActive, gtOdd>> /\ gtJob.pc \in {"unbind", "rollback"}
  BY DEF Unbind
<1> DEFINE pc == IF gtJob.pc = "unbind" THEN "cleanup" ELSE "undo"
<1>2. \/ gtJob' = [gtJob EXCEPT !.pc = pc] /\ gtClean' = gtClean
      \/ gtJob' = [gtJob EXCEPT !.pc = pc, !.errs = TRUE] /\ ~gtClean'
  BY DEF Unbind
<1>3. pc \in {"cleanup", "undo"} /\ pc \in GtPcs /\ (pc = "cleanup" <=> gtJob.pc = "unbind")
  BY DEF GtPcs
<1> HIDE DEF pc
<1>4. /\ gtJob' \in GtJobs /\ gtJob'.pc = pc /\ gtJob'.todo = gtJob.todo
      /\ gtClean' => gtClean /\ gtJob'.errs = gtJob.errs
  <2>1. CASE gtJob' = [gtJob EXCEPT !.pc = pc] /\ gtClean' = gtClean
    BY <2>1, <1>0, <1>3 DEF GtJobs
  <2>2. CASE gtJob' = [gtJob EXCEPT !.pc = pc, !.errs = TRUE] /\ ~gtClean'
    <3>1. gtJob' \in GtJobs
      BY <2>2, <1>0, <1>3 DEF GtJobs
    <3>2. gtJob'.pc = pc
      BY <2>2, <1>0 DEF GtJobs
    <3>3. gtJob'.todo = gtJob.todo
      BY <2>2, <1>0 DEF GtJobs
    <3> QED
      BY <2>2, <3>1, <3>2, <3>3
  <2> QED
    BY <1>2, <2>1, <2>2
<1>5. GtTypes'
  BY <1>1, <1>4 DEF GtInv, GtTypes
<1>6. GtManaged' /\ GtRooted' /\ GtBuilds' /\ GtBuilt'
  BY <1>1, <1>3, <1>4 DEF GtInv, GtManaged, GtRooted, GtBuilds, GtBuilt
<1>7. GtCleans'
  BY <1>1, <1>3, <1>4 DEF GtInv, GtCleans
<1> QED
  BY <1>5, <1>6, <1>7 DEF GtInv

\* A node is removed, refused, or not reached.
LEMMA GtRemoves ==
    ASSUME GtInv, CleanupStep
    PROVE  GtInv'
<1>0. gtJob \in GtJobs /\ gtTree \subseteq GtNodes
  BY DEF GtInv, GtTypes
<1>1. PICK n \in gtJob.todo :
         /\ \A m \in gtJob.todo \ {n} : RemovedBefore(Manager, n, m)
         /\ \/ /\ Holders(n) = {} \/ n \notin gtTree
               /\ RemoveNode(n) /\ gtJob' = [gtJob EXCEPT !.todo = @ \ {n}] /\ UNCHANGED <<gtCount, gtClean>>
            \/ /\ n \in gtTree /\ Holders(n) # {}
               /\ gtJob' = [gtJob EXCEPT !.todo = @ \ {n}, !.errs = TRUE] /\ UNCHANGED <<gtKernel, gtCount, gtClean>>
            \/ /\ n \in gtTree /\ GtFault /\ gtClean' = FALSE
               /\ gtJob' = [gtJob EXCEPT !.todo = @ \ {n}, !.errs = TRUE] /\ UNCHANGED gtKernel
  BY DEF CleanupStep
<1>2. n \in GtNodes /\ gtJob.pc \in {"cleanup", "undo"} /\ UNCHANGED <<gtMgr, gtActive, gtOdd>>
  BY <1>0 DEF CleanupStep, GtJobs
<1> DEFINE todo == gtJob.todo \ {n}
<1>t. todo \subseteq GtNodes
  BY <1>0 DEF GtJobs
<1>3. CASE gtJob' = [gtJob EXCEPT !.todo = @ \ {n}] /\ RemoveNode(n) /\ UNCHANGED gtClean /\ (Holders(n) = {} \/ n \notin gtTree)
  <2>0. gtJob' = [gtJob EXCEPT !.todo = todo] /\ gtTree' = gtTree \ {n} /\ UNCHANGED gtMinor
    BY <1>3 DEF RemoveNode
  <2> HIDE DEF todo
  <2>1. /\ gtJob' \in GtJobs /\ gtJob'.pc = gtJob.pc /\ gtJob'.todo = todo /\ gtJob'.errs = gtJob.errs
    BY <2>0, <1>0, <1>t DEF GtJobs
  <2>2. GtTypes'
    BY <1>2, <2>0, <2>1 DEF GtInv, GtTypes
  <2>3. GtManaged' /\ GtBuilds' /\ GtBuilt'
    BY <1>2, <2>0, <2>1 DEF GtInv, GtManaged, GtBuilds, GtBuilt
  <2>4. GtRooted'
    <3>1. CASE n = GDir
      BY <3>1, <2>0, <1>3, DirsDiffer, NamesAre DEF Holders, GtInv, GtRooted
    <3>2. CASE n # GDir
      BY <3>2, <2>0 DEF GtInv, GtRooted
    <3> QED
      BY <3>1, <3>2
  <2>5. GtCleans'
    BY <1>2, <1>3, <2>0, <2>1 DEF GtInv, GtCleans, todo
  <2> QED
    BY <2>2, <2>3, <2>4, <2>5 DEF GtInv
<1>4. CASE gtJob' = [gtJob EXCEPT !.todo = @ \ {n}, !.errs = TRUE] /\ UNCHANGED gtKernel /\ ~gtClean'
  <2>0. gtJob' = [gtJob EXCEPT !.todo = todo, !.errs = TRUE] /\ UNCHANGED <<gtTree, gtMinor, gtBound>>
    BY <1>4 DEF gtKernel
  <2> HIDE DEF todo
  <2>1. gtJob' \in GtJobs
    BY <2>0, <1>0, <1>t DEF GtJobs
  <2>a. gtJob'.pc = gtJob.pc
    BY <2>0, <1>0 DEF GtJobs
  <2>2. GtTypes'
    BY <1>2, <2>0, <2>1 DEF GtInv, GtTypes
  <2>3. GtManaged' /\ GtRooted' /\ GtBuilds' /\ GtBuilt'
    BY <1>2, <2>0, <2>a DEF GtInv, GtManaged, GtRooted, GtBuilds, GtBuilt
  <2>5. GtCleans'
    BY <1>4 DEF GtCleans
  <2> QED
    BY <2>2, <2>3, <2>5 DEF GtInv
<1>5. n \in gtTree /\ Holders(n) # {} => ~gtClean
  <2>1. SUFFICES ASSUME n \in gtTree, gtClean, NEW h \in Holders(n) PROVE FALSE
    OBVIOUS
  <2>2. h \in gtTree /\ h # n /\ ~RemovedBefore(Manager, n, h)
    BY <1>0, <1>2, HoldersFirst
  <2>3. gtTree \subseteq gtJob.todo
    BY <2>1, <1>2 DEF GtInv, GtCleans
  <2> QED
    BY <2>2, <2>3, <1>1
<1> QED
  BY <1>1, <1>3, <1>4, <1>5

\* The cleanup is over.
LEMMA GtCleansUp ==
    ASSUME GtAssumption, GtInv, CleanupEnds
    PROVE  GtInv'
<1>0. gtJob \in GtJobs /\ gtJob.pc = "cleanup" /\ gtJob.todo = {}
  BY DEF GtInv, GtTypes, CleanupEnds
<1>1. UNCHANGED <<gtTree, gtBound, gtMinor, gtClean>>
  BY DEF CleanupEnds, gtKernel
<1>2. gtClean => gtTree = {} /\ ~gtJob.errs
  BY <1>0 DEF GtInv, GtCleans
<1>3. CASE ~gtJob.errs
  <2>1. GtGoes("begin", {}) /\ gtMgr' = <<"none">> /\ gtActive' = FALSE
    BY <1>3 DEF CleanupEnds
  <2>2. gtJob' \in GtJobs /\ gtJob'.pc = "begin"
    <3>1. "begin" \in GtPcs /\ {} \subseteq GtNodes
      BY DEF GtPcs
    <3> QED
      BY <2>1, <3>1, GtGoesTo DEF GtInv
  <2>3. GtTypes'
    BY <1>1, <2>1, <2>2 DEF GtInv, GtTypes
  <2>4. GtManaged' /\ GtRooted' /\ GtBuilds' /\ GtBuilt'
    BY <1>1, <2>1, <2>2 DEF GtInv, GtManaged, GtRooted, GtBuilds, GtBuilt
  <2>5. GtCleans'
    BY <1>1, <1>2, <2>2 DEF GtCleans
  <2> QED
    BY <2>3, <2>4, <2>5 DEF GtInv
<1>4. CASE gtJob.errs
  <2>0. UNCHANGED <<gtMgr, gtActive>> /\ gtOdd' = TRUE
    BY <1>4 DEF CleanupEnds
  <2>1. gtJob' \in GtJobs /\ ((gtJob'.pc = "rollback" /\ gtMgr = <<"none">>) \/ gtJob'.pc = "failed")
    <3>1. CASE gtMgr = <<"none">>
      <4>1. GtGoes("rollback", CleanupNodes(gtJob.want))
        BY <1>4, <3>1 DEF CleanupEnds
      <4>2. CleanupNodes(gtJob.want) \subseteq GtNodes /\ "rollback" \in GtPcs
        BY <1>0, NodesBelong, BelongsAre DEF GtJobs, GtPcs
      <4> QED
        BY <3>1, <4>1, <4>2, GtGoesTo DEF GtInv
    <3>2. CASE gtMgr # <<"none">>
      BY <1>4, <3>2, GtEnded DEF CleanupEnds
    <3> QED
      BY <3>1, <3>2
  <2>3. GtTypes'
    BY <1>1, <2>0, <2>1 DEF GtInv, GtTypes
  <2>4. GtManaged' /\ GtRooted' /\ GtBuilds' /\ GtBuilt'
    BY <1>1, <2>0, <2>1 DEF GtInv, GtManaged, GtRooted, GtBuilds, GtBuilt
  <2>5. GtCleans'
    BY <1>1, <1>2, <1>4 DEF GtCleans
  <2> QED
    BY <2>3, <2>4, <2>5 DEF GtInv
<1> QED
  BY <1>3, <1>4

\* Setup begins, or finds that it need not, or must not yet.
LEMMA GtSetsUp ==
    ASSUME GtAssumption, GtInv, SetupBegins
    PROVE  GtInv'
<1>0. /\ gtJob \in GtJobs /\ gtJob.pc = "begin"
      /\ gtMgr = <<"none">> /\ ~gtActive
      /\ gtJob.want \in GtConfigs \cup {<<>>}
  BY DEF GtInv, GtTypes, SetupBegins, GtManaged, GtJobs
<1>1. UNCHANGED <<gtTree, gtBound, gtMinor, gtMgr, gtActive, gtClean>>
  BY DEF SetupBegins, gtKernel
<1>2. /\ SetupNodes(gtJob.want) = Belong(gtJob.want) /\ CleanupNodes(gtJob.want) = Belong(gtJob.want)
      /\ Belong(gtJob.want) \subseteq GtNodes
  BY <1>0, NodesBelong, BelongsAre
<1>3. CASE gtJob.want = <<>>
  <2>1. gtJob' \in GtJobs /\ gtJob'.pc = "ok"
    BY <1>3, GtEnded DEF SetupBegins
  <2>2. GtTypes'
    BY <1>1, <2>1 DEF GtInv, GtTypes
  <2>3. GtManaged' /\ GtRooted' /\ GtCleans' /\ GtBuilds' /\ GtBuilt'
    BY <1>0, <1>1, <2>1 DEF GtInv, GtManaged, GtRooted, GtCleans, GtBuilds, GtBuilt
  <2> QED
    BY <2>2, <2>3 DEF GtInv
<1>4. CASE gtJob.want # <<>> /\ GDir \in gtTree /\ gtBound
  <2>1. GtGoes("bind", {}) /\ gtOdd' = TRUE
    BY <1>4 DEF SetupBegins
  <2>2. gtJob' \in GtJobs /\ gtJob'.pc = "bind"
    <3>1. "bind" \in GtPcs /\ {} \subseteq GtNodes
      BY DEF GtPcs
    <3> QED
      BY <2>1, <3>1, GtGoesTo DEF GtInv
  <2>3. GtTypes'
    BY <1>1, <2>2 DEF GtInv, GtTypes
  <2>4. GtManaged' /\ GtRooted' /\ GtCleans' /\ GtBuilds' /\ GtBuilt'
    BY <1>0, <1>1, <2>1, <2>2 DEF GtInv, GtManaged, GtRooted, GtCleans, GtBuilds, GtBuilt
  <2> QED
    BY <2>3, <2>4 DEF GtInv
<1>5. CASE gtJob.want # <<>> /\ GDir \in gtTree /\ ~gtBound
  <2>1. GtGoes("unbind", Belong(gtJob.want))
    BY <1>2, <1>5 DEF SetupBegins
  <2>2. gtJob' \in GtJobs /\ gtJob'.pc = "unbind" /\ gtJob'.todo = Belong(gtJob.want) /\ ~gtJob'.errs
    <3>1. "unbind" \in GtPcs
      BY DEF GtPcs
    <3> QED
      BY <2>1, <3>1, <1>2, GtGoesTo DEF GtInv
  <2>3. GtTypes'
    BY <1>1, <2>2 DEF GtInv, GtTypes
  <2>4. GtManaged' /\ GtRooted' /\ GtBuilds' /\ GtBuilt'
    BY <1>0, <1>1, <2>2 DEF GtInv, GtManaged, GtRooted, GtBuilds, GtBuilt
  <2>5. GtCleans'
    BY <1>0, <1>1, <2>2 DEF GtInv, GtCleans
  <2> QED
    BY <2>3, <2>4, <2>5 DEF GtInv
<1>6. CASE gtJob.want # <<>> /\ GDir \notin gtTree
  <2>1. /\ gtJob' = [gtJob EXCEPT !.pc = "setup", !.todo = SetupNodes(gtJob.want), !.ours = TRUE]
        /\ gtOdd' = FALSE /\ gtTree = {}
    BY <1>6 DEF SetupBegins, GtInv, GtRooted
  <2>2. gtJob' \in GtJobs
    <3>1. gtJob' = [gtJob EXCEPT !.pc = "setup", !.todo = Belong(gtJob.want), !.ours = TRUE]
      BY <2>1, <1>2
    <3>2. "setup" \in GtPcs /\ Belong(gtJob.want) \in SUBSET GtNodes
      BY <1>2 DEF GtPcs
    <3> HIDE DEF GtInv, Belong
    <3> QED
      BY <3>1, <3>2, <1>0 DEF GtJobs
  <2>a. gtJob'.pc = "setup"
    BY <2>1, <1>0 DEF GtJobs
  <2>b. gtJob'.todo = Belong(gtJob.want)
    BY <2>1, <1>0, <1>2 DEF GtJobs
  <2>c. gtJob'.want = gtJob.want
    BY <2>1, <1>0 DEF GtJobs
  <2>3. GtTypes'
    BY <1>1, <2>2 DEF GtInv, GtTypes
  <2>4. GtManaged' /\ GtRooted' /\ GtCleans' /\ GtBuilt'
    BY <1>0, <1>1, <2>a DEF GtInv, GtManaged, GtRooted, GtCleans, GtBuilt
  <2>5. GtBuilds'
    BY <1>1, <2>1, <2>a, <2>b, <2>c DEF GtBuilds, GtMinors
  <2> QED
    BY <2>3, <2>4, <2>5 DEF GtInv
<1> QED
  BY <1>3, <1>4, <1>5, <1>6

\* The minor that is free.
LEMMA FreeMinorIs ==
    /\ FDir("hid0") \notin gtTree /\ FDir("hid1") \notin gtTree => FreeMinor = 0
    /\ FDir("hid0") \in gtTree /\ FDir("hid1") \notin gtTree /\ gtMinor["hid0"] = 0 => FreeMinor = 1
<1> DEFINE used == {gtMinor[h] : h \in {x \in HidNames : FDir(x) \in gtTree}}
           Free(m) == m \notin used /\ \A k \in 0..(m - 1) : k \in used
<1>1. Cardinality(HidNames) = 2
  <2>1. Cardinality({"hid0"}) = 1 /\ IsFiniteSet({"hid0"})
    BY FS_Singleton
  <2>2. HidNames = {"hid0"} \cup {"hid1"} /\ "hid1" \notin {"hid0"}
    BY DEF HidNames
  <2>3. Cardinality({"hid0"} \cup {"hid1"}) = Cardinality({"hid0"}) + 1
    BY <2>1, <2>2, FS_AddElement
  <2> QED
    BY <2>1, <2>2, <2>3
<1>2. FreeMinor = CHOOSE m \in 0..2 : Free(m)
  BY <1>1 DEF FreeMinor
<1>3. ASSUME FDir("hid0") \notin gtTree, FDir("hid1") \notin gtTree PROVE FreeMinor = 0
  <2>1. used = {}
    BY <1>3 DEF HidNames
  <2>2. Free(0)
    BY <2>1
  <2>3. \A m \in 0..2 : Free(m) => m = 0
    BY <2>1
  <2> HIDE DEF Free
  <2> QED
    BY <1>2, <2>2, <2>3
<1>4. ASSUME FDir("hid0") \in gtTree, FDir("hid1") \notin gtTree, gtMinor["hid0"] = 0 PROVE FreeMinor = 1
  <2>1. used = {0}
    BY <1>4 DEF HidNames
  <2>2. Free(1)
    BY <2>1
  <2>3. \A m \in 0..2 : Free(m) => m = 1
    BY <2>1
  <2> HIDE DEF Free
  <2> QED
    BY <1>2, <2>2, <2>3
<1> QED
  BY <1>3, <1>4

\* A node is made, or what was made is taken back.
LEMMA GtMakes ==
    ASSUME GtAssumption, GtInv, SetupStep
    PROVE  GtInv'
<1>0. /\ gtJob \in GtJobs /\ gtTree \subseteq GtNodes /\ gtMinor \in [HidNames -> Nat]
      /\ gtJob.pc = "setup" /\ gtMgr = <<"none">> /\ ~gtActive
      /\ gtTree = Belong(gtJob.want) \ gtJob.todo /\ GtMinors /\ gtJob.todo \subseteq Belong(gtJob.want)
      /\ FDir("hid1") \in gtTree => FDir("hid0") \in gtTree
      /\ gtJob.want \in GtConfigs \cup {<<>>} /\ gtJob.todo \subseteq GtNodes
  BY DEF GtInv, GtTypes, SetupStep, GtManaged, GtBuilds, GtJobs
<1>1. PICK n \in gtJob.todo :
         /\ \A m \in gtJob.todo \ {n} : MadeBefore(gtJob.want, n, m)
         /\ \/ MakeNode(n) /\ gtJob' = [gtJob EXCEPT !.todo = @ \ {n}] /\ UNCHANGED <<gtCount, gtClean>>
            \/ GtFault /\ gtClean' = FALSE /\ GtGoes("rollback", CleanupNodes(gtJob.want)) /\ UNCHANGED gtKernel
  BY DEF SetupStep
<1>2. n \in GtNodes /\ UNCHANGED <<gtMgr, gtActive, gtOdd>>
  BY <1>0 DEF SetupStep
<1>3. CASE MakeNode(n) /\ gtJob' = [gtJob EXCEPT !.todo = @ \ {n}] /\ UNCHANGED <<gtCount, gtClean>>
  <2>1. gtJob' = [gtJob EXCEPT !.todo = gtJob.todo \ {n}] /\ gtTree' = gtTree \cup {n} /\ gtClean' = gtClean
    BY <1>3 DEF MakeNode
  <2>2. /\ gtJob' \in GtJobs /\ gtJob'.pc = "setup" /\ gtJob'.todo = gtJob.todo \ {n}
        /\ gtJob'.want = gtJob.want
    <3>1. gtJob.todo \ {n} \in SUBSET GtNodes
      BY <1>0
    <3> QED
      BY <2>1, <3>1, <1>0 DEF GtJobs
  <2>a. n \in Belong(gtJob.want)
    BY <1>0
  <2>3. gtTree' = Belong(gtJob'.want) \ gtJob'.todo
    BY <1>0, <2>1, <2>2, <2>a
  <2>4. GtRooted'
    <3>1. n # GDir => GDir \in gtTree
      <4>1. SUFFICES ASSUME n # GDir, GDir \notin gtTree PROVE FALSE
        OBVIOUS
      <4>2. GDir \in Belong(gtJob.want)
        BY NamesAre DEF Belong, GtNodes, GtDirs
      <4>3. GDir \in gtJob.todo
        BY <4>1, <4>2, <1>0
      <4> QED
        BY <4>1, <4>3, <1>1, <1>2, RootFirst
    <3> QED
      BY <3>1, <2>1 DEF GtRooted
  <2>5. GtMinors' /\ gtMinor' \in [HidNames -> Nat] /\ (FDir("hid1") \in gtTree' => FDir("hid0") \in gtTree')
    <3>1. CASE n \in gtTree \/ ~(n[1] = "function" /\ n[2] \in HidNames)
      <4>1. gtMinor' = gtMinor
        BY <3>1, <1>3 DEF MakeNode
      <4>2. \A h \in HidNames : FDir(h) \in gtTree' <=> FDir(h) \in gtTree
        BY <3>1, <2>1, NamesAre
      <4> QED
        BY <4>1, <4>2, <1>0 DEF GtMinors, HidNames
    <3>2. CASE n \notin gtTree /\ n[1] = "function" /\ n[2] \in HidNames
      <4>1. gtMinor' = [gtMinor EXCEPT ![n[2]] = FreeMinor] /\ n = FDir(n[2])
        BY <3>2, <1>2, <1>3, NodesAre DEF MakeNode
      <4>0. "hid0" \in HidNames /\ "hid1" \in HidNames /\ FDir("hid0") # FDir("hid1")
        BY DEF HidNames, FDir
      <4>2. CASE n[2] = "hid0"
        <5>1. FDir("hid1") \notin gtTree
          BY <1>0, <3>2, <4>1, <4>2
        <5>2. FreeMinor = 0
          BY <5>1, <3>2, <4>1, <4>2, FreeMinorIs
        <5>3. gtMinor' \in [HidNames -> Nat] /\ gtMinor'["hid0"] = 0
          BY <4>0, <4>1, <4>2, <5>2, <1>0
        <5>4. FDir("hid1") \notin gtTree'
          BY <2>1, <4>0, <4>1, <4>2, <5>1
        <5> QED
          BY <5>3, <5>4 DEF GtMinors, HidNames
      <4>3. CASE n[2] = "hid1"
        <5>1. "hid1" \in ToSet(gtJob.want)
          BY <4>1, <4>3, <2>a, NamesAre DEF Belong
        <5>w. gtJob.want \in GtConfigs
          BY <5>1, <1>0 DEF ToSet
        <5>2. FDir("hid0") \in gtTree
          <6>1. SUFFICES ASSUME FDir("hid0") \notin gtTree PROVE FALSE
            OBVIOUS
          <6>2. "hid0" \in ToSet(gtJob.want) /\ ~MadeBefore(gtJob.want, FDir("hid1"), FDir("hid0"))
            BY <5>1, <5>w, HidOrder
          <6>3. FDir("hid0") \in Belong(gtJob.want)
            BY <6>2, NamesAre DEF Belong, GtNodes, GtFunctions
          <6>4. FDir("hid0") \in gtJob.todo /\ FDir("hid0") # n
            BY <6>1, <6>3, <1>0, <4>0, <4>1, <4>3
          <6> QED
            BY <6>2, <6>4, <1>1, <4>1, <4>3
        <5>3. gtMinor["hid0"] = 0
          BY <5>2, <4>0, <1>0 DEF GtMinors
        <5>4. FreeMinor = 1
          BY <5>2, <5>3, <3>2, <4>1, <4>3, FreeMinorIs
        <5>5. gtMinor' \in [HidNames -> Nat] /\ gtMinor'["hid0"] = 0 /\ gtMinor'["hid1"] = 1
          BY <4>0, <4>1, <4>3, <5>3, <5>4, <1>0
        <5> QED
          BY <5>2, <5>5, <2>1 DEF GtMinors, HidNames
      <4> QED
        BY <3>2, <4>2, <4>3 DEF HidNames
    <3> QED
      BY <3>1, <3>2
  <2>6. GtTypes'
    BY <1>0, <1>2, <2>1, <2>2, <2>5 DEF GtInv, GtTypes
  <2>7. GtManaged' /\ GtCleans' /\ GtBuilt'
    BY <1>0, <1>2, <2>1, <2>2 DEF GtManaged, GtCleans, GtBuilt, GtInv
  <2>8. GtBuilds'
    <3>1. gtJob'.todo \subseteq Belong(gtJob'.want)
      BY <1>0, <2>2
    <3> QED
      BY <2>2, <2>3, <2>5, <3>1 DEF GtBuilds
  <2> QED
    BY <2>4, <2>6, <2>7, <2>8 DEF GtInv
<1>4. CASE GtFault /\ gtClean' = FALSE /\ GtGoes("rollback", CleanupNodes(gtJob.want)) /\ UNCHANGED gtKernel
  <2>1. CleanupNodes(gtJob.want) \subseteq GtNodes /\ "rollback" \in GtPcs
    BY <1>0, NodesBelong, BelongsAre DEF GtPcs
  <2>2. gtJob' \in GtJobs /\ gtJob'.pc = "rollback"
    BY <1>4, <2>1, GtGoesTo DEF GtInv
  <2>3. UNCHANGED <<gtTree, gtMinor, gtBound>>
    BY <1>4 DEF gtKernel
  <2>4. GtTypes'
    BY <1>2, <2>2, <2>3 DEF GtInv, GtTypes
  <2>5. GtManaged' /\ GtRooted' /\ GtCleans' /\ GtBuilds' /\ GtBuilt'
    BY <1>0, <1>2, <1>4, <2>2, <2>3 DEF GtInv, GtManaged, GtRooted, GtCleans, GtBuilds, GtBuilt
  <2> QED
    BY <2>4, <2>5 DEF GtInv
<1> QED
  BY <1>1, <1>3, <1>4

\* Everything is made.
LEMMA GtMade ==
    ASSUME GtInv, SetupEnds
    PROVE  GtInv'
<1>0. /\ gtJob.pc = "setup" /\ gtJob.todo = {} /\ gtMgr = <<"none">> /\ ~gtActive
      /\ gtTree = Belong(gtJob.want) /\ GtMinors
  BY DEF GtInv, SetupEnds, GtManaged, GtBuilds
<1>1. UNCHANGED <<gtTree, gtBound, gtMinor, gtMgr, gtActive, gtClean, gtOdd>>
  BY DEF SetupEnds, gtKernel
<1>2. gtJob' \in GtJobs /\ gtJob'.pc = "bind" /\ gtJob'.want = gtJob.want
  <2>1. "bind" \in GtPcs /\ {} \subseteq GtNodes /\ GtGoes("bind", {})
    BY DEF GtPcs, SetupEnds
  <2> QED
    BY <2>1, GtGoesTo DEF GtInv
<1>3. GtTypes'
  BY <1>1, <1>2 DEF GtInv, GtTypes
<1>4. GtManaged' /\ GtRooted' /\ GtCleans' /\ GtBuilt'
  BY <1>0, <1>1, <1>2 DEF GtInv, GtManaged, GtRooted, GtCleans, GtBuilt
<1>5. GtBuilds'
  BY <1>0, <1>1, <1>2 DEF GtBuilds, GtMinors
<1> QED
  BY <1>3, <1>4, <1>5 DEF GtInv

\* The gadget is bound, or that fails.
LEMMA GtBinds ==
    ASSUME GtAssumption, GtInv, Bind
    PROVE  GtInv'
<1> DEFINE made == {n[2] : n \in {m \in gtTree : m[1] = "function"}}
           linked == gtTree \cup {Link(f) : f \in made}
<1>0. /\ gtJob \in GtJobs /\ gtTree \subseteq GtNodes /\ gtJob.pc = "bind" /\ gtMgr = <<"none">> /\ ~gtActive
      /\ gtJob.want \in GtConfigs \cup {<<>>}
      /\ ~gtOdd => gtTree = Belong(gtJob.want) /\ GtMinors
  BY DEF GtInv, GtTypes, Bind, GtManaged, GtBuilds, GtJobs
<1>1. UNCHANGED gtMinor
  BY DEF Bind
<1>2. made \subseteq GtFunctions
  BY <1>0, NodesAre
<1>3. linked \subseteq GtNodes /\ (GDir \notin linked => linked = {}) /\ \A f : GDir # Link(f)
  <2>1. \A f : GDir # Link(f)
    BY NamesAre
  <2>2. linked \subseteq GtNodes
    BY <1>0, <1>2 DEF GtNodes
  <2>3. GDir \notin linked => gtTree = {}
    BY DEF GtInv, GtRooted
  <2> QED
    BY <2>1, <2>2, <2>3
<1>4. ~gtOdd => linked = gtTree
  <2>1. SUFFICES ASSUME ~gtOdd, NEW f \in made PROVE Link(f) \in gtTree
    OBVIOUS
  <2>2. f \in ToSet(gtJob.want)
    BY <2>1, <1>0, NamesAre DEF Belong
  <2>3. f \in GtFunctions
    BY <1>2
  <2> QED
    BY <2>1, <2>2, <2>3, <1>0, NamesAre DEF Belong, GtNodes
<1>n. gtJob.want # <<"none">>
  <2>1. <<>> # <<"none">>
    OBVIOUS
  <2> QED
    BY <1>0, <2>1, NoneIsNone
<1> HIDE DEF linked, made
<1>5. CASE /\ gtTree' = linked /\ gtBound' = TRUE
           /\ gtMgr' = gtJob.want /\ gtActive' = TRUE /\ gtJob' = [GtDone EXCEPT !.pc = "ok"]
           /\ UNCHANGED <<gtCount, gtClean, gtOdd>>
  <2>1. gtJob' \in GtJobs /\ gtJob'.pc = "ok"
    BY <1>5, GtEnded
  <2>2. GtTypes'
    BY <1>0, <1>1, <1>3, <1>5, <2>1 DEF GtInv, GtTypes
  <2>3. GtManaged' /\ GtRooted' /\ GtCleans' /\ GtBuilds'
    BY <1>0, <1>3, <1>5, <1>n, <2>1 DEF GtManaged, GtRooted, GtCleans, GtBuilds
  <2>4. GtBuilt'
    BY <1>0, <1>1, <1>4, <1>5 DEF GtBuilt, GtMinors
  <2> QED
    BY <2>2, <2>3, <2>4 DEF GtInv
<1>6. CASE /\ gtClean' = FALSE
           /\ \E f \in made : gtTree' = linked \ {Link(f)}
           /\ gtBound' = TRUE /\ gtOdd' = TRUE
           /\ gtMgr' = gtJob.want /\ gtActive' = TRUE /\ gtJob' = [GtDone EXCEPT !.pc = "ok"]
  <2>1. gtJob' \in GtJobs /\ gtJob'.pc = "ok"
    BY <1>6, GtEnded
  <2>2. GtTypes'
    BY <1>0, <1>1, <1>3, <1>6, <2>1 DEF GtInv, GtTypes
  <2>3. GtManaged' /\ GtRooted' /\ GtCleans' /\ GtBuilds' /\ GtBuilt'
    BY <1>0, <1>3, <1>6, <1>n, <2>1 DEF GtManaged, GtRooted, GtCleans, GtBuilds, GtBuilt
  <2> QED
    BY <2>2, <2>3 DEF GtInv
<1>7. CASE /\ gtClean' = FALSE /\ gtTree' = linked
           /\ GtGoes("rollback", CleanupNodes(gtJob.want)) /\ UNCHANGED <<gtMgr, gtActive, gtOdd>>
  <2>1. CleanupNodes(gtJob.want) \subseteq GtNodes /\ "rollback" \in GtPcs
    BY <1>0, NodesBelong, BelongsAre DEF GtPcs
  <2>2. gtJob' \in GtJobs /\ gtJob'.pc = "rollback"
    BY <1>7, <2>1, GtGoesTo DEF GtInv
  <2>3. GtTypes'
    BY <1>0, <1>1, <1>3, <1>7, <2>2 DEF GtInv, GtTypes
  <2>4. GtManaged' /\ GtRooted' /\ GtCleans' /\ GtBuilds' /\ GtBuilt'
    BY <1>0, <1>3, <1>7, <2>2 DEF GtManaged, GtRooted, GtCleans, GtBuilds, GtBuilt
  <2> QED
    BY <2>3, <2>4 DEF GtInv
<1> QED
  BY <1>5, <1>6, <1>7 DEF Bind, linked, made

\* The attempt ends, or the process does.
LEMMA GtStops ==
    ASSUME GtAssumption, GtInv, RollbackEnds \/ AttemptEnds \/ GtCrash
    PROVE  GtInv'
<1>0. gtJob \in GtJobs
  BY DEF GtInv, GtTypes
<1>1. CASE RollbackEnds
  <2>1. gtJob.pc = "undo" /\ UNCHANGED <<gtTree, gtBound, gtMinor, gtMgr, gtActive, gtClean, gtOdd>>
    BY <1>1 DEF RollbackEnds, gtKernel
  <2>2. gtJob' \in GtJobs /\ gtJob'.pc \in {"rollback", "failed"}
    <3>1. CASE gtJob.errs /\ gtJob.ours
      <4>1. gtJob' = [gtJob EXCEPT !.pc = "rollback", !.todo = CleanupNodes(gtJob.want), !.errs = FALSE, !.ours = FALSE]
        BY <1>1, <3>1 DEF RollbackEnds
      <4>2. CleanupNodes(gtJob.want) \in SUBSET GtNodes /\ "rollback" \in GtPcs
        BY <1>0, NodesBelong, BelongsAre DEF GtJobs, GtPcs
      <4>3. gtJob' \in GtJobs
        BY <4>1, <4>2, <1>0 DEF GtJobs
      <4>4. gtJob'.pc = "rollback"
        BY <4>1, <1>0 DEF GtJobs
      <4> QED
        BY <4>3, <4>4
    <3>2. CASE ~(gtJob.errs /\ gtJob.ours)
      BY <1>1, <3>2, GtEnded DEF RollbackEnds
    <3> QED
      BY <3>1, <3>2
  <2>3. GtTypes'
    BY <2>1, <2>2 DEF GtInv, GtTypes
  <2>4. GtManaged' /\ GtRooted' /\ GtCleans' /\ GtBuilds' /\ GtBuilt'
    BY <2>1, <2>2 DEF GtInv, GtManaged, GtRooted, GtCleans, GtBuilds, GtBuilt
  <2> QED
    BY <2>3, <2>4 DEF GtInv
<1>2. CASE AttemptEnds
  <2>1. /\ gtJob.pc \in {"ok", "failed"} /\ gtJob' = GtDone
        /\ UNCHANGED <<gtTree, gtBound, gtMinor, gtMgr, gtActive, gtClean, gtOdd>>
    BY <1>2 DEF AttemptEnds, gtKernel
  <2>2. GtTypes'
    BY <2>1, GtDoneIs DEF GtInv, GtTypes
  <2>3. GtManaged' /\ GtRooted' /\ GtCleans' /\ GtBuilds'
    BY <2>1, GtDoneIs DEF GtInv, GtManaged, GtRooted, GtCleans, GtBuilds
  <2>4. GtBuilt'
    BY <2>1, GtDoneIs DEF GtInv, GtManaged, GtBuilt, GtMinors
  <2> QED
    BY <2>2, <2>3, <2>4 DEF GtInv
<1>3. CASE GtCrash
  <2>1. /\ gtMgr' = <<"none">> /\ gtActive' = FALSE /\ gtJob' = GtDone
        /\ UNCHANGED <<gtTree, gtBound, gtMinor, gtClean, gtOdd>>
    BY <1>3 DEF GtCrash, gtKernel
  <2>2. GtTypes'
    BY <2>1, GtDoneIs DEF GtInv, GtTypes
  <2>3. GtManaged' /\ GtRooted' /\ GtCleans' /\ GtBuilds' /\ GtBuilt'
    BY <2>1, GtDoneIs DEF GtInv, GtManaged, GtRooted, GtCleans, GtBuilds, GtBuilt
  <2> QED
    BY <2>2, <2>3 DEF GtInv
<1> QED
  BY <1>1, <1>2, <1>3

\* Every step of an attempt, and every crash, keeps the invariant.
LEMMA GtSteps == GtAssumption /\ GtInv /\ [GtNext]_gtVars => GtInv'
<1> SUFFICES ASSUME GtAssumption, GtInv, [GtNext]_gtVars PROVE GtInv'
  OBVIOUS
<1>1. CASE UNCHANGED gtVars
  BY <1>1 DEF GtInv, gtVars, GtTypes, GtManaged, GtRooted, GtCleans, GtBuilds, GtBuilt, GtMinors
<1>2. CASE GtNext
  BY <1>2, GtReconciles, GtUnbinds, GtRemoves, GtCleansUp, GtSetsUp, GtMakes, GtMade, GtBinds, GtStops DEF GtNext
<1> QED
  BY <1>1, <1>2

\* The invariant gives what is promised of the gadget.
LEMMA GtPromised == GtAssumption /\ GtInv => NextAttemptWorks /\ ActiveIsBuilt /\ HidPathsRight
<1> SUFFICES ASSUME GtAssumption, GtInv PROVE NextAttemptWorks /\ ActiveIsBuilt /\ HidPathsRight
  OBVIOUS
<1>1. NextAttemptWorks
  BY DEF GtInv, GtCleans, NextAttemptWorks
<1>2. ASSUME gtActive, gtJob.pc \in {"idle", "ok"}, ~gtOdd
      PROVE  /\ gtBound /\ GtMinors /\ gtTree = Belong(gtMgr)
             /\ {n[2] : n \in {m \in gtTree : m[1] = "function"}} = ToSet(gtMgr)
             /\ {n[2] : n \in {m \in gtTree : m[1] = "link"}} = ToSet(gtMgr)
  <2>1. gtBound /\ gtTree = Belong(gtMgr) /\ GtMinors /\ gtMgr \in GtConfigs \cup {<<>>}
    BY <1>2 DEF GtInv, GtBuilt, GtManaged, GtTypes
  <2>2. ToSet(gtMgr) \subseteq GtFunctions
    BY <2>1, ConfigsAre
  <2>3. \A f \in ToSet(gtMgr) : FDir(f) \in gtTree /\ Link(f) \in gtTree
    BY <2>1, <2>2, NamesAre DEF Belong, GtNodes
  <2>4. \A n \in gtTree : n[1] \in {"function", "link"} => n[2] \in ToSet(gtMgr)
    BY <2>1 DEF Belong
  <2>5. {n[2] : n \in {m \in gtTree : m[1] = "function"}} = ToSet(gtMgr)
    BY <2>3, <2>4, NamesAre
  <2>6. {n[2] : n \in {m \in gtTree : m[1] = "link"}} = ToSet(gtMgr)
    BY <2>3, <2>4, NamesAre
  <2> QED
    BY <2>1, <2>5, <2>6
<1>3. ActiveIsBuilt
  BY <1>2 DEF ActiveIsBuilt
<1>4. HidPathsRight
  <2> SUFFICES ASSUME gtActive, gtJob.pc = "idle", ~gtOdd, NEW f \in ToSet(gtMgr) \cap HidNames
               PROVE  gtMinor[f] = (IF f = "hid0" THEN 0 ELSE 1)
    BY DEF HidPathsRight
  <2>1. GtMinors /\ gtTree = Belong(gtMgr)
    BY <1>2
  <2>2. FDir(f) \in gtTree
    BY <2>1, NamesAre DEF Belong, GtNodes, GtFunctions, HidNames
  <2> QED
    BY <2>1, <2>2 DEF GtMinors
<1> QED
  BY <1>1, <1>3, <1>4

-----------------------------------------------------------------------------
\* Login

LgPcs == {"idle", "setup", "insert_user", "initialized", "create", "challenge", "verify",
          "wrong", "consume", "rf_create", "enrol", "store", "revoke", "delete"}

LgTypes ==
    /\ lgReady \in BOOLEAN /\ lgMulti \in BOOLEAN /\ lgMixed \in BOOLEAN
    /\ lgUsers \in {0, 1}
    /\ lgTask \in [LgWeb -> [pc : LgPcs, s : Nat, n : Nat]]
    /\ lgNext \in Nat \ {0}
    /\ lgChal \in [id : Nat, fails : Nat]
    /\ lgSess \in SUBSET Nat
    /\ lgEnrol \in SUBSET [session : Nat, secret : Nat]
    /\ lgUsed \in Seq(Nat)

\* The program is set up after its user is there.
LgSetUp ==
    /\ lgReady => lgUsers = 1
    /\ \A w \in LgWeb : lgTask[w].pc = "initialized" => lgUsers = 1

\* A challenge that was used is not the one that is open, and none to come.
LgChallenges ==
    /\ lgChal.id < lgNext
    /\ \A w \in LgWeb : lgTask[w].pc \in {"verify", "wrong", "consume"} => lgTask[w].n # 0
    /\ \A i \in DOMAIN lgUsed : lgUsed[i] # 0 /\ lgUsed[i] < lgNext /\ lgUsed[i] # lgChal.id
    /\ ChallengeUsedOnce

\* Redfish is known to have been there before it creates its session.
LgSessions ==
    /\ \A w \in LgWeb : lgTask[w].pc = "rf_create" => lgMixed
    /\ ~lgMulti /\ ~lgMixed => \A x, y \in lgSess : x = y

LgInv == LgTypes /\ LgSetUp /\ LgChallenges /\ LgSessions

\* Nothing has happened.
LEMMA LgStarts == LgInit => LgInv
<1> SUFFICES ASSUME LgInit PROVE LgInv
  OBVIOUS
<1>1. LgTypes
  <2>1. lgTask \in [LgWeb -> [pc : LgPcs, s : Nat, n : Nat]]
    BY DEF LgInit, LgPcs, LgRest
  <2>2. lgChal \in [id : Nat, fails : Nat] /\ lgSess \in SUBSET Nat
    BY DEF LgInit, NoChallenge
  <2>3. lgEnrol \in SUBSET [session : Nat, secret : Nat] /\ lgUsed \in Seq(Nat)
    BY DEF LgInit
  <2>4. lgReady \in BOOLEAN /\ lgMulti \in BOOLEAN /\ lgMixed \in BOOLEAN
    BY Zenon DEF LgInit
  <2>5. lgUsers \in {0, 1} /\ lgNext \in Nat \ {0}
    BY DEF LgInit
  <2> QED
    BY <2>1, <2>2, <2>3, <2>4, <2>5 DEF LgTypes
<1>2. LgSetUp
  BY DEF LgInit, LgSetUp, LgRest
<1>3. LgChallenges
  BY DEF LgInit, LgChallenges, LgRest, NoChallenge, ChallengeUsedOnce
<1>4. LgSessions
  BY DEF LgInit, LgSessions, LgRest
<1> QED
  BY <1>1, <1>2, <1>3, <1>4 DEF LgInv

\* A request goes from one point to the next.
LEMMA LgMoves ==
    ASSUME LgTypes, NEW w \in LgWeb, NEW t \in [pc : LgPcs, s : Nat, n : Nat], LgGoes(w, t)
    PROVE  /\ lgTask' \in [LgWeb -> [pc : LgPcs, s : Nat, n : Nat]]
           /\ lgTask'[w] = t
           /\ \A v \in LgWeb : v # w => lgTask'[v] = lgTask[v]
BY DEF LgTypes, LgGoes

\* A request that keeps what it knows.
LEMMA LgAdvances ==
    ASSUME LgTypes, NEW w \in LgWeb, NEW pc \in LgPcs, LgTo(w, pc)
    PROVE  /\ lgTask' \in [LgWeb -> [pc : LgPcs, s : Nat, n : Nat]]
           /\ lgTask'[w] = [pc |-> pc, s |-> lgTask[w].s, n |-> lgTask[w].n]
           /\ \A v \in LgWeb : v # w => lgTask'[v] = lgTask[v]
<1>1. [lgTask[w] EXCEPT !.pc = pc] = [pc |-> pc, s |-> lgTask[w].s, n |-> lgTask[w].n]
  BY DEF LgTypes
<1>2. [lgTask[w] EXCEPT !.pc = pc] \in [pc : LgPcs, s : Nat, n : Nat]
  BY <1>1 DEF LgTypes
<1> QED
  BY <1>1, <1>2, LgMoves DEF LgTo

\* The requests about the user.
LEMMA LgSetsUp ==
    ASSUME LgInv, NEW w \in LgWeb, SetupInit(w) \/ FindUser(w) \/ InsertUser(w) \/ SetupStored(w)
    PROVE  LgInv'
<1>1. LgRest = [pc |-> "idle", s |-> 0, n |-> 0] /\ LgRest \in [pc : LgPcs, s : Nat, n : Nat]
  BY DEF LgRest, LgPcs
<1> DEFINE T(pc) == [LgRest EXCEPT !.pc = pc]
<1>2. \A pc \in LgPcs : T(pc) = [pc |-> pc, s |-> 0, n |-> 0] /\ T(pc) \in [pc : LgPcs, s : Nat, n : Nat]
  BY DEF LgRest
<1>3. UNCHANGED <<lgMulti, lgMixed, lgNext, lgChal, lgSess, lgEnrol, lgUsed>>
  BY DEF SetupInit, FindUser, InsertUser, SetupStored, lgConf, lgFactor, lgHist
<1>4. \E t \in [pc : LgPcs, s : Nat, n : Nat] :
         /\ t.pc \in {"idle", "setup", "insert_user", "initialized"}
         /\ LgGoes(w, t)
         /\ t.pc = "initialized" => lgUsers' = 1
         /\ lgUsers' \in {lgUsers, 1} /\ lgReady' \in BOOLEAN
         /\ lgReady' => lgReady \/ lgTask[w].pc = "initialized"
  <2>1. CASE SetupInit(w)
    <3>1. T("setup") \in [pc : LgPcs, s : Nat, n : Nat] /\ T("setup").pc = "setup"
      BY <1>2 DEF LgPcs
    <3>2. LgGoes(w, T("setup")) /\ UNCHANGED <<lgReady, lgUsers>>
      BY <2>1 DEF SetupInit, LgArrives, lgConf
    <3> QED
      BY <3>1, <3>2 DEF LgInv, LgTypes
  <2>2. CASE FindUser(w)
    BY <2>2, <1>1, <1>2 DEF FindUser, LgPcs, lgConf, LgInv, LgTypes
  <2>3. CASE InsertUser(w)
    <3>1. "initialized" \in LgPcs
      BY DEF LgPcs
    <3>2. [lgTask[w] EXCEPT !.pc = "initialized"] \in [pc : LgPcs, s : Nat, n : Nat]
      BY <3>1 DEF LgInv, LgTypes
    <3>3. [lgTask[w] EXCEPT !.pc = "initialized"].pc = "initialized"
      BY DEF LgInv, LgTypes
    <3> QED
      BY <2>3, <3>2, <3>3, <1>1 DEF InsertUser, LgTo, LgInv, LgTypes
  <2>4. CASE SetupStored(w)
    BY <2>4, <1>1 DEF SetupStored, LgInv, LgTypes, LgAt
  <2> QED
    BY <2>1, <2>2, <2>3, <2>4
<1>5. PICK t \in [pc : LgPcs, s : Nat, n : Nat] :
         /\ t.pc \in {"idle", "setup", "insert_user", "initialized"}
         /\ LgGoes(w, t)
         /\ t.pc = "initialized" => lgUsers' = 1
         /\ lgUsers' \in {lgUsers, 1} /\ lgReady' \in BOOLEAN
         /\ lgReady' => lgReady \/ lgTask[w].pc = "initialized"
  BY <1>4
<1>6. /\ lgTask' \in [LgWeb -> [pc : LgPcs, s : Nat, n : Nat]]
      /\ lgTask'[w] = t
      /\ \A v \in LgWeb : v # w => lgTask'[v] = lgTask[v]
  BY <1>5, LgMoves DEF LgInv
<1>7. LgTypes'
  BY <1>3, <1>5, <1>6 DEF LgInv, LgTypes
<1>8. LgSetUp'
  BY <1>5, <1>6 DEF LgInv, LgTypes, LgSetUp
<1>9. LgChallenges'
  BY <1>3, <1>5, <1>6 DEF LgInv, LgChallenges, ChallengeUsedOnce
<1>10. LgSessions'
  BY <1>3, <1>5, <1>6 DEF LgInv, LgSessions
<1> QED
  BY <1>7, <1>8, <1>9, <1>10 DEF LgInv

\* A step that leaves users alone, takes numbers in their order, uses no
\* challenge, and takes requests to one point at most.
LEMMA LgQuiet ==
    ASSUME LgInv, NEW t \in [pc : LgPcs, s : Nat, n : Nat],
           lgTask' \in [LgWeb -> [pc : LgPcs, s : Nat, n : Nat]],
           \A v \in LgWeb : lgTask'[v] = lgTask[v] \/ lgTask'[v] = t,
           UNCHANGED <<lgReady, lgUsers, lgMulti, lgUsed>>,
           lgNext' \in Nat, lgNext <= lgNext',
           lgChal' \in [id : Nat, fails : Nat],
           lgChal'.id < lgNext',
           lgChal'.id = 0 \/ lgChal'.id = lgChal.id \/ lgNext <= lgChal'.id,
           lgSess' \in SUBSET Nat, lgEnrol' \in SUBSET [session : Nat, secret : Nat],
           lgMixed' \in BOOLEAN, lgMixed => lgMixed',
           ~lgMulti /\ ~lgMixed' => \A x, y \in lgSess' : x = y,
           t.pc # "initialized",
           t.pc \in {"verify", "wrong", "consume"} => t.n # 0,
           t.pc = "rf_create" => lgMixed'
    PROVE  LgInv'
<1>2. LgTypes'
  BY DEF LgInv, LgTypes
<1>3. LgSetUp'
  BY DEF LgInv, LgSetUp
<1>4. LgChallenges'
  <2>1. \A v \in LgWeb : lgTask'[v].pc \in {"verify", "wrong", "consume"} => lgTask'[v].n # 0
    BY DEF LgInv, LgChallenges
  <2>2. \A i \in DOMAIN lgUsed : lgUsed[i] \in Nat
    BY DEF LgInv, LgTypes
  <2>3. \A i \in DOMAIN lgUsed' : lgUsed'[i] # 0 /\ lgUsed'[i] < lgNext' /\ lgUsed'[i] # lgChal'.id
    BY <2>2 DEF LgInv, LgChallenges, LgTypes
  <2>4. ChallengeUsedOnce'
    BY DEF LgInv, LgChallenges, ChallengeUsedOnce
  <2> QED
    BY <2>1, <2>3, <2>4 DEF LgChallenges
<1>5. LgSessions'
  BY DEF LgInv, LgSessions
<1> QED
  BY <1>2, <1>3, <1>4, <1>5 DEF LgInv

\* The same of one request that goes to t, with the users and the numbers left alone.
LEMMA LgSteps1 ==
    ASSUME LgInv, NEW w \in LgWeb, NEW t \in [pc : LgPcs, s : Nat, n : Nat], LgGoes(w, t),
           UNCHANGED <<lgReady, lgUsers, lgMulti, lgUsed, lgNext>>,
           lgChal' \in [id : Nat, fails : Nat], lgChal'.id \in {0, lgChal.id},
           lgSess' \in SUBSET lgSess, lgEnrol' \in SUBSET [session : Nat, secret : Nat],
           lgMixed' \in BOOLEAN, lgMixed => lgMixed',
           t.pc # "initialized",
           t.pc \in {"verify", "wrong", "consume"} => t.n # 0,
           t.pc = "rf_create" => lgMixed'
    PROVE  LgInv'
<1>1. /\ lgTask' \in [LgWeb -> [pc : LgPcs, s : Nat, n : Nat]]
      /\ \A v \in LgWeb : lgTask'[v] = lgTask[v] \/ lgTask'[v] = t
  BY LgMoves DEF LgInv, LgTypes
<1>2. lgNext' \in Nat /\ lgNext <= lgNext' /\ lgChal'.id < lgNext'
  BY DEF LgInv, LgTypes, LgChallenges
<1>3. lgSess' \in SUBSET Nat /\ (~lgMulti /\ ~lgMixed' => \A x, y \in lgSess' : x = y)
  BY DEF LgInv, LgTypes, LgSessions
<1> QED
  BY <1>1, <1>2, <1>3, LgQuiet

\* Where a request starts, and where it goes on.
LEMMA LgPoints ==
    ASSUME LgInv, NEW w \in LgWeb, NEW pc \in LgPcs, NEW s \in Nat, NEW n \in Nat
    PROVE  /\ LgRest \in [pc : LgPcs, s : Nat, n : Nat] /\ LgRest.pc = "idle"
           /\ [LgRest EXCEPT !.pc = pc] \in [pc : LgPcs, s : Nat, n : Nat]
           /\ [LgRest EXCEPT !.pc = pc].pc = pc
           /\ [LgRest EXCEPT !.pc = pc, !.s = s] \in [pc : LgPcs, s : Nat, n : Nat]
           /\ [LgRest EXCEPT !.pc = pc, !.s = s].pc = pc
           /\ [LgRest EXCEPT !.pc = pc, !.n = n] \in [pc : LgPcs, s : Nat, n : Nat]
           /\ [LgRest EXCEPT !.pc = pc, !.n = n].pc = pc
           /\ [LgRest EXCEPT !.pc = pc, !.n = n].n = n
           /\ [lgTask[w] EXCEPT !.pc = pc] \in [pc : LgPcs, s : Nat, n : Nat]
           /\ [lgTask[w] EXCEPT !.pc = pc].pc = pc
           /\ [lgTask[w] EXCEPT !.pc = pc].n = lgTask[w].n
           /\ lgTask[w].s \in Nat /\ lgTask[w].n \in Nat
<1>1. lgTask[w] \in [pc : LgPcs, s : Nat, n : Nat]
  BY DEF LgInv, LgTypes
<1>2. LgRest \in [pc : LgPcs, s : Nat, n : Nat] /\ LgRest.pc = "idle"
  BY DEF LgRest, LgPcs
<1>3. [LgRest EXCEPT !.pc = pc] \in [pc : LgPcs, s : Nat, n : Nat]
  BY <1>2
<1>4. [LgRest EXCEPT !.pc = pc].pc = pc
  BY <1>2
<1>5. [LgRest EXCEPT !.pc = pc, !.s = s] \in [pc : LgPcs, s : Nat, n : Nat]
  BY DEF LgRest
<1>6. [LgRest EXCEPT !.pc = pc, !.s = s].pc = pc
  BY DEF LgRest
<1>7. [LgRest EXCEPT !.pc = pc, !.n = n] \in [pc : LgPcs, s : Nat, n : Nat]
  BY DEF LgRest
<1>8. [LgRest EXCEPT !.pc = pc, !.n = n].pc = pc
  BY DEF LgRest
<1>9. [LgRest EXCEPT !.pc = pc, !.n = n].n = n
  BY DEF LgRest
<1>10. [lgTask[w] EXCEPT !.pc = pc] \in [pc : LgPcs, s : Nat, n : Nat]
  BY <1>1
<1>11. [lgTask[w] EXCEPT !.pc = pc].pc = pc /\ [lgTask[w] EXCEPT !.pc = pc].n = lgTask[w].n
  BY <1>1
<1> QED
  BY <1>1, <1>2, <1>3, <1>4, <1>5, <1>6, <1>7, <1>8, <1>9, <1>10, <1>11

\* Requests that start.
LEMMA LgBegins ==
    ASSUME LgInv, NEW w \in LgWeb,
           \/ LoginVerify(w) \/ CompleteLogin(w) \/ RedfishCreate(w)
           \/ \E s \in lgSess : BeginEnrollment(w, s) \/ DisableTotp(w, s)
           \/ \E e \in lgEnrol : ConfirmEnrollment(w, e) \/ EnrollmentFails(w, e)
    PROVE  LgInv'
<1> DEFINE P == [pc : LgPcs, s : Nat, n : Nat]
<1>0. /\ lgChal \in [id : Nat, fails : Nat] /\ lgMixed \in BOOLEAN
      /\ lgSess \in SUBSET Nat /\ lgEnrol \in SUBSET [session : Nat, secret : Nat]
  BY DEF LgInv, LgTypes
<1>p. {"idle", "create", "challenge", "verify", "rf_create", "enrol", "delete", "store"} \subseteq LgPcs
  BY DEF LgPcs
<1>1. ASSUME LoginVerify(w) PROVE LgInv'
  <2>1. PICK pc \in {"create", "challenge"} : LgGoes(w, [LgRest EXCEPT !.pc = pc])
    BY <1>1 DEF LoginVerify, LgArrives
  <2>2. [LgRest EXCEPT !.pc = pc] \in P /\ [LgRest EXCEPT !.pc = pc].pc = pc
    BY <1>p, LgPoints
  <2>3. UNCHANGED <<lgReady, lgUsers, lgMulti, lgUsed, lgNext, lgChal, lgSess, lgEnrol, lgMixed>>
    BY <1>1 DEF LoginVerify, lgConf, lgFactor, lgHist
  <2> QED
    BY <2>1, <2>2, <2>3, <1>0, LgSteps1
<1>2. ASSUME CompleteLogin(w) PROVE LgInv'
  <2>1. lgChal.id \in Nat /\ lgChal.id # 0 /\ LgGoes(w, [LgRest EXCEPT !.pc = "verify", !.n = lgChal.id])
    BY <1>2, <1>0 DEF CompleteLogin, LgArrives
  <2>2. /\ [LgRest EXCEPT !.pc = "verify", !.n = lgChal.id] \in P
        /\ [LgRest EXCEPT !.pc = "verify", !.n = lgChal.id].pc = "verify"
        /\ [LgRest EXCEPT !.pc = "verify", !.n = lgChal.id].n = lgChal.id
    BY <2>1, <1>p, LgPoints
  <2>3. UNCHANGED <<lgReady, lgUsers, lgMulti, lgUsed, lgNext, lgChal, lgSess, lgEnrol, lgMixed>>
    BY <1>2 DEF CompleteLogin, lgConf, lgFactor, lgHist
  <2> QED
    BY <2>1, <2>2, <2>3, <1>0, LgSteps1
<1>3. ASSUME RedfishCreate(w) PROVE LgInv'
  <2>1. LgGoes(w, [LgRest EXCEPT !.pc = "rf_create"]) /\ lgMixed' = TRUE
    BY <1>3 DEF RedfishCreate, LgArrives
  <2>2. [LgRest EXCEPT !.pc = "rf_create"] \in P /\ [LgRest EXCEPT !.pc = "rf_create"].pc = "rf_create"
    BY <1>p, LgPoints
  <2>3. UNCHANGED <<lgReady, lgUsers, lgMulti, lgUsed, lgNext, lgChal, lgEnrol>> /\ lgSess' \in {lgSess, {}}
    BY <1>3 DEF RedfishCreate, lgConf, lgFactor
  <2> QED
    BY <2>1, <2>2, <2>3, <1>0, LgSteps1
<1>4. ASSUME NEW s \in lgSess, BeginEnrollment(w, s) \/ DisableTotp(w, s) PROVE LgInv'
  <2>1. s \in Nat
    BY <1>0
  <2>2. \/ LgGoes(w, [LgRest EXCEPT !.pc = "enrol", !.s = s])
        \/ LgGoes(w, [LgRest EXCEPT !.pc = "delete", !.s = s])
        \/ LgGoes(w, LgRest)
    BY <1>4 DEF BeginEnrollment, DisableTotp, LgArrives
  <2>a. LgRest \in P /\ LgRest.pc = "idle"
    BY DEF LgRest, LgPcs
  <2>b. [LgRest EXCEPT !.pc = "enrol", !.s = s] \in P /\ [LgRest EXCEPT !.pc = "enrol", !.s = s].pc = "enrol"
    BY <2>1, <1>p, LgPoints
  <2>c. [LgRest EXCEPT !.pc = "delete", !.s = s] \in P /\ [LgRest EXCEPT !.pc = "delete", !.s = s].pc = "delete"
    BY <2>1, <1>p, LgPoints
  <2>3. PICK t \in P : LgGoes(w, t) /\ t.pc \in {"idle", "enrol", "delete"}
    BY <2>2, <2>a, <2>b, <2>c
  <2>4. UNCHANGED <<lgReady, lgUsers, lgMulti, lgUsed, lgNext, lgChal, lgSess, lgEnrol, lgMixed>>
    BY <1>4 DEF BeginEnrollment, DisableTotp, lgConf, lgFactor, lgHist
  <2> QED
    BY <2>3, <2>4, <1>0, LgSteps1
<1>5. ASSUME NEW e \in lgEnrol, ConfirmEnrollment(w, e) \/ EnrollmentFails(w, e) PROVE LgInv'
  <2>1. e.session \in Nat /\ e.secret \in Nat
    BY <1>0
  <2>2. \/ LgGoes(w, [pc |-> "store", s |-> e.session, n |-> e.secret])
        \/ LgGoes(w, LgRest)
    BY <1>5 DEF ConfirmEnrollment, EnrollmentFails, LgArrives
  <2>a. LgRest \in P /\ LgRest.pc = "idle"
    BY DEF LgRest, LgPcs
  <2>b. [pc |-> "store", s |-> e.session, n |-> e.secret] \in P
    BY <2>1, <1>p
  <2>3. PICK t \in P : LgGoes(w, t) /\ t.pc \in {"idle", "store"}
    BY <2>2, <2>a, <2>b
  <2>4. UNCHANGED <<lgReady, lgUsers, lgMulti, lgUsed, lgNext, lgChal, lgSess, lgMixed>> /\ lgEnrol' \in SUBSET lgEnrol
    BY <1>5 DEF ConfirmEnrollment, EnrollmentFails, lgConf, lgFactor, lgHist
  <2> QED
    BY <2>3, <2>4, <1>0, LgSteps1
<1> QED
  BY <1>1, <1>2, <1>3, <1>4, <1>5

\* Requests that go on, and take no number.
LEMMA LgGoesOn ==
    ASSUME LgInv, NEW w \in LgWeb,
           VerifyCode(w) \/ WrongCode(w) \/ StoreCredential(w) \/ DeleteCredential(w) \/ RevokeOthers(w)
    PROVE  LgInv'
<1> DEFINE P == [pc : LgPcs, s : Nat, n : Nat]
<1>0. /\ lgChal \in [id : Nat, fails : Nat] /\ lgMixed \in BOOLEAN
      /\ lgSess \in SUBSET Nat /\ lgEnrol \in SUBSET [session : Nat, secret : Nat]
  BY DEF LgInv, LgTypes
<1>p. {"idle", "consume", "wrong", "revoke"} \subseteq LgPcs
  BY DEF LgPcs
<1>n. NoChallenge \in [id : Nat, fails : Nat] /\ NoChallenge.id = 0
  BY DEF NoChallenge
<1>1. ASSUME VerifyCode(w) PROVE LgInv'
  <2>1. \/ LgTo(w, "consume") \/ LgTo(w, "wrong") \/ LgGoes(w, LgRest)
    BY <1>1 DEF VerifyCode
  <2>2. lgTask[w].n # 0
    BY <1>1 DEF VerifyCode, LgAt, LgInv, LgChallenges
  <2>a. LgRest \in P /\ LgRest.pc = "idle"
    BY DEF LgRest, LgPcs
  <2>b. /\ [lgTask[w] EXCEPT !.pc = "consume"] \in P
        /\ [lgTask[w] EXCEPT !.pc = "consume"].pc = "consume"
        /\ [lgTask[w] EXCEPT !.pc = "consume"].n = lgTask[w].n
    BY <1>p, LgPoints, 0 \in Nat
  <2>c. /\ [lgTask[w] EXCEPT !.pc = "wrong"] \in P
        /\ [lgTask[w] EXCEPT !.pc = "wrong"].pc = "wrong"
        /\ [lgTask[w] EXCEPT !.pc = "wrong"].n = lgTask[w].n
    BY <1>p, LgPoints, 0 \in Nat
  <2>d. \/ LgGoes(w, [lgTask[w] EXCEPT !.pc = "consume"])
        \/ LgGoes(w, [lgTask[w] EXCEPT !.pc = "wrong"])
        \/ LgGoes(w, LgRest)
    BY <2>1 DEF LgTo
  <2>3. PICK t \in P : LgGoes(w, t) /\ t.pc \in {"idle", "consume", "wrong"} /\ (t.pc # "idle" => t.n # 0)
    BY <2>d, <2>2, <2>a, <2>b, <2>c
  <2>4. UNCHANGED <<lgReady, lgUsers, lgMulti, lgUsed, lgNext, lgSess, lgEnrol, lgMixed>> /\ lgChal' \in {lgChal, NoChallenge}
    BY <1>1 DEF VerifyCode, lgConf, lgHist
  <2> QED
    BY <2>3, <2>4, <1>0, <1>n, LgSteps1
<1>2. ASSUME WrongCode(w) PROVE LgInv'
  <2>1. LgGoes(w, LgRest) /\ LgRest \in P /\ LgRest.pc = "idle"
    BY <1>2 DEF WrongCode, LgRest, LgPcs
  <2>2. lgChal' \in [id : Nat, fails : Nat] /\ lgChal'.id \in {0, lgChal.id}
    BY <1>2, <1>0, <1>n DEF WrongCode
  <2>3. UNCHANGED <<lgReady, lgUsers, lgMulti, lgUsed, lgNext, lgSess, lgEnrol, lgMixed>>
    BY <1>2 DEF WrongCode, lgConf, lgHist
  <2> QED
    BY <2>1, <2>2, <2>3, <1>0, LgSteps1
<1>3. ASSUME StoreCredential(w) PROVE LgInv'
  <2>1. LgTo(w, "revoke") \/ LgGoes(w, LgRest)
    BY <1>3 DEF StoreCredential
  <2>a. LgRest \in P /\ LgRest.pc = "idle"
    BY DEF LgRest, LgPcs
  <2>b. [lgTask[w] EXCEPT !.pc = "revoke"] \in P /\ [lgTask[w] EXCEPT !.pc = "revoke"].pc = "revoke"
    BY <1>p, LgPoints, 0 \in Nat
  <2>2. PICK t \in P : LgGoes(w, t) /\ t.pc \in {"idle", "revoke"}
    BY <2>1, <2>a, <2>b DEF LgTo
  <2>3. UNCHANGED <<lgReady, lgUsers, lgMulti, lgUsed, lgNext, lgChal, lgSess, lgMixed>> /\ lgEnrol' \in SUBSET lgEnrol
    BY <1>3 DEF StoreCredential, lgConf, lgHist
  <2> QED
    BY <2>2, <2>3, <1>0, LgSteps1
<1>4. ASSUME DeleteCredential(w) PROVE LgInv'
  <2>1. LgTo(w, "revoke") \/ LgGoes(w, LgRest)
    BY <1>4 DEF DeleteCredential
  <2>a. LgRest \in P /\ LgRest.pc = "idle"
    BY DEF LgRest, LgPcs
  <2>b. [lgTask[w] EXCEPT !.pc = "revoke"] \in P /\ [lgTask[w] EXCEPT !.pc = "revoke"].pc = "revoke"
    BY <1>p, LgPoints, 0 \in Nat
  <2>2. PICK t \in P : LgGoes(w, t) /\ t.pc \in {"idle", "revoke"}
    BY <2>1, <2>a, <2>b DEF LgTo
  <2>3. /\ UNCHANGED <<lgReady, lgUsers, lgMulti, lgUsed, lgNext, lgSess, lgMixed>>
        /\ lgEnrol' \in SUBSET lgEnrol /\ lgChal' \in {lgChal, NoChallenge}
    BY <1>4 DEF DeleteCredential, lgConf, lgHist, lgFactor
  <2> QED
    BY <2>2, <2>3, <1>0, <1>n, LgSteps1
<1>5. ASSUME RevokeOthers(w) PROVE LgInv'
  <2>1. LgGoes(w, LgRest) /\ LgRest \in P /\ LgRest.pc = "idle"
    BY <1>5 DEF RevokeOthers, LgRest, LgPcs
  <2>2. UNCHANGED <<lgReady, lgUsers, lgMulti, lgUsed, lgNext, lgChal, lgEnrol, lgMixed>> /\ lgSess' \in SUBSET lgSess
    BY <1>5 DEF RevokeOthers, lgConf, lgHist, lgFactor
  <2> QED
    BY <2>1, <2>2, <1>0, LgSteps1
<1> QED
  BY <1>1, <1>2, <1>3, <1>4, <1>5

\* Requests that take a number.
LEMMA LgNumbers ==
    ASSUME LgInv, NEW w \in LgWeb,
           BeginLogin(w) \/ CreateForLogin(w) \/ RedfishCreated(w) \/ EnrollmentShown(w)
    PROVE  LgInv'
<1> DEFINE P == [pc : LgPcs, s : Nat, n : Nat]
<1>0. /\ lgChal \in [id : Nat, fails : Nat] /\ lgMixed \in BOOLEAN /\ lgNext \in Nat
      /\ lgSess \in SUBSET Nat /\ lgEnrol \in SUBSET [session : Nat, secret : Nat]
      /\ lgChal.id < lgNext /\ lgTask[w].s \in Nat
  BY DEF LgInv, LgTypes, LgChallenges
<1>1. LgGoes(w, LgRest) /\ LgRest \in P /\ LgRest.pc = "idle"
  <2>1. LgRest \in P /\ LgRest.pc = "idle"
    BY DEF LgRest, LgPcs
  <2> QED
    BY <2>1 DEF BeginLogin, CreateForLogin, RedfishCreated, EnrollmentShown
<1>2. /\ lgTask' \in [LgWeb -> P]
      /\ \A v \in LgWeb : lgTask'[v] = lgTask[v] \/ lgTask'[v] = LgRest
  BY <1>1, LgMoves DEF LgInv, LgTypes
<1>3. /\ lgNext' = lgNext + 1 /\ UNCHANGED <<lgReady, lgUsers, lgMulti, lgUsed, lgMixed>>
  BY DEF BeginLogin, CreateForLogin, RedfishCreated, EnrollmentShown, lgConf, lgHist
<1>4. /\ lgChal' \in [id : Nat, fails : Nat]
      /\ lgChal' = lgChal \/ lgChal'.id = lgNext
  BY <1>0 DEF BeginLogin, CreateForLogin, RedfishCreated, EnrollmentShown, lgFactor
<1>5. lgSess' \in SUBSET Nat /\ (~lgMulti /\ ~lgMixed => \A x, y \in lgSess' : x = y)
  <2>1. CASE BeginLogin(w) \/ EnrollmentShown(w)
    BY <2>1, <1>0 DEF BeginLogin, EnrollmentShown, LgInv, LgSessions
  <2>2. CASE CreateForLogin(w)
    BY <2>2, <1>0 DEF CreateForLogin
  <2>3. CASE RedfishCreated(w)
    BY <2>3, <1>0 DEF RedfishCreated, LgAt, LgInv, LgSessions
  <2> QED
    BY <2>1, <2>2, <2>3
<1>6. lgEnrol' \in SUBSET [session : Nat, secret : Nat]
  BY <1>0 DEF BeginLogin, CreateForLogin, RedfishCreated, EnrollmentShown, lgFactor
<1> QED
  BY <1>0, <1>1, <1>2, <1>3, <1>4, <1>5, <1>6, LgQuiet

\* What happens without a request.
LEMMA LgPasses ==
    ASSUME LgInv, ChallengeExpires \/ WindowPasses \/ CliDisable \/ \E s \in lgSess : SessionEnds(s)
    PROVE  LgInv'
<1>0. /\ lgChal \in [id : Nat, fails : Nat] /\ lgMixed \in BOOLEAN /\ lgNext \in Nat
      /\ lgSess \in SUBSET Nat /\ lgEnrol \in SUBSET [session : Nat, secret : Nat]
      /\ lgChal.id < lgNext /\ lgTask \in [LgWeb -> [pc : LgPcs, s : Nat, n : Nat]]
      /\ ~lgMulti /\ ~lgMixed => \A x, y \in lgSess : x = y
  BY DEF LgInv, LgTypes, LgChallenges, LgSessions
<1>1. LgRest \in [pc : LgPcs, s : Nat, n : Nat] /\ LgRest.pc = "idle"
  BY DEF LgRest, LgPcs
<1>2. UNCHANGED <<lgReady, lgUsers, lgMulti, lgUsed, lgMixed, lgNext, lgTask, lgEnrol>>
  BY DEF ChallengeExpires, WindowPasses, CliDisable, SessionEnds, lgConf, lgHist, lgFactor
<1>3. /\ lgChal' \in [id : Nat, fails : Nat] /\ lgChal'.id \in {0, lgChal.id}
  BY <1>0 DEF ChallengeExpires, WindowPasses, CliDisable, SessionEnds, lgFactor, NoChallenge
<1>4. lgSess' \in SUBSET lgSess
  BY DEF ChallengeExpires, WindowPasses, CliDisable, SessionEnds
<1>5. lgChal'.id < lgNext'
  <2>1. lgNext # 0
    BY DEF LgInv, LgTypes
  <2> QED
    BY <1>0, <1>2, <1>3, <2>1
<1> QED
  BY <1>0, <1>1, <1>2, <1>3, <1>4, <1>5, LgQuiet

\* A challenge is used, and is then open no more.
LEMMA LgUses ==
    ASSUME LgInv, NEW w \in LgWeb, ConsumeChallenge(w)
    PROVE  LgInv'
<1> DEFINE P == [pc : LgPcs, s : Nat, n : Nat]
<1>0. /\ lgChal \in [id : Nat, fails : Nat] /\ lgMixed \in BOOLEAN /\ lgNext \in Nat
      /\ lgSess \in SUBSET Nat /\ lgEnrol \in SUBSET [session : Nat, secret : Nat]
      /\ lgChal.id < lgNext /\ lgTask[w].n \in Nat /\ lgUsed \in Seq(Nat)
  BY DEF LgInv, LgTypes, LgChallenges
<1>n. lgChal' \in [id : Nat, fails : Nat] /\ lgChal'.id = 0
  BY DEF ConsumeChallenge, NoChallenge
<1>1. CASE lgChal.id = lgTask[w].n
  <2>1. LgTo(w, "create") /\ lgUsed' = Append(lgUsed, lgTask[w].n)
    BY <1>1 DEF ConsumeChallenge
  <2>2. /\ lgTask' \in [LgWeb -> P]
        /\ lgTask'[w].pc = "create"
        /\ \A v \in LgWeb : v # w => lgTask'[v] = lgTask[v]
    <3>1. "create" \in LgPcs
      BY DEF LgPcs
    <3>2. /\ lgTask' \in [LgWeb -> P]
          /\ lgTask'[w] = [pc |-> "create", s |-> lgTask[w].s, n |-> lgTask[w].n]
          /\ \A v \in LgWeb : v # w => lgTask'[v] = lgTask[v]
      BY <2>1, <3>1, LgAdvances DEF LgInv
    <3> QED
      BY <3>2
  <2>3. UNCHANGED <<lgReady, lgUsers, lgMulti, lgMixed, lgNext, lgSess, lgEnrol>>
    BY DEF ConsumeChallenge, lgConf
  <2>4. lgUsed' \in Seq(Nat)
    BY <2>1, <1>0
  <2>5. LgTypes'
    BY <2>2, <2>3, <2>4, <1>n DEF LgInv, LgTypes
  <2>6. LgSetUp'
    BY <2>2, <2>3 DEF LgInv, LgSetUp
  <2>7. LgSessions'
    BY <2>2, <2>3 DEF LgInv, LgSessions
  <2>8. LgChallenges'
    <3>1. lgTask[w].n # 0 /\ lgTask[w].n < lgNext
      BY <1>0, <1>1 DEF ConsumeChallenge, LgAt, LgInv, LgChallenges
    <3>2. /\ DOMAIN lgUsed = 1..Len(lgUsed) /\ DOMAIN lgUsed' = 1..(Len(lgUsed) + 1) /\ Len(lgUsed) \in Nat
          /\ lgUsed'[Len(lgUsed) + 1] = lgTask[w].n
          /\ \A i \in DOMAIN lgUsed : lgUsed'[i] = lgUsed[i]
      BY <2>1, <1>0
    <3>3. \A i \in DOMAIN lgUsed : lgUsed[i] # 0 /\ lgUsed[i] < lgNext /\ lgUsed[i] # lgTask[w].n
      BY <1>1 DEF LgInv, LgChallenges
    <3>4. \A i \in DOMAIN lgUsed' : i \in DOMAIN lgUsed \/ i = Len(lgUsed) + 1
      BY <3>2
    <3>5. \A i \in DOMAIN lgUsed' : lgUsed'[i] # 0 /\ lgUsed'[i] < lgNext' /\ lgUsed'[i] # lgChal'.id
      BY <3>1, <3>2, <3>3, <3>4, <2>3, <1>n
    <3>6. ChallengeUsedOnce'
      BY <3>2, <3>3, <3>4 DEF LgInv, LgChallenges, ChallengeUsedOnce
    <3>7. \A v \in LgWeb : lgTask'[v].pc \in {"verify", "wrong", "consume"} => lgTask'[v].n # 0
      BY <2>2 DEF LgInv, LgChallenges
    <3>8. lgChal'.id < lgNext'
      BY <1>n, <2>3 DEF LgInv, LgTypes
    <3> QED
      BY <3>5, <3>6, <3>7, <3>8 DEF LgChallenges
  <2> QED
    BY <2>5, <2>6, <2>7, <2>8 DEF LgInv
<1>2. CASE lgChal.id # lgTask[w].n
  <2>1. LgGoes(w, LgRest) /\ LgRest \in P /\ LgRest.pc = "idle"
    BY <1>2 DEF ConsumeChallenge, LgRest, LgPcs
  <2>2. UNCHANGED <<lgReady, lgUsers, lgMulti, lgUsed, lgNext, lgSess, lgEnrol, lgMixed>>
    BY <1>2 DEF ConsumeChallenge, lgConf
  <2> QED
    BY <2>1, <2>2, <1>0, <1>n, LgSteps1
<1> QED
  BY <1>1, <1>2

\* Every step keeps the invariant.
LEMMA LgSteps == LgInv /\ [LgNext]_lgVars => LgInv'
<1> SUFFICES ASSUME LgInv, [LgNext]_lgVars PROVE LgInv'
  OBVIOUS
<1>1. CASE UNCHANGED lgVars
  BY <1>1 DEF LgInv, lgVars, LgTypes, LgSetUp, LgChallenges, ChallengeUsedOnce, LgSessions
<1>2. CASE LgNext
  BY <1>2, LgSetsUp, LgBegins, LgGoesOn, LgNumbers, LgPasses, LgUses DEF LgNext
<1> QED
  BY <1>1, <1>2

\* What the invariant says of sessions, counted.
LEMMA LgPromised == LgInv => OneUserIsSetUp /\ ChallengeUsedOnce /\ LoginLeavesOneSession
<1> SUFFICES ASSUME LgInv PROVE OneUserIsSetUp /\ ChallengeUsedOnce /\ LoginLeavesOneSession
  OBVIOUS
<1>1. OneUserIsSetUp
  BY DEF LgInv, LgTypes, LgSetUp, OneUserIsSetUp
<1>2. LoginLeavesOneSession
  <2> SUFFICES ASSUME ~lgMulti, ~lgMixed PROVE Cardinality(lgSess) <= 1
    BY DEF LoginLeavesOneSession
  <2>1. lgSess = {} \/ \E x : lgSess = {x}
    BY DEF LgInv, LgSessions
  <2>2. CASE lgSess = {}
    BY <2>2, FS_EmptySet
  <2>3. CASE \E x : lgSess = {x}
    <3>1. PICK x : lgSess = {x}
      BY <2>3
    <3>2. Cardinality({x}) = 1
      BY FS_Singleton
    <3> QED
      BY <3>1, <3>2
  <2> QED
    BY <2>1, <2>2, <2>3
<1> QED
  BY <1>1, <1>2 DEF LgInv, LgChallenges

\* The one action that stores a credential finds none there.
LEMMA LgCredential ==
    ASSUME [LgNext]_lgVars, lgTotp # 0, lgTotp' # 0
    PROVE  lgTotp' = lgTotp
<1>1. CASE UNCHANGED lgVars
  BY <1>1 DEF lgVars
<1>2. CASE \E w \in LgWeb : StoreCredential(w)
  BY <1>2 DEF StoreCredential
<1>3. CASE \E w \in LgWeb : DeleteCredential(w)
  BY <1>3 DEF DeleteCredential, lgFactor
<1>4. CASE CliDisable
  BY <1>4 DEF CliDisable
<1>5. CASE \E w \in LgWeb : \/ SetupInit(w) \/ FindUser(w) \/ InsertUser(w) \/ SetupStored(w)
                            \/ LoginVerify(w) \/ CreateForLogin(w) \/ RedfishCreate(w) \/ RedfishCreated(w)
                            \/ CompleteLogin(w) \/ RevokeOthers(w)
  BY <1>5 DEF SetupInit, FindUser, InsertUser, SetupStored, LoginVerify, CreateForLogin, RedfishCreate,
              RedfishCreated, CompleteLogin, RevokeOthers, lgFactor
<1>6. CASE \E w \in LgWeb : \/ BeginLogin(w) \/ VerifyCode(w) \/ WrongCode(w) \/ ConsumeChallenge(w) \/ EnrollmentShown(w)
  BY <1>6 DEF BeginLogin, VerifyCode, WrongCode, ConsumeChallenge, EnrollmentShown
<1>7. CASE \E w \in LgWeb : \/ \E s \in lgSess : BeginEnrollment(w, s) \/ DisableTotp(w, s)
                            \/ \E e \in lgEnrol : ConfirmEnrollment(w, e) \/ EnrollmentFails(w, e)
  BY <1>7 DEF BeginEnrollment, DisableTotp, ConfirmEnrollment, EnrollmentFails, lgFactor
<1>8. CASE ChallengeExpires \/ WindowPasses \/ \E s \in lgSess : SessionEnds(s)
  BY <1>8 DEF ChallengeExpires, WindowPasses, SessionEnds, lgFactor
<1> QED
  BY <1>1, <1>2, <1>3, <1>4, <1>5, <1>6, <1>7, <1>8 DEF LgNext

-----------------------------------------------------------------------------
\* The store of images

MsKinds == {"none", "upload", "drive", "download", "insert"}
MsPcs == {"none", "end", "done", "failed", "mount", "mounted", "asked", "head", "get", "body",
          "tell_done", "tell_failed"}
MsJobType == [kind : MsKinds, at : MsPcs, name : MsNames \cup {MsNothing}, lun : Nat,
              got : Nat, of : Nat, known : BOOLEAN]
MsImage == [got : Nat, of : Nat, known : BOOLEAN]
MsStick == [got : Nat, of : Nat]

MsTypes ==
    /\ msJob \in [MsJobs -> MsJobType]
    /\ msTemp \in [MsJobs -> Nat \cup {MsNothing}]
    /\ msFile \in [MsNames -> MsImage \cup {MsNothing}]
    /\ msDrive \in MsStick \cup {MsNothing}
    /\ msSlot \in [MsLuns -> MsNames \cup MsJobs \cup {MsNothing}]
    /\ msEvent \in [MsJobs -> {"none", "started", "completed", "failed"}]
    /\ msAlarm \in BOOLEAN

\* One request: its file has what was read, unless somebody removed it, which
\* nobody can do with one for the drive; and what is over is not entered.
MsOne(j) ==
    /\ msJob[j].at = "body" => /\ msTemp[j] # MsNothing => msTemp[j] = msJob[j].got
                               /\ msJob[j].kind = "drive" => msTemp[j] # MsNothing
    /\ msJob[j].at \in {"asked", "head", "get"} => msJob[j].got = 0
    /\ msJob[j].at \in {"tell_done", "tell_failed"} => j \notin msDownloads
    /\ msEvent[j] \in {"completed", "failed"} => j \notin msDownloads

\* The slots that are used are those of the mode, and what is in them is there.
MsSlots ==
    \A l \in MsLuns : msSlot[l] # MsNothing =>
        /\ l < msCapacity
        /\ msSlot[l] \in MsNames => msFile[msSlot[l]] # MsNothing

MsInv == MsTypes /\ (\A j \in MsJobs : MsOne(j)) /\ MsSlots /\ ImagesAreWhole /\ SuccessClearsAlarm

\* A request that was not made yet.
LEMMA NoJobIs ==
    /\ NoJob \in MsJobType /\ NoJob.kind = "none" /\ NoJob.at = "none" /\ NoJob.name = MsNothing
    /\ NoJob.got = 0 /\ NoJob.of = 0 /\ NoJob.lun = 0
BY DEF NoJob, MsJobType, MsKinds, MsPcs

\* A request that has ended.
LEMMA EndedIs ==
    ASSUME NEW kind
    PROVE  Ended(kind) \in MsJobType /\ Ended(kind).at = "end"
<1>1. Ended("drive") \in MsJobType /\ Ended("drive").at = "end"
  BY DEF Ended, NoJob, MsJobType, MsKinds, MsPcs
<1>2. CASE kind = "drive"
  BY <1>1, <1>2
<1>3. CASE kind # "drive"
  BY <1>3 DEF Ended, NoJob, MsJobType, MsKinds, MsPcs
<1> QED
  BY <1>2, <1>3

\* A request goes from one point to another.
LEMMA MsGoes ==
    ASSUME MsTypes, NEW j \in MsJobs, NEW at \in MsPcs, JobGoes(j, at)
    PROVE  /\ msJob' \in [MsJobs -> MsJobType]
           /\ \A i \in MsJobs : i # j => msJob'[i] = msJob[i]
           /\ msJob'[j].at = at
           /\ at \notin {"end", "done", "failed", "mount"} =>
                 msJob'[j].got = msJob[j].got /\ msJob'[j].kind = msJob[j].kind
<1>1. msJob[j] \in MsJobType
  BY DEF MsTypes
<1> DEFINE past == [NoJob EXCEPT !.kind = msJob[j].kind, !.at = at,
                             !.name = msJob[j].name, !.lun = msJob[j].lun]
<1>2. CASE at = "end"
  <2>1. msJob' = [msJob EXCEPT ![j] = Ended(msJob[j].kind)]
    BY <1>2 DEF JobGoes
  <2> QED
    BY <2>1, <1>2, EndedIs DEF MsTypes
<1>3. CASE at \in {"done", "failed", "mount"}
  <2>1. msJob' = [msJob EXCEPT ![j] = past]
    BY <1>3 DEF JobGoes
  <2>2. past \in MsJobType
    BY <1>1, NoJobIs DEF MsJobType, NoJob
  <2>3. past.at = at
    BY DEF NoJob
  <2> HIDE DEF past
  <2> QED
    BY <2>1, <2>2, <2>3, <1>3 DEF MsTypes
<1>4. CASE at \notin {"end", "done", "failed", "mount"}
  <2>1. msJob' = [msJob EXCEPT ![j] = [msJob[j] EXCEPT !.at = at]]
    BY <1>4 DEF JobGoes
  <2>2. [msJob[j] EXCEPT !.at = at] \in MsJobType
    BY <1>1 DEF MsJobType
  <2>3. /\ [msJob[j] EXCEPT !.at = at].at = at
        /\ [msJob[j] EXCEPT !.at = at].got = msJob[j].got
        /\ [msJob[j] EXCEPT !.at = at].kind = msJob[j].kind
    BY <1>1 DEF MsJobType
  <2> QED
    BY <2>1, <2>2, <2>3, <1>4 DEF MsTypes
<1> QED
  BY <1>2, <1>3, <1>4

\* What follows a body.
LEMMA AfterBody ==
    ASSUME NEW j \in MsJobs, NEW ok \in BOOLEAN
    PROVE  After(j, ok) \in {"done", "failed", "mount", "end"}
BY DEF After

\* A file that changes what it is leaves the requests alone, and the other way round.
LEMMA MsRequest ==
    ASSUME MsInv, NEW j \in MsJobs,
           msJob' \in [MsJobs -> MsJobType], msTemp' \in [MsJobs -> Nat \cup {MsNothing}],
           msEvent' \in [MsJobs -> {"none", "started", "completed", "failed"}],
           \A i \in MsJobs : i # j =>
               /\ msJob'[i] = msJob[i] /\ msTemp'[i] = msTemp[i] /\ msEvent'[i] = msEvent[i]
               /\ i \in msDownloads' => i \in msDownloads,
           MsOne(j)',
           msFile' \in [MsNames -> MsImage \cup {MsNothing}],
           msDrive' \in MsStick \cup {MsNothing},
           ImagesAreWhole',
           \A n \in MsNames : msFile[n] # MsNothing => msFile'[n] # MsNothing,
           msJob[j].at # "mounted", UNCHANGED msMounts
    PROVE  MsInv'
<1>1. UNCHANGED <<msSlot, msCapacity, msAlarm, msLast>>
  BY DEF msMounts
<1>2. MsTypes'
  BY <1>1 DEF MsInv, MsTypes
<1>3. \A i \in MsJobs : MsOne(i)'
  <2>1. \A i \in MsJobs : i # j => MsOne(i)'
    BY DEF MsInv, MsOne
  <2> QED
    BY <2>1
<1>4. MsSlots'
  BY <1>1 DEF MsInv, MsSlots
<1>5. SuccessClearsAlarm'
  BY <1>1 DEF MsInv, SuccessClearsAlarm
<1> QED
  BY <1>2, <1>3, <1>4, <1>5 DEF MsInv

\* The same of a request that changes no image and tells nobody.
LEMMA MsAlone ==
    ASSUME MsInv, NEW j \in MsJobs,
           msJob' \in [MsJobs -> MsJobType], msTemp' \in [MsJobs -> Nat \cup {MsNothing}],
           \A i \in MsJobs : i # j => msJob'[i] = msJob[i] /\ msTemp'[i] = msTemp[i],
           msJob'[j].at = "body" => /\ msTemp'[j] # MsNothing => msTemp'[j] = msJob'[j].got
                                    /\ msJob'[j].kind = "drive" => msTemp'[j] # MsNothing,
           msJob'[j].at \in {"asked", "head", "get"} => msJob'[j].got = 0,
           msJob'[j].at \notin {"tell_done", "tell_failed"},
           msJob[j].at # "mounted",
           UNCHANGED <<msFile, msDrive, msMounts, msTasks>>
    PROVE  MsInv'
<1>1. UNCHANGED <<msDownloads, msEvent>>
  BY DEF msTasks
<1>2. MsOne(j)'
  BY <1>1 DEF MsInv, MsOne
<1>3. ImagesAreWhole'
  BY DEF MsInv, ImagesAreWhole
<1>4. /\ msEvent' \in [MsJobs -> {"none", "started", "completed", "failed"}]
      /\ msFile' \in [MsNames -> MsImage \cup {MsNothing}]
      /\ msDrive' \in MsStick \cup {MsNothing}
  BY <1>1 DEF MsInv, MsTypes
<1>5. \A i \in MsJobs : i # j =>
               /\ msJob'[i] = msJob[i] /\ msTemp'[i] = msTemp[i] /\ msEvent'[i] = msEvent[i]
               /\ i \in msDownloads' => i \in msDownloads
  BY <1>1
<1>6. UNCHANGED msMounts /\ \A n \in MsNames : msFile[n] # MsNothing => msFile'[n] # MsNothing
  OBVIOUS
<1> QED
  BY <1>2, <1>3, <1>4, <1>5, <1>6, MsRequest

\* Nothing was asked for yet.
LEMMA MsStarts == MsInit => MsInv
<1> SUFFICES ASSUME MsInit PROVE MsInv
  OBVIOUS
<1>1. MsTypes
  <2>1. msJob \in [MsJobs -> MsJobType]
    BY NoJobIs DEF MsInit
  <2>2. msAlarm \in BOOLEAN
    BY Zenon DEF MsInit
  <2> QED
    BY <2>1, <2>2 DEF MsInit, MsTypes
<1>2. \A j \in MsJobs : MsOne(j)
  BY NoJobIs DEF MsInit, MsOne
<1>3. MsSlots
  BY DEF MsInit, MsSlots
<1>4. ImagesAreWhole
  BY DEF MsInit, ImagesAreWhole
<1>5. SuccessClearsAlarm
  BY DEF MsInit, SuccessClearsAlarm
<1> QED
  BY <1>1, <1>2, <1>3, <1>4, <1>5 DEF MsInv

\* The upload of an image begins.
LEMMA MsUploads ==
    ASSUME MsAssumption, MsInv, NEW j \in MsJobs, NEW n \in MsNames, NEW s \in MsSizes, UploadBegins(j, n, s)
    PROVE  MsInv'
<1>0. /\ s \in Nat /\ msJob \in [MsJobs -> MsJobType]
      /\ msTemp \in [MsJobs -> Nat \cup {MsNothing}]
  BY DEF MsAssumption, MsInv, MsTypes
<1>n. NoJob = [kind |-> "none", at |-> "none", name |-> MsNothing, lun |-> 0,
               got |-> 0, of |-> 0, known |-> TRUE]
  BY DEF NoJob
<1> DEFINE t == IF NameTaken(n) THEN Ended("upload")
                ELSE [NoJob EXCEPT !.kind = "upload", !.name = n, !.of = s, !.at = "body"]
<1>1. msJob[j] = NoJob /\ msJob' = [msJob EXCEPT ![j] = t]
  BY DEF UploadBegins
<1>2. t \in MsJobType /\ (t.at = "end" \/ (t.at = "body" /\ t.got = 0 /\ t.kind = "upload" /\ ~NameTaken(n)))
  <2>1. CASE NameTaken(n)
    BY <2>1, EndedIs
  <2>2. CASE ~NameTaken(n)
    <3>1. t = [kind |-> "upload", at |-> "body", name |-> n, lun |-> 0, got |-> 0, of |-> s, known |-> TRUE]
      BY <2>2, <1>n
    <3> HIDE DEF t
    <3> QED
      BY <3>1, <1>0, <2>2 DEF MsJobType, MsKinds, MsPcs
  <2> QED
    BY <2>1, <2>2
<1> HIDE DEF t
<1>3. /\ msTemp' \in [MsJobs -> Nat \cup {MsNothing}]
      /\ \A i \in MsJobs : i # j => msTemp'[i] = msTemp[i]
      /\ ~NameTaken(n) => msTemp'[j] = 0
  BY <1>0 DEF UploadBegins, TempIs
<1>4. /\ msJob' \in [MsJobs -> MsJobType] /\ msJob'[j] = t
      /\ \A i \in MsJobs : i # j => msJob'[i] = msJob[i]
  BY <1>1, <1>2, <1>0
<1>5. UNCHANGED <<msFile, msDrive, msMounts, msTasks>>
  BY DEF UploadBegins
<1>6. msJob[j].at # "mounted"
  BY <1>1, <1>n
<1> QED
  BY <1>2, <1>3, <1>4, <1>5, <1>6, MsAlone

\* The upload of a file to the drive begins.
LEMMA MsFills ==
    ASSUME MsAssumption, MsInv, NEW j \in MsJobs, NEW s \in MsSizes, DriveUploadBegins(j, s)
    PROVE  MsInv'
<1>0. /\ s \in Nat /\ msJob \in [MsJobs -> MsJobType]
      /\ msTemp \in [MsJobs -> Nat \cup {MsNothing}]
  BY DEF MsAssumption, MsInv, MsTypes
<1>n. NoJob = [kind |-> "none", at |-> "none", name |-> MsNothing, lun |-> 0,
               got |-> 0, of |-> 0, known |-> TRUE]
  BY DEF NoJob
<1> DEFINE t == [NoJob EXCEPT !.kind = "drive", !.of = s, !.at = "body"]
<1>1. msJob[j] = NoJob /\ msJob' = [msJob EXCEPT ![j] = t]
  BY DEF DriveUploadBegins
<1>2. t \in MsJobType /\ t.at = "body" /\ t.got = 0
  <2>1. t \in MsJobType
    BY <1>n, <1>0 DEF MsJobType, MsKinds, MsPcs
  <2>2. t.at = "body"
    BY <1>n
  <2>3. t.got = 0
    BY <1>n
  <2> QED
    BY <2>1, <2>2, <2>3
<1> HIDE DEF t
<1>3. /\ msTemp' \in [MsJobs -> Nat \cup {MsNothing}]
      /\ \A i \in MsJobs : i # j => msTemp'[i] = msTemp[i]
      /\ msTemp'[j] = 0 /\ msTemp'[j] # MsNothing
  BY <1>0 DEF DriveUploadBegins, TempIs, MsAssumption
<1>4. /\ msJob' \in [MsJobs -> MsJobType] /\ msJob'[j] = t
      /\ \A i \in MsJobs : i # j => msJob'[i] = msJob[i]
  BY <1>1, <1>2, <1>0
<1>5. UNCHANGED <<msFile, msDrive, msMounts, msTasks>>
  BY DEF DriveUploadBegins
<1>6. msJob[j].at # "mounted"
  BY <1>1, <1>n
<1> QED
  BY <1>2, <1>3, <1>4, <1>5, <1>6, MsAlone

\* An insertion begins.
LEMMA MsInserts ==
    ASSUME MsAssumption, MsInv, NEW j \in MsJobs, NEW l \in MsLuns, NEW n \in MsNames, InsertBegins(j, l, n)
    PROVE  MsInv'
<1>0. /\ MsSizes \subseteq Nat /\ l \in Nat /\ msJob \in [MsJobs -> MsJobType]
      /\ msTemp \in [MsJobs -> Nat \cup {MsNothing}]
  BY DEF MsAssumption, MsInv, MsTypes
<1>n. NoJob = [kind |-> "none", at |-> "none", name |-> MsNothing, lun |-> 0,
               got |-> 0, of |-> 0, known |-> TRUE]
  BY DEF NoJob
<1> DEFINE a == [NoJob EXCEPT !.kind = "insert", !.lun = l, !.name = n]
<1>1. a \in MsJobType
  BY <1>n, <1>0 DEF MsJobType, MsKinds, MsPcs
<1>a. a.got = 0
  BY <1>n
<1>2. msJob[j] = NoJob /\ Resolve(j, a, n) /\ UNCHANGED msTemp
  BY DEF InsertBegins
<1> HIDE DEF a
<1>3. PICK t \in MsJobType : msJob' = [msJob EXCEPT ![j] = t] /\ t.at \in {"head", "mount"} /\ t.got = 0
  <2>1. CASE \E z \in MsSizes, known \in BOOLEAN :
               msJob' = [msJob EXCEPT ![j] = [a EXCEPT !.of = z, !.known = known, !.at = "head"]]
    <3>1. PICK z \in MsSizes, known \in BOOLEAN :
               msJob' = [msJob EXCEPT ![j] = [a EXCEPT !.of = z, !.known = known, !.at = "head"]]
      BY <2>1
    <3>2. [a EXCEPT !.of = z, !.known = known, !.at = "head"] \in MsJobType
      BY <1>1, <1>0 DEF MsJobType, MsPcs
    <3>3. [a EXCEPT !.of = z, !.known = known, !.at = "head"].at = "head"
      BY <1>1 DEF MsJobType
    <3>4. [a EXCEPT !.of = z, !.known = known, !.at = "head"].got = 0
      BY <1>1, <1>a DEF MsJobType
    <3> QED
      BY <3>1, <3>2, <3>3, <3>4
  <2>2. CASE msJob' = [msJob EXCEPT ![j] = [a EXCEPT !.at = "mount"]]
    <3>2. [a EXCEPT !.at = "mount"] \in MsJobType
      BY <1>1 DEF MsJobType, MsPcs
    <3>3. [a EXCEPT !.at = "mount"].at = "mount" /\ [a EXCEPT !.at = "mount"].got = 0
      BY <1>1, <1>a DEF MsJobType
    <3> QED
      BY <2>2, <3>2, <3>3
  <2> QED
    BY <1>2, <2>1, <2>2 DEF Resolve
<1>4. /\ msJob' \in [MsJobs -> MsJobType] /\ msJob'[j] = t
      /\ \A i \in MsJobs : i # j => msJob'[i] = msJob[i]
  BY <1>3, <1>0
<1>5. UNCHANGED <<msFile, msDrive, msMounts, msTasks>>
  BY DEF InsertBegins
<1>6. msJob[j].at # "mounted"
  BY <1>2, <1>n
<1>7. /\ msTemp' \in [MsJobs -> Nat \cup {MsNothing}]
      /\ \A i \in MsJobs : i # j => msTemp'[i] = msTemp[i]
  BY <1>2, <1>0
<1> QED
  BY <1>3, <1>4, <1>5, <1>6, <1>7, MsAlone

\* The next chunk of a body.
LEMMA MsReads ==
    ASSUME MsAssumption, MsInv, NEW j \in MsJobs, Chunk(j)
    PROVE  MsInv'
<1>0. /\ msJob \in [MsJobs -> MsJobType] /\ msJob[j] \in MsJobType
      /\ msTemp \in [MsJobs -> Nat \cup {MsNothing}] /\ MsNothing \notin Nat
  BY DEF MsAssumption, MsInv, MsTypes
<1> DEFINE got == msJob[j].got + 1
           large == msJob[j].kind = "upload" /\ got > MsLimit
           t == IF large THEN Ended("upload") ELSE [msJob[j] EXCEPT !.got = got]
<1>1. /\ msJob[j].at = "body"
      /\ msJob' = [msJob EXCEPT ![j] = t]
      /\ msTemp' = [msTemp EXCEPT ![j] = IF large \/ msTemp[j] = MsNothing THEN MsNothing ELSE got]
      /\ UNCHANGED <<msFile, msDrive, msMounts, msTasks>>
  BY DEF Chunk, TempIs
<1>2. got \in Nat
  BY <1>0 DEF MsJobType
<1>3. t \in MsJobType /\ (large => t.at = "end") /\ (~large => t.at = "body" /\ t.got = got /\ t.kind = msJob[j].kind)
  <2>1. CASE large
    BY <2>1, EndedIs
  <2>2. CASE ~large
    <3>1. [msJob[j] EXCEPT !.got = got] \in MsJobType
      BY <1>0, <1>2 DEF MsJobType
    <3>2. [msJob[j] EXCEPT !.got = got].got = got
      BY <1>0 DEF MsJobType
    <3>3. [msJob[j] EXCEPT !.got = got].at = msJob[j].at /\ [msJob[j] EXCEPT !.got = got].kind = msJob[j].kind
      BY <1>0 DEF MsJobType
    <3> QED
      BY <2>2, <3>1, <3>2, <3>3, <1>1
  <2> QED
    BY <2>1, <2>2
<1>4. msJob[j].kind = "drive" => msTemp[j] # MsNothing
  BY <1>1 DEF MsInv, MsOne
<1>5. msJob[j].kind = "drive" => ~large
  OBVIOUS
<1> HIDE DEF got, large, t
<1>6. /\ msJob' \in [MsJobs -> MsJobType] /\ msJob'[j] = t
      /\ \A i \in MsJobs : i # j => msJob'[i] = msJob[i] /\ msTemp'[i] = msTemp[i]
  BY <1>0, <1>1, <1>3
<1>7. /\ msTemp' \in [MsJobs -> Nat \cup {MsNothing}]
      /\ msTemp'[j] = IF large \/ msTemp[j] = MsNothing THEN MsNothing ELSE got
  BY <1>0, <1>1, <1>2
<1>8. t.at = "body" => /\ msTemp'[j] # MsNothing => msTemp'[j] = t.got
                       /\ t.kind = "drive" => msTemp'[j] # MsNothing
  BY <1>0, <1>2, <1>3, <1>4, <1>5, <1>7
<1> QED
  BY <1>1, <1>3, <1>6, <1>7, <1>8, MsAlone

\* A body that breaks off, or whose file cannot take its name.
LEMMA MsBreaks ==
    ASSUME MsInv, NEW j \in MsJobs, BodyBreaks(j) \/ CommitFails(j)
    PROVE  MsInv'
<1>1. PICK at \in {"done", "failed", "mount", "end"} : JobGoes(j, at)
  BY AfterBody DEF BodyBreaks, CommitFails
<1>2. at \in MsPcs
  BY DEF MsPcs
<1>3. /\ msJob' \in [MsJobs -> MsJobType] /\ msJob'[j].at = at
      /\ \A i \in MsJobs : i # j => msJob'[i] = msJob[i]
  BY <1>1, <1>2, MsGoes DEF MsInv
<1>4. /\ msTemp' \in [MsJobs -> Nat \cup {MsNothing}]
      /\ \A i \in MsJobs : i # j => msTemp'[i] = msTemp[i]
  BY DEF BodyBreaks, CommitFails, TempIs, MsInv, MsTypes
<1>5. UNCHANGED <<msFile, msDrive, msMounts, msTasks>> /\ msJob[j].at # "mounted"
  BY DEF BodyBreaks, CommitFails
<1> QED
  BY <1>1, <1>3, <1>4, <1>5, MsAlone

\* A body that ended.
LEMMA MsEnds ==
    ASSUME MsAssumption, MsInv, NEW j \in MsJobs, BodyDone(j)
    PROVE  MsInv'
<1>0. /\ msJob[j] \in MsJobType /\ msTemp[j] \in Nat \cup {MsNothing}
      /\ msFile \in [MsNames -> MsImage \cup {MsNothing}] /\ MsNothing \notin MsImage
  BY DEF MsInv, MsTypes, MsAssumption, MsImage
<1>1. PICK at \in {"done", "failed", "mount", "end"} : JobGoes(j, at)
  BY AfterBody DEF BodyDone
<1>2. at \in MsPcs
  BY DEF MsPcs
<1>3. /\ msJob' \in [MsJobs -> MsJobType] /\ msJob'[j].at = at
      /\ \A i \in MsJobs : i # j => msJob'[i] = msJob[i]
  BY <1>1, <1>2, MsGoes DEF MsInv
<1>4. /\ msTemp' \in [MsJobs -> Nat \cup {MsNothing}]
      /\ \A i \in MsJobs : i # j => msTemp'[i] = msTemp[i]
  BY DEF BodyDone, TempIs, MsInv, MsTypes
<1>5. UNCHANGED <<msDrive, msMounts, msTasks>> /\ msJob[j].at = "body"
  BY DEF BodyDone
<1> DEFINE r == [got |-> msTemp[j], of |-> msJob[j].of, known |-> msJob[j].known]
<1>6. \/ UNCHANGED msFile
      \/ msFile' = [msFile EXCEPT ![msJob[j].name] = r] /\ r \in MsImage /\ (r.known => r.got = r.of)
  <2>1. CASE ~Short(j) /\ msTemp[j] # MsNothing /\ msFile' = [msFile EXCEPT ![msJob[j].name] = r]
    <3>1. msTemp[j] \in Nat /\ msTemp[j] = msJob[j].got
      BY <2>1, <1>0, <1>5 DEF MsInv, MsOne
    <3>2. r \in MsImage
      BY <3>1, <1>0 DEF MsImage, MsJobType
    <3>3. msJob[j].known => msTemp[j] = msJob[j].of
      BY <2>1, <3>1 DEF BodyDone, Short
    <3> QED
      BY <2>1, <3>2, <3>3
  <2> QED
    BY <2>1 DEF BodyDone
<1> HIDE DEF r
<1>7. /\ msFile' \in [MsNames -> MsImage \cup {MsNothing}]
      /\ \A n \in MsNames : msFile'[n] = msFile[n] \/ (msFile'[n] = r /\ r \in MsImage /\ (r.known => r.got = r.of))
  BY <1>0, <1>6
<1>8. ImagesAreWhole'
  BY <1>5, <1>7 DEF MsInv, ImagesAreWhole
<1>9. \A n \in MsNames : msFile[n] # MsNothing => msFile'[n] # MsNothing
  BY <1>0, <1>7
<1>10. UNCHANGED <<msDownloads, msEvent>>
  BY <1>5 DEF msTasks
<1>11. MsOne(j)'
  BY <1>1, <1>3, <1>10 DEF MsInv, MsOne
<1>12. /\ msEvent' \in [MsJobs -> {"none", "started", "completed", "failed"}]
       /\ msDrive' \in MsStick \cup {MsNothing}
  BY <1>5, <1>10 DEF MsInv, MsTypes
<1>13. \A i \in MsJobs : i # j =>
               /\ msJob'[i] = msJob[i] /\ msTemp'[i] = msTemp[i] /\ msEvent'[i] = msEvent[i]
               /\ i \in msDownloads' => i \in msDownloads
  BY <1>3, <1>4, <1>10
<1>14. msJob[j].at # "mounted" /\ UNCHANGED msMounts
  BY <1>5
<1> QED
  BY <1>3, <1>4, <1>7, <1>8, <1>9, <1>11, <1>12, <1>13, <1>14, MsRequest

\* A file is put on the drive.
LEMMA MsCopies ==
    ASSUME MsAssumption, MsInv, NEW j \in MsJobs, DriveUploadEnds(j)
    PROVE  MsInv'
<1>0. msJob[j] \in MsJobType /\ msTemp[j] \in Nat \cup {MsNothing} /\ "end" \in MsPcs
  BY DEF MsInv, MsTypes, MsPcs
<1>1. JobGoes(j, "end") /\ msJob[j].at = "body" /\ msJob[j].kind = "drive" /\ msJob[j].got = msJob[j].of
  BY DEF DriveUploadEnds
<1>3. /\ msJob' \in [MsJobs -> MsJobType] /\ msJob'[j].at = "end"
      /\ \A i \in MsJobs : i # j => msJob'[i] = msJob[i]
  BY <1>0, <1>1, MsGoes DEF MsInv
<1>4. /\ msTemp' \in [MsJobs -> Nat \cup {MsNothing}]
      /\ \A i \in MsJobs : i # j => msTemp'[i] = msTemp[i]
  BY DEF DriveUploadEnds, TempIs, MsInv, MsTypes
<1>5. UNCHANGED <<msFile, msMounts, msTasks>>
  BY DEF DriveUploadEnds
<1>6. msTemp[j] \in Nat /\ msTemp[j] = msJob[j].of
  BY <1>0, <1>1 DEF MsInv, MsOne
<1>7. msDrive' \in MsStick \cup {MsNothing} /\ (msDrive' # MsNothing => msDrive'.got = msDrive'.of)
  <2>1. CASE msDrive' = msDrive
    BY <2>1 DEF MsInv, MsTypes, ImagesAreWhole
  <2>2. CASE msDrive' = [got |-> msTemp[j], of |-> msJob[j].of]
    BY <2>2, <1>6 DEF MsStick
  <2> QED
    BY <2>1, <2>2 DEF DriveUploadEnds
<1>8. ImagesAreWhole'
  BY <1>5, <1>7 DEF MsInv, ImagesAreWhole
<1>10. UNCHANGED <<msDownloads, msEvent>>
  BY <1>5 DEF msTasks
<1>11. MsOne(j)'
  BY <1>3, <1>10 DEF MsInv, MsOne
<1>12. /\ msEvent' \in [MsJobs -> {"none", "started", "completed", "failed"}]
       /\ msFile' \in [MsNames -> MsImage \cup {MsNothing}]
       /\ \A n \in MsNames : msFile[n] # MsNothing => msFile'[n] # MsNothing
  BY <1>5, <1>10 DEF MsInv, MsTypes
<1>13. \A i \in MsJobs : i # j =>
               /\ msJob'[i] = msJob[i] /\ msTemp'[i] = msTemp[i] /\ msEvent'[i] = msEvent[i]
               /\ i \in msDownloads' => i \in msDownloads
  BY <1>3, <1>4, <1>10
<1>14. msJob[j].at # "mounted" /\ UNCHANGED msMounts
  BY <1>1, <1>5
<1> QED
  BY <1>3, <1>4, <1>7, <1>8, <1>11, <1>12, <1>13, <1>14, MsRequest


\* A download that is asked for.
LEMMA MsAsks ==
    ASSUME MsAssumption, MsInv, NEW j \in MsJobs, NEW n \in MsNames, NEW s \in MsSizes, NEW known \in BOOLEAN,
           DownloadAsked(j, n, s, known)
    PROVE  MsInv'
<1>0. /\ s \in Nat /\ msJob \in [MsJobs -> MsJobType]
      /\ msEvent \in [MsJobs -> {"none", "started", "completed", "failed"}]
      /\ msTemp \in [MsJobs -> Nat \cup {MsNothing}]
  BY DEF MsAssumption, MsInv, MsTypes
<1>n. NoJob = [kind |-> "none", at |-> "none", name |-> MsNothing, lun |-> 0,
               got |-> 0, of |-> 0, known |-> TRUE]
  BY DEF NoJob
<1> DEFINE t == [NoJob EXCEPT !.kind = "download", !.name = n, !.of = s, !.known = known, !.at = "asked"]
<1>1. msJob[j] = NoJob /\ msJob' = [msJob EXCEPT ![j] = t]
  BY DEF DownloadAsked
<1>2. t \in MsJobType
  BY <1>n, <1>0 DEF MsJobType, MsKinds, MsPcs
<1>3. t.at = "asked"
  BY <1>n
<1>4. t.got = 0
  BY <1>n
<1> HIDE DEF t
<1>5. /\ msJob' \in [MsJobs -> MsJobType] /\ msJob'[j] = t
      /\ \A i \in MsJobs : i # j => msJob'[i] = msJob[i]
  BY <1>0, <1>1, <1>2
<1>6. /\ msEvent' = [msEvent EXCEPT ![j] = "started"] /\ msDownloads' = msDownloads \cup {j}
      /\ UNCHANGED <<msTemp, msFile, msDrive, msMounts>>
  BY DEF DownloadAsked
<1>7. /\ msEvent' \in [MsJobs -> {"none", "started", "completed", "failed"}]
      /\ msEvent'[j] = "started"
      /\ \A i \in MsJobs : i # j => msEvent'[i] = msEvent[i]
  BY <1>0, <1>6
<1>8. MsOne(j)'
  BY <1>3, <1>4, <1>5, <1>7 DEF MsOne
<1>9. \A i \in MsJobs : i # j =>
               /\ msJob'[i] = msJob[i] /\ msTemp'[i] = msTemp[i] /\ msEvent'[i] = msEvent[i]
               /\ i \in msDownloads' => i \in msDownloads
  BY <1>5, <1>6, <1>7
<1>10. ImagesAreWhole'
  BY <1>6 DEF MsInv, ImagesAreWhole
<1>11. /\ msTemp' \in [MsJobs -> Nat \cup {MsNothing}]
       /\ msFile' \in [MsNames -> MsImage \cup {MsNothing}]
       /\ msDrive' \in MsStick \cup {MsNothing}
       /\ \A n1 \in MsNames : msFile[n1] # MsNothing => msFile'[n1] # MsNothing
  BY <1>6 DEF MsInv, MsTypes
<1>12. msJob[j].at # "mounted"
  BY <1>1, <1>n
<1> QED
  BY <1>5, <1>6, <1>7, <1>8, <1>9, <1>10, <1>11, <1>12, MsRequest

\* A download or insertion goes on.
LEMMA MsFetches ==
    ASSUME MsAssumption, MsInv, NEW j \in MsJobs,
           \/ TaskStarts(j) \/ HeadReply(j) \/ Get(j)
           \/ ClientLeaves(j) /\ msJob[j].at # "mounted"
    PROVE  MsInv'
<1>0. /\ msTemp \in [MsJobs -> Nat \cup {MsNothing}] /\ MsNothing \notin Nat
      /\ msJob[j].at \in {"asked", "head", "get"} => msJob[j].got = 0
      /\ {"done", "failed", "mount", "end", "head", "get", "body"} \subseteq MsPcs
  BY DEF MsInv, MsTypes, MsAssumption, MsOne, MsPcs
<1>1. PICK at \in {"done", "failed", "mount", "end", "head", "get", "body"} :
         /\ JobGoes(j, at)
         /\ at \in {"head", "get", "body"} => msJob[j].at \in {"asked", "head", "get"}
         /\ at = "body" => msTemp' = [msTemp EXCEPT ![j] = 0]
         /\ at # "body" => UNCHANGED msTemp
  <2>1. CASE TaskStarts(j)
    BY <2>1 DEF TaskStarts
  <2>2. CASE HeadReply(j)
    <3>1. \/ JobGoes(j, After(j, FALSE)) \/ JobGoes(j, "get")
      BY <2>2 DEF HeadReply
    <3> QED
      BY <2>2, <3>1, AfterBody DEF HeadReply
  <2>3. CASE Get(j)
    <3>1. CASE JobGoes(j, "body") /\ TempIs(j, 0)
      BY <2>3, <3>1 DEF Get, TempIs
    <3>2. CASE JobGoes(j, After(j, FALSE)) /\ UNCHANGED msTemp
      BY <2>3, <3>2, AfterBody
    <3> QED
      BY <2>3, <3>1, <3>2 DEF Get
  <2>4. CASE ClientLeaves(j)
    BY <2>4 DEF ClientLeaves
  <2> QED
    BY <2>1, <2>2, <2>3, <2>4
<1>2. at \in MsPcs
  BY <1>0
<1>3. /\ msJob' \in [MsJobs -> MsJobType] /\ msJob'[j].at = at
      /\ \A i \in MsJobs : i # j => msJob'[i] = msJob[i]
      /\ at \in {"head", "get", "body"} => msJob'[j].got = msJob[j].got
  BY <1>1, <1>2, MsGoes DEF MsInv
<1>4. /\ msTemp' \in [MsJobs -> Nat \cup {MsNothing}]
      /\ \A i \in MsJobs : i # j => msTemp'[i] = msTemp[i]
      /\ at = "body" => msTemp'[j] = 0
  BY <1>0, <1>1
<1>5. msJob'[j].at = "body" => /\ msTemp'[j] # MsNothing => msTemp'[j] = msJob'[j].got
                               /\ msJob'[j].kind = "drive" => msTemp'[j] # MsNothing
  <2>1. SUFFICES ASSUME at = "body" PROVE msTemp'[j] = 0 /\ msJob'[j].got = 0
    BY <1>0, <1>3
  <2> QED
    BY <2>1, <1>0, <1>1, <1>3, <1>4
<1>6. msJob'[j].at \in {"asked", "head", "get"} => msJob'[j].got = 0
  BY <1>0, <1>1, <1>3
<1>7. msJob'[j].at \notin {"tell_done", "tell_failed"}
  BY <1>1, <1>3
<1>8. UNCHANGED <<msFile, msDrive, msMounts, msTasks>> /\ msJob[j].at # "mounted"
  BY DEF TaskStarts, HeadReply, Get, ClientLeaves, msMounts
<1> QED
  BY <1>3, <1>4, <1>5, <1>6, <1>7, <1>8, MsAlone

\* A download is over, and that is told.
LEMMA MsTells ==
    ASSUME MsInv, NEW j \in MsJobs, Forget(j) \/ Tell(j)
    PROVE  MsInv'
<1>0. /\ {"tell_done", "tell_failed", "end"} \subseteq MsPcs
      /\ msEvent \in [MsJobs -> {"none", "started", "completed", "failed"}]
  BY DEF MsPcs, MsInv, MsTypes
<1>1. PICK at \in {"tell_done", "tell_failed", "end"} : JobGoes(j, at)
  BY DEF Forget, Tell
<1>2. at \in MsPcs
  BY <1>0
<1>3. /\ msJob' \in [MsJobs -> MsJobType] /\ msJob'[j].at = at
      /\ \A i \in MsJobs : i # j => msJob'[i] = msJob[i]
  BY <1>1, <1>2, MsGoes DEF MsInv
<1>4. j \notin msDownloads'
  BY DEF Forget, Tell, MsInv, MsOne
<1>5. MsOne(j)'
  BY <1>1, <1>3, <1>4 DEF MsOne
<1>6. UNCHANGED <<msTemp, msFile, msDrive, msMounts>> /\ msJob[j].at # "mounted"
  BY DEF Forget, Tell
<1>7. /\ msEvent' \in [MsJobs -> {"none", "started", "completed", "failed"}]
      /\ \A i \in MsJobs : i # j => msEvent'[i] = msEvent[i] /\ (i \in msDownloads' => i \in msDownloads)
  <2>1. CASE Forget(j)
    BY <2>1, <1>0 DEF Forget
  <2>2. CASE Tell(j)
    <3>1. PICK e \in {"completed", "failed"} : msEvent' = [msEvent EXCEPT ![j] = e] /\ UNCHANGED msDownloads
      BY <2>2 DEF Tell
    <3> QED
      BY <3>1, <1>0
  <2> QED
    BY <2>1, <2>2
<1>8. ImagesAreWhole'
  BY <1>6 DEF MsInv, ImagesAreWhole
<1>9. /\ msTemp' \in [MsJobs -> Nat \cup {MsNothing}]
      /\ msFile' \in [MsNames -> MsImage \cup {MsNothing}]
      /\ msDrive' \in MsStick \cup {MsNothing}
      /\ \A n \in MsNames : msFile[n] # MsNothing => msFile'[n] # MsNothing
  BY <1>6 DEF MsInv, MsTypes
<1>10. \A i \in MsJobs : i # j =>
               /\ msJob'[i] = msJob[i] /\ msTemp'[i] = msTemp[i] /\ msEvent'[i] = msEvent[i]
               /\ i \in msDownloads' => i \in msDownloads
  BY <1>3, <1>6, <1>7
<1> QED
  BY <1>3, <1>5, <1>6, <1>7, <1>8, <1>9, <1>10, MsRequest

\* What somebody does about the slots, an image or a download.
LEMMA MsOthers ==
    ASSUME MsAssumption, MsInv, UNCHANGED msJob,
           \/ \E j \in MsJobs : CancelDownload(j)
           \/ \E n \in MsNames \cup MsJobs : WebMount(n) \/ WebMountCut(n) \/ Delete(n)
           \/ \E l \in MsLuns : Unmount(l) \/ Eject(l)
           \/ SwitchMode
    PROVE  MsInv'
<1>0. /\ msSlot \in [MsLuns -> MsNames \cup MsJobs \cup {MsNothing}]
      /\ msTemp \in [MsJobs -> Nat \cup {MsNothing}]
      /\ msFile \in [MsNames -> MsImage \cup {MsNothing}]
      /\ MsNothing \notin MsNames \cup MsJobs /\ MsNames \cap MsJobs = {}
  BY DEF MsInv, MsTypes, MsAssumption
<1>1. ASSUME NEW j \in MsJobs, CancelDownload(j) PROVE MsInv'
  <2>1. /\ UNCHANGED <<msTemp, msFile, msDrive, msMounts, msEvent, msJob>>
        /\ UNCHANGED <<msSlot, msCapacity, msAlarm, msLast>>
        /\ msDownloads' \subseteq msDownloads
    BY <1>1 DEF CancelDownload, msMounts
  <2>2. MsTypes'
    BY <2>1 DEF MsInv, MsTypes
  <2>3. \A i \in MsJobs : MsOne(i)'
    BY <2>1 DEF MsInv, MsOne
  <2>4. MsSlots' /\ ImagesAreWhole' /\ SuccessClearsAlarm'
    BY <2>1 DEF MsInv, MsSlots, ImagesAreWhole, SuccessClearsAlarm
  <2> QED
    BY <2>2, <2>3, <2>4 DEF MsInv
<1>2. ASSUME NEW n \in MsNames \cup MsJobs, Delete(n) PROVE MsInv'
  <2>1. /\ n \in Listed /\ n \notin Mounted
        /\ msFile' = [m \in MsNames |-> IF m = n THEN MsNothing ELSE msFile[m]]
        /\ msTemp' = [j \in MsJobs |-> IF j = n THEN MsNothing ELSE msTemp[j]]
        /\ UNCHANGED <<msJob, msDrive>> /\ UNCHANGED <<msSlot, msCapacity, msAlarm, msLast>>
        /\ UNCHANGED <<msDownloads, msEvent>>
    BY <1>2 DEF Delete, msMounts, msTasks
  <2>2. MsTypes'
    BY <2>1 DEF MsInv, MsTypes
  <2>3. ASSUME NEW i \in MsJobs PROVE MsOne(i)'
    <3>1. i = n => msJob[i].kind # "drive"
      BY <2>1, <1>0 DEF Listed
    <3>2. msTemp'[i] = IF i = n THEN MsNothing ELSE msTemp[i]
      BY <2>1
    <3>3. MsOne(i)
      BY DEF MsInv
    <3> QED
      BY <2>1, <3>1, <3>2, <3>3 DEF MsOne
  <2>4. MsSlots'
    <3> SUFFICES ASSUME NEW l \in MsLuns, msSlot[l] # MsNothing
                 PROVE  l < msCapacity /\ (msSlot[l] \in MsNames => msFile'[msSlot[l]] # MsNothing)
      BY <2>1 DEF MsSlots
    <3>1. msSlot[l] # n
      BY <2>1 DEF Mounted
    <3> QED
      BY <2>1, <3>1 DEF MsInv, MsSlots
  <2>5. ImagesAreWhole' /\ SuccessClearsAlarm'
    BY <2>1 DEF MsInv, ImagesAreWhole, SuccessClearsAlarm
  <2> QED
    BY <2>2, <2>3, <2>4, <2>5 DEF MsInv
<1>3. ASSUME UNCHANGED <<msTemp, msFile, msDrive, msTasks>>,
             msSlot' \in [MsLuns -> MsNames \cup MsJobs \cup {MsNothing}], MsSlots',
             msAlarm' \in BOOLEAN,
             \/ msAlarm' = FALSE \/ msLast' = "cut" \/ UNCHANGED <<msAlarm, msLast>>
      PROVE  MsInv'
  <2>1. UNCHANGED <<msDownloads, msEvent>>
    BY <1>3 DEF msTasks
  <2>2. MsTypes'
    BY <1>3, <2>1 DEF MsInv, MsTypes
  <2>3. \A i \in MsJobs : MsOne(i)'
    BY <1>3, <2>1 DEF MsInv, MsOne
  <2>4. ImagesAreWhole' /\ SuccessClearsAlarm'
    BY <1>3 DEF MsInv, ImagesAreWhole, SuccessClearsAlarm
  <2> QED
    BY <1>3, <2>2, <2>3, <2>4 DEF MsInv
<1>4. ASSUME NEW n \in MsNames \cup MsJobs, WebMount(n) \/ WebMountCut(n) PROVE MsInv'
  <2>1. PICK l \in FreeSlots : MountAt(n, l) /\ msSlot' = [msSlot EXCEPT ![l] = n]
    BY <1>4 DEF WebMount, WebMountCut, Puts
  <2>2. l \in MsLuns /\ l < msCapacity /\ (n \in MsNames => msFile[n] # MsNothing)
    BY <2>1, <1>0 DEF FreeSlots, MountAt, Listed
  <2>3. msSlot' \in [MsLuns -> MsNames \cup MsJobs \cup {MsNothing}]
    BY <2>1, <1>0
  <2>4. UNCHANGED <<msTemp, msFile, msDrive, msTasks, msCapacity>>
    BY <1>4 DEF WebMount, WebMountCut, Puts
  <2>5. MsSlots'
    BY <2>1, <2>2, <2>4, <1>0 DEF MsInv, MsSlots
  <2>6. msAlarm' \in BOOLEAN /\ (msAlarm' = FALSE \/ msLast' = "cut")
    BY <1>4 DEF WebMount, WebMountCut, MsInv, MsTypes
  <2> QED
    BY <2>3, <2>4, <2>5, <2>6, <1>3
<1>5. ASSUME NEW l \in MsLuns, Unmount(l) \/ Eject(l) PROVE MsInv'
  <2>1. /\ msSlot' = [msSlot EXCEPT ![l] = MsNothing]
        /\ UNCHANGED <<msTemp, msFile, msDrive, msTasks, msCapacity, msAlarm, msLast>>
    BY <1>5 DEF Unmount, Eject
  <2>2. msSlot' \in [MsLuns -> MsNames \cup MsJobs \cup {MsNothing}]
    BY <2>1, <1>0
  <2>3. MsSlots'
    BY <2>1, <1>0 DEF MsInv, MsSlots
  <2>4. msAlarm' \in BOOLEAN
    BY <2>1 DEF MsInv, MsTypes
  <2> QED
    BY <2>1, <2>2, <2>3, <2>4, <1>3
<1>6. ASSUME SwitchMode PROVE MsInv'
  <2>1. /\ msSlot' = [l \in MsLuns |-> MsNothing]
        /\ UNCHANGED <<msTemp, msFile, msDrive, msTasks, msAlarm, msLast>>
    BY <1>6 DEF SwitchMode
  <2>2. msSlot' \in [MsLuns -> MsNames \cup MsJobs \cup {MsNothing}]
    BY <2>1
  <2>3. MsSlots'
    BY <2>1 DEF MsSlots
  <2>4. msAlarm' \in BOOLEAN
    BY <2>1 DEF MsInv, MsTypes
  <2> QED
    BY <2>1, <2>2, <2>3, <2>4, <1>3
<1> QED
  BY <1>1, <1>2, <1>4, <1>5, <1>6

\* An insertion mounts its image, or is refused, and is told so, unless its client
\* has left.
LEMMA MsMounts ==
    ASSUME MsAssumption, MsInv, NEW j \in MsJobs,
           \/ InsertMounts(j) \/ Connected(j)
           \/ ClientLeaves(j) /\ msJob[j].at = "mounted"
    PROVE  MsInv'
<1>0. /\ msSlot \in [MsLuns -> MsNames \cup MsJobs \cup {MsNothing}]
      /\ msAlarm \in BOOLEAN
      /\ MsNothing \notin MsNames \cup MsJobs /\ MsNames \cap MsJobs = {}
      /\ {"mounted", "end"} \subseteq MsPcs
  BY DEF MsInv, MsTypes, MsAssumption, MsPcs
<1>1. PICK at \in {"mounted", "end"} : JobGoes(j, at) /\ (at = "mounted" => msAlarm' = msAlarm /\ msLast' = "ok")
  BY DEF InsertMounts, Connected, ClientLeaves
<1>2. /\ msJob' \in [MsJobs -> MsJobType] /\ msJob'[j].at = at
      /\ \A i \in MsJobs : i # j => msJob'[i] = msJob[i]
  BY <1>0, <1>1, MsGoes DEF MsInv
<1>3. UNCHANGED <<msTemp, msFile, msDrive, msTasks, msCapacity>> /\ UNCHANGED <<msDownloads, msEvent>>
  BY DEF InsertMounts, Connected, ClientLeaves, msTasks
<1>4. \A i \in MsJobs : MsOne(i)'
  <2>1. MsOne(j)'
    BY <1>1, <1>2, <1>3 DEF MsInv, MsOne
  <2>2. \A i \in MsJobs : i # j => MsOne(i)'
    BY <1>2, <1>3 DEF MsInv, MsOne
  <2> QED
    BY <2>1, <2>2
<1>5. ImagesAreWhole'
  BY <1>3 DEF MsInv, ImagesAreWhole
<1>6. /\ msSlot' \in [MsLuns -> MsNames \cup MsJobs \cup {MsNothing}]
      /\ MsSlots'
  <2>1. CASE UNCHANGED msSlot
    BY <2>1, <1>0, <1>3 DEF MsInv, MsSlots
  <2>2. CASE /\ MountAt(msJob[j].name, msJob[j].lun)
             /\ msSlot' = [msSlot EXCEPT ![msJob[j].lun] = msJob[j].name]
    <3> DEFINE n == msJob[j].name
               l == msJob[j].lun
    <3>1. /\ l \in MsLuns /\ l < msCapacity /\ n \in MsNames \cup MsJobs
          /\ n \in MsNames => msFile[n] # MsNothing
      BY <2>2, <1>0 DEF FreeSlots, MountAt, Listed
    <3>2. msSlot' = [msSlot EXCEPT ![l] = n]
      BY <2>2
    <3> HIDE DEF n, l
    <3>3. msSlot' \in [MsLuns -> MsNames \cup MsJobs \cup {MsNothing}]
      BY <3>1, <3>2, <1>0
    <3>4. MsSlots'
      BY <3>1, <3>2, <1>0, <1>3 DEF MsInv, MsSlots
    <3> QED
      BY <3>3, <3>4
  <2> QED
    BY <2>1, <2>2 DEF InsertMounts, Connected, ClientLeaves
<1>7. msAlarm' \in BOOLEAN
  <2>1. msAlarm' \in {TRUE, FALSE, msAlarm, Alarmed(msJob[j].name)}
    BY DEF InsertMounts, Connected, ClientLeaves
  <2>2. Alarmed(msJob[j].name) \in BOOLEAN
    BY <1>0, Zenon DEF Alarmed
  <2> QED
    BY <2>1, <2>2, <1>0
<1>8. SuccessClearsAlarm'
  <2>1. CASE at = "mounted"
    BY <2>1, <1>2 DEF SuccessClearsAlarm
  <2>2. CASE at = "end" /\ Connected(j)
    BY <2>2 DEF Connected, SuccessClearsAlarm
  <2>3. CASE at = "end" /\ InsertMounts(j) /\ msLast' = "failed"
    BY <2>3 DEF SuccessClearsAlarm
  <2>4. CASE at = "end" /\ InsertMounts(j) /\ msLast' # "failed"
    <3>1. msJob[j].at = "mount"
      BY <2>4 DEF InsertMounts
    <3>2. (\A i \in MsJobs : msJob'[i].at # "mounted") => \A i \in MsJobs : msJob[i].at # "mounted"
      BY <3>1, <1>2
    <3>3. \/ msLast' = "ok" /\ UNCHANGED msAlarm /\ JobGoes(j, "mounted")
          \/ msJob[j].name \in Listed /\ msAlarm' = Alarmed(msJob[j].name) /\ UNCHANGED msLast
      BY <2>4 DEF InsertMounts
    <3>4. ~JobGoes(j, "mounted")
      <4>1. JobGoes(j, "mounted") => msJob'[j].at = "mounted"
        BY <1>0, MsGoes DEF MsInv
      <4> QED
        BY <4>1, <2>4, <1>2
    <3>5. UNCHANGED msLast /\ (msAlarm' <=> msAlarm)
      BY <3>3, <3>4 DEF Alarmed
    <3> QED
      BY <3>2, <3>5 DEF MsInv, SuccessClearsAlarm
  <2>5. CASE ClientLeaves(j) /\ msJob[j].at = "mounted"
    BY <2>5 DEF ClientLeaves, SuccessClearsAlarm
  <2> QED
    BY <1>1, <2>1, <2>2, <2>3, <2>4, <2>5
<1>9. MsTypes'
  BY <1>2, <1>3, <1>6, <1>7 DEF MsInv, MsTypes
<1> QED
  BY <1>4, <1>5, <1>6, <1>8, <1>9 DEF MsInv

\* Every step keeps the invariant.
LEMMA MsSteps == MsAssumption /\ MsInv /\ [MsNext]_msVars => MsInv'
<1> SUFFICES ASSUME MsAssumption, MsInv, [MsNext]_msVars PROVE MsInv'
  OBVIOUS
<1>1. CASE UNCHANGED msVars
  BY <1>1 DEF MsInv, msVars, MsTypes, MsOne, MsSlots, ImagesAreWhole, SuccessClearsAlarm
<1>2. CASE MsNext
  <2>1. CASE \E j \in MsJobs :
               \/ \E n \in MsNames, s \in MsSizes :
                    UploadBegins(j, n, s) \/ \E known \in BOOLEAN : DownloadAsked(j, n, s, known)
               \/ \E l \in MsLuns, n \in MsNames : InsertBegins(j, l, n)
               \/ \E s \in MsSizes : DriveUploadBegins(j, s)
    <3>1. ASSUME NEW j \in MsJobs, NEW n \in MsNames, NEW s \in MsSizes, UploadBegins(j, n, s) PROVE MsInv'
      BY <3>1, MsUploads
    <3>2. ASSUME NEW j \in MsJobs, NEW l \in MsLuns, NEW n \in MsNames, InsertBegins(j, l, n) PROVE MsInv'
      BY <3>2, MsInserts
    <3>3. ASSUME NEW j \in MsJobs, NEW s \in MsSizes, DriveUploadBegins(j, s) PROVE MsInv'
      BY <3>3, MsFills
    <3> QED
      BY <2>1, <3>1, <3>2, <3>3, MsAsks
  <2>2. CASE \E j \in MsJobs : Chunk(j) \/ BodyBreaks(j) \/ BodyDone(j) \/ CommitFails(j) \/ DriveUploadEnds(j)
    BY <2>2, MsReads, MsBreaks, MsEnds, MsCopies
  <2>3. CASE \E j \in MsJobs : TaskStarts(j) \/ HeadReply(j) \/ Get(j) \/ Forget(j) \/ Tell(j)
    BY <2>3, MsFetches, MsTells
  <2>4. CASE \E j \in MsJobs : InsertMounts(j) \/ Connected(j) \/ ClientLeaves(j)
    BY <2>4, MsMounts, MsFetches
  <2>5. CASE \/ \E j \in MsJobs : CancelDownload(j)
             \/ \E n \in MsNames \cup MsJobs : WebMount(n) \/ WebMountCut(n) \/ Delete(n)
             \/ \E l \in MsLuns : Unmount(l) \/ Eject(l)
             \/ SwitchMode
    <3>1. UNCHANGED msJob
      BY <2>5 DEF CancelDownload, WebMount, WebMountCut, Puts, Delete, Unmount, Eject, SwitchMode
    <3> QED
      BY <2>5, <3>1, MsOthers
  <2> QED
    BY <1>2, <2>1, <2>2, <2>3, <2>4, <2>5 DEF MsNext
<1> QED
  BY <1>1, <1>2

\* The invariant gives what is promised of every state.
LEMMA MsPromised ==
    MsAssumption /\ MsInv => ImagesAreWhole /\ MountedKeepsFile /\ EndedIsForgotten /\ SuccessClearsAlarm
<1> SUFFICES ASSUME MsAssumption, MsInv PROVE MountedKeepsFile /\ EndedIsForgotten
  BY DEF MsInv
<1>1. MountedKeepsFile
  BY DEF MsInv, MsSlots, MountedKeepsFile, Mounted, MsAssumption
<1>2. EndedIsForgotten
  BY DEF MsInv, MsOne, EndedIsForgotten
<1> QED
  BY <1>1, <1>2

\* No step ousts a medium, nor fills a slot that the mode does not have.
LEMMA MsKeepsSlots ==
    ASSUME MsInv, MsInv', [MsNext]_msVars
    PROVE  \A l \in MsLuns :
             /\ msSlot[l] # MsNothing => msSlot'[l] \in {msSlot[l], MsNothing}
             /\ msSlot'[l] # MsNothing => l < msCapacity'
<1>1. \A l \in MsLuns : msSlot'[l] # MsNothing => l < msCapacity'
  BY DEF MsInv, MsSlots
<1>2. msSlot \in [MsLuns -> MsNames \cup MsJobs \cup {MsNothing}]
  BY DEF MsInv, MsTypes
<1>3. \/ UNCHANGED msSlot
      \/ \E k \in FreeSlots, n \in MsNames \cup MsJobs \cup {MsNothing} : msSlot' = [msSlot EXCEPT ![k] = n]
      \/ \E k \in MsLuns : msSlot' = [msSlot EXCEPT ![k] = MsNothing]
      \/ msSlot' = [l \in MsLuns |-> MsNothing]
  <2>1. CASE \E j \in MsJobs : InsertMounts(j)
    <3>1. PICK j \in MsJobs : InsertMounts(j)
      BY <2>1
    <3>2. CASE MountAt(msJob[j].name, msJob[j].lun) /\ msSlot' = [msSlot EXCEPT ![msJob[j].lun] = msJob[j].name]
      BY <3>2 DEF MountAt, Listed
    <3> QED
      BY <3>1, <3>2 DEF InsertMounts
  <2>2. CASE \E n \in MsNames \cup MsJobs : WebMount(n) \/ WebMountCut(n)
    BY <2>2 DEF WebMount, WebMountCut, Puts
  <2>3. CASE (\E l \in MsLuns : Unmount(l) \/ Eject(l)) \/ SwitchMode
    BY <2>3 DEF Unmount, Eject, SwitchMode
  <2>4. CASE (\E n \in MsNames \cup MsJobs : Delete(n)) \/ UNCHANGED msVars
    BY <2>4 DEF Delete, msMounts, msVars
  <2>5. CASE \E j \in MsJobs :
         \/ \E n \in MsNames, s \in MsSizes :
              \/ UploadBegins(j, n, s)
              \/ \E known \in BOOLEAN : DownloadAsked(j, n, s, known)
         \/ \E l \in MsLuns, n \in MsNames : InsertBegins(j, l, n)
         \/ \E s \in MsSizes : DriveUploadBegins(j, s)
    BY <2>5 DEF UploadBegins, DownloadAsked, InsertBegins, DriveUploadBegins, msMounts
  <2>6. CASE \E j \in MsJobs :
         \/ Chunk(j) \/ BodyBreaks(j) \/ BodyDone(j) \/ CommitFails(j) \/ DriveUploadEnds(j)
         \/ TaskStarts(j) \/ HeadReply(j) \/ Get(j) \/ Forget(j) \/ Tell(j)
         \/ CancelDownload(j) \/ Connected(j) \/ ClientLeaves(j)
    BY <2>6 DEF Chunk, BodyBreaks, BodyDone, CommitFails, DriveUploadEnds, TaskStarts, HeadReply, Get, Forget, Tell,
                CancelDownload, Connected, ClientLeaves, msMounts
  <2> QED
    BY <2>1, <2>2, <2>3, <2>4, <2>5, <2>6 DEF MsNext
<1>4. \A l \in MsLuns : msSlot[l] # MsNothing => msSlot'[l] \in {msSlot[l], MsNothing}
  BY <1>2, <1>3 DEF FreeSlots
<1> QED
  BY <1>1, <1>4

-----------------------------------------------------------------------------
\* The board

\* The ATX controller alone steps, so its invariant holds of the whole board.
LEMMA AtxHolds == MCSpec => []AtxInv
<1>1. MCInit => AtxInit
  BY DEF MCInit
<1>2. [MCNext]_vars => [AtxNext]_atxVars
  BY DEF MCNext, Alone, vars
<1> QED
  BY <1>1, <1>2, AtxStarts, AtxSteps, PTL DEF MCSpec

\* The history alone steps, so its invariant holds of the whole board.
LEMMA WolHolds == MCSpec => []WolInv
<1>1. MCInit => WolInit
  BY DEF MCInit
<1>2. [MCNext]_vars => [WolNext]_wolVars
  BY DEF MCNext, Alone, vars
<1> QED
  BY <1>1, <1>2, WolStarts, WolSteps, PTL DEF MCSpec

\* The watchdog alone steps, so its invariant holds of the whole board.
LEMMA WdHolds == MCSpec => []WdInv
<1>1. MCInit => WdInit
  BY DEF MCInit
<1>2. [MCNext]_vars => [WdNext]_wdVars
  BY DEF MCNext, Alone, vars
<1> QED
  BY <1>1, <1>2, WdStarts, WdSteps, PTL DEF MCSpec

\* The process alone steps, so its invariant holds of the whole board.
LEMMA PlHolds == MCSpec => []PlInv
<1>1. MCInit => PlInit
  BY DEF MCInit
<1>2. [MCNext]_vars => [PlNext]_plVars
  BY DEF MCNext, Alone, vars
<1> QED
  BY <1>1, <1>2, PlStarts, PlSteps, PTL DEF MCSpec

\* The input queue alone steps, so its invariant holds of the whole board.
LEMMA HidHolds == MCSpec => []HidInv
<1>1. MCInit => HidInit
  BY DEF MCInit
<1>2. [MCNext]_vars => [HidNext]_hidVars
  BY DEF MCNext, Alone, vars
<1> QED
  BY <1>1, <1>2, HidStarts, HidSteps, PTL DEF MCSpec

\* The network bridge alone steps, so its invariant holds of the whole board.
LEMMA NbHolds == MCSpec => []NbInv
<1>1. MCInit => NbInit
  BY DEF MCInit
<1>2. [MCNext]_vars => [NbNext]_nbVars
  BY DEF MCNext, Alone, vars
<1> QED
  BY <1>1, <1>2, NbStarts, NbSteps, PTL DEF MCSpec

\* The gadget alone steps, so its invariant holds of the whole board.
LEMMA GtHolds == MCSpec => []GtInv
<1>1. MCInit => GtInit
  BY DEF MCInit
<1>2. [MCNext]_vars => [GtNext]_gtVars
  BY DEF MCNext, Alone, vars
<1> QED
  BY <1>1, <1>2, GtAssumption, GtStarts, GtSteps, PTL DEF MCSpec

\* Login alone steps, so its invariant holds of the whole board.
LEMMA LgHolds == MCSpec => []LgInv
<1>1. MCInit => LgInit
  BY DEF MCInit
<1>2. [MCNext]_vars => [LgNext]_lgVars
  BY DEF MCNext, Alone, vars
<1> QED
  BY <1>1, <1>2, LgStarts, LgSteps, PTL DEF MCSpec

\* The store of images alone steps, so its invariant holds of the whole board.
LEMMA MsHolds == MCSpec => []MsInv
<1>1. MCInit => MsInit
  BY DEF MCInit
<1>2. [MCNext]_vars => [MsNext]_msVars
  BY DEF MCNext, Alone, vars
<1> QED
  BY <1>1, <1>2, MsAssumption, MsStarts, MsSteps, PTL DEF MCSpec

\* A button is down only while somebody presses it, the controller that answers
\* is the one that was configured, and the wake-on-LAN history keeps the newest
\* targets (atx/controller.rs, atx/executor.rs, atx/wol.rs).
THEOREM PowerIsKept == MCSpec => []PowerPromise
<1>1. AtxInv /\ WolInv => PowerPromise
  BY DEF AtxInv, WolInv, PowerPromise
<1> QED
  BY <1>1, AtxHolds, WolHolds, PTL

\* An armed watchdog is fed in time and does what was stored; an update never
\* leaves a binary in pieces, a restart means that it was installed, and what
\* others call is taken down after them (watchdog.rs, update/, main.rs).
THEOREM BoardLives == MCSpec => []LifePromise
<1>1. WdInv /\ PlInv => LifePromise
  BY WdPromised, PlPromised DEF LifePromise
<1> QED
  BY <1>1, WdHolds, PlHolds, PTL

\* The queue, the worker and the backend of the input devices together: no key
\* stays down on the host that nobody holds, and a reload loses no event
\* unnoticed (hid/mod.rs, hid/otg.rs).
THEOREM InputArrives == MCSpec => []HidPromise
BY HidHolds, HidPromised, PTL

\* The gadget and its bridge: whatever a crash or failed steps have left in
\* configfs, an attempt that meets no failure itself works; an active gadget is
\* the one that was asked for, with the HID files of its functions; and an uplink
\* taken for the bridge can be given back after any failed command, crash or
\* reboot (otg/manager.rs, otg/service.rs, otg/bridge.rs).
THEOREM UsbKeepsItsWord == MCSpec => []UsbPromise
<1>1. GtInv /\ NbInv => UsbPromise
  BY GtPromised, GtAssumption DEF NbInv, NbOwns, UsbPromise
<1> QED
  BY <1>1, GtHolds, NbHolds, PTL

\* However requests for set-up, login, enrolment and their cancellation cross:
\* one user is set up, a challenge opens one session at most, single-session mode
\* leaves one session, and a credential is replaced only after it was removed
\* (auth/, web/handlers/auth.rs, web/handlers/totp.rs).
THEOREM LoginKeepsItsWord == MCSpec => LoginPromise
<1> DEFINE One == lgTotp # 0 /\ lgTotp' # 0 => lgTotp' = lgTotp
<1>1. [MCNext]_vars => [One]_lgVars
  <2>1. [MCNext]_vars => [LgNext]_lgVars
    BY DEF MCNext, Alone, vars
  <2>2. [LgNext]_lgVars => One
    BY LgCredential
  <2> QED
    BY <2>1, <2>2
<1>2. MCSpec => [][One]_lgVars
  BY <1>1, PTL DEF MCSpec
<1>3. LgInv => OneUserIsSetUp /\ ChallengeUsedOnce /\ LoginLeavesOneSession
  BY LgPromised
<1> QED
  BY <1>2, <1>3, LgHolds, PTL DEF LoginPromise, CredentialStays

\* However uploads, downloads, insertions, mounts and deletions cross: an image
\* that is listed is whole, one that is mounted keeps its file, a job that ended is
\* forgotten, a success clears the alarm, and a medium in a slot is not ousted by
\* another (msd/image.rs, msd/controller.rs, redfish/routes/virtual_media.rs).
THEOREM StoreKeepsItsWord == MCSpec => StorePromise
<1> DEFINE Held == \A l \in MsLuns :
                     /\ msSlot[l] # MsNothing => msSlot'[l] \in {msSlot[l], MsNothing}
                     /\ msSlot'[l] # MsNothing => l < msCapacity'
<1>1. MsInv /\ MsInv' /\ [MCNext]_vars => [Held]_msVars
  <2>1. [MCNext]_vars => [MsNext]_msVars
    BY DEF MCNext, Alone, vars
  <2>2. MsInv /\ MsInv' /\ [MsNext]_msVars => Held
    BY MsKeepsSlots
  <2> QED
    BY <2>1, <2>2
<1>2. MCSpec => [][Held]_msVars
  BY <1>1, MsHolds, PTL DEF MCSpec
<1>3. MsInv => ImagesAreWhole /\ MountedKeepsFile /\ EndedIsForgotten /\ SuccessClearsAlarm
  BY MsPromised, MsAssumption
<1> QED
  BY <1>2, <1>3, MsHolds, PTL DEF StorePromise, SlotsHold
====
