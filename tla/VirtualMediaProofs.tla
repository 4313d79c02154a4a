------------------------- MODULE VirtualMediaProofs -------------------------
(***************************************************************************)
(* Theorems about VirtualMedia, for any images, configurations and number  *)
(* of LUNs.                                                                *)
(***************************************************************************)
EXTENDS VirtualMedia, TLAPS

USE MediaAssumption DEF MediaAssumption

\* What membership in BOOLEAN says, for the solver.
LEMMA BooleanValues == \A x : x \in BOOLEAN <=> (x = TRUE \/ x = FALSE)
BY Zenon

\* A gadget has the LUNs of its mode.
LEMMA ModeFacts ==
    /\ Modes \subseteq Nat /\ 0 \notin Modes
    /\ \A n \in Modes : 0 .. n - 1 \subseteq Luns
    /\ 0 \in Luns
BY DEF Modes, Luns

\* What giving a LUN a medium changes: this LUN alone; only a failed binding
\* leaves the new medium there after an error, and then the host sees nothing.
LEMMA LunConfigured ==
    ASSUME NEW l \in Luns, NEW m, NEW ok \in BOOLEAN, TypeOK,
           ConfigureLun(l, m, ok)
    PROVE  /\ bound' \in BOOLEAN /\ file' \in [Luns -> Media \cup {None}]
           /\ bound' => bound
           /\ \A k \in Luns \ {l} : file'[k] = file[k]
           /\ ok => file'[l] = IF m \in files THEN m ELSE None
           /\ ~ok /\ bound' => file'[l] \in {file[l], None}
           /\ ~Configurable(l) => file' = file
<1>1. CASE ~Configurable(l) /\ ~ok /\ UNCHANGED lunVars
  BY <1>1 DEF TypeOK, lunVars
<1>2. CASE Configurable(l) /\ ~(~Configurable(l) /\ ~ok /\ UNCHANGED lunVars)
  <2>1. PICK written, rebound \in BOOLEAN :
          /\ ok = (written /\ rebound) /\ (rebound \/ bound)
          /\ bound' = (bound /\ rebound)
          /\ \E f \in IF ~written THEN {file[l], None}
                     ELSE IF m \in files THEN {m} ELSE {None} :
               file' = [file EXCEPT ![l] = f]
    BY <1>2 DEF ConfigureLun
  <2>2. PICK f \in IF ~written THEN {file[l], None}
                  ELSE IF m \in files THEN {m} ELSE {None} :
               file' = [file EXCEPT ![l] = f]
    BY <2>1
  <2>3. bound' \in BOOLEAN /\ (bound' => bound)
    BY <2>1 DEF TypeOK
  <2>4. f \in Media \cup {None}
    BY <2>2 DEF TypeOK
  <2>5. file' \in [Luns -> Media \cup {None}]
    BY <2>2, <2>4 DEF TypeOK
  <2>6. file'[l] = f /\ \A k \in Luns \ {l} : file'[k] = file[k]
    BY <2>2 DEF TypeOK
  <2>7. CASE written
    BY <1>2, <2>1, <2>2, <2>3, <2>5, <2>6, <2>7
  <2>8. CASE ~written
    BY <1>2, <2>1, <2>2, <2>3, <2>5, <2>6, <2>8
  <2>q. QED BY <2>7, <2>8
<1>q. QED BY <1>1, <1>2 DEF ConfigureLun

-----------------------------------------------------------------------------
(* Types. *)

\* The first state is well typed.
LEMMA TypeInit == Init => TypeOK
BY BooleanValues, ModeFacts DEF Init, TypeOK, Modes, Desired, Media, NoMedia, Listed

\* A request keeps the types.
LEMMA TypeRequest ==
    ASSUME TypeOK, Request
    PROVE  TypeOK'
<1> USE DEF TypeOK, Modes, Desired, Media, Listed, NoMedia, msdVars,
   otgVars, lunVars, jobVars, applyVars, storeVars, reconcileVars, usbVars,
   switchVars
<1>1. CASE \E m \in Media, l \in Luns : Mount(m, l)
  <2>1. PICK m \in Media, l \in Luns : Mount(m, l)
    BY <1>1
  <2>2. PICK ok \in BOOLEAN :
          /\ ConfigureLun(l, m, ok)
          /\ mounted' = IF ok THEN [mounted EXCEPT ![l] = m] ELSE mounted
          /\ fresh' = IF ok THEN fresh \cup {l} ELSE fresh
    BY <2>1 DEF Mount
  <2>3. bound' \in BOOLEAN /\ file' \in [Luns -> Media \cup {None}]
    BY <2>2, LunConfigured
  <2>4. l \in 0 .. mode - 1
    BY <2>1, ModeFacts DEF Mount, SelectLun, FreeLuns, Luns
  <2>5. mounted' \in [Luns -> Media \cup {None}] /\ fresh' \subseteq Luns
    BY <2>2
  <2>6. Listed' \subseteq 0 .. mode - 1
    BY <2>2, <2>4
  <2>q. QED BY <2>1, <2>3, <2>5, <2>6 DEF Mount
<1>2. CASE \E l \in Luns : Unmount(l)
  BY <1>2, BooleanValues, ModeFacts DEF Unmount, DisconnectLun
<1>3. CASE \E m \in Images : DeleteImage(m)
  BY <1>3, BooleanValues, ModeFacts DEF DeleteImage
<1>4. CASE \E m \in Images : AddImage(m)
  BY <1>4, BooleanValues, ModeFacts DEF AddImage
<1>5. CASE DriveOpen
  BY <1>5, BooleanValues, ModeFacts DEF DriveOpen
<1>6. CASE DriveDone
  BY <1>6, BooleanValues, ModeFacts DEF DriveDone
<1>7. CASE \E c \in Configs : UpdateBegin(c)
  BY <1>7, BooleanValues, ModeFacts DEF UpdateBegin
<1>8. CASE \E n \in Modes : SwitchBegin(n)
  BY <1>8, BooleanValues, ModeFacts DEF SwitchBegin
<1>q. QED
  BY <1>1, <1>2, <1>3, <1>4, <1>5, <1>6, <1>7, <1>8 DEF Request

\* Rebuilding the gadget keeps the types.
LEMMA TypeReconcile ==
    ASSUME TypeOK, Reconcile
    PROVE  TypeOK'
<1> USE DEF TypeOK, Modes, Desired, Media, Listed, NoMedia, msdVars,
   otgVars, lunVars, jobVars, applyVars, storeVars, reconcileVars, usbVars,
   switchVars
<1>1. CASE ReconcileCheck
  BY <1>1, BooleanValues, ModeFacts DEF ReconcileCheck, Reconciled
<1>2. CASE Teardown
  BY <1>2, BooleanValues, ModeFacts DEF Teardown
<1>3. CASE TeardownFails
  BY <1>3, BooleanValues, ModeFacts DEF TeardownFails
<1>4. CASE Build
  BY <1>4, BooleanValues, ModeFacts DEF Build
<1>5. CASE BuildFails
  BY <1>5, BooleanValues, ModeFacts DEF BuildFails
<1>q. QED
  BY <1>1, <1>2, <1>3, <1>4, <1>5 DEF Reconcile

\* A configuration update keeps the types.
LEMMA TypeUpdate ==
    ASSUME TypeOK, Update
    PROVE  TypeOK'
<1> USE DEF TypeOK, Modes, Desired, Media, Listed, NoMedia, msdVars,
   otgVars, lunVars, jobVars, applyVars, storeVars, reconcileVars, usbVars,
   switchVars
<1>1. CASE Apply
  BY <1>1, BooleanValues, ModeFacts DEF Apply
<1>2. CASE ApplyRetry
  BY <1>2, BooleanValues, ModeFacts DEF ApplyRetry
<1>3. CASE ApplyFailed
  BY <1>3, BooleanValues, ModeFacts DEF ApplyFailed
<1>4. CASE Applied
  BY <1>4, BooleanValues, ModeFacts DEF Applied
<1>5. CASE Reapplied
  BY <1>5, BooleanValues, ModeFacts DEF Reapplied
<1>6. CASE Shutdown
  <2>1. file' \in [Luns -> Media \cup {None}]
    <3>1. CASE file' = [l \in Luns |-> IF l \in Listed THEN None ELSE file[l]]
      BY <3>1
    <3>2. CASE \E gone, back \in SUBSET Listed :
                 file' = [l \in Luns |-> IF l \in gone THEN None
                            ELSE IF l \in back THEN mounted[l] ELSE file[l]]
      BY <3>2
    <3>q. QED BY <1>6, <3>1, <3>2 DEF Shutdown
  <2>2. bound' \in BOOLEAN /\ abandoned' \in BOOLEAN
    BY <1>6, BooleanValues DEF Shutdown
  <2>q. QED BY <1>6, <2>1, <2>2, BooleanValues DEF Shutdown
<1>7. CASE InitController
  BY <1>7, BooleanValues, ModeFacts DEF InitController
<1>8. CASE UpdateStore
  BY <1>8, BooleanValues, ModeFacts DEF UpdateStore, Unlock
<1>9. CASE UpdateFailed
  BY <1>9, BooleanValues, ModeFacts DEF UpdateFailed, Unlock
<1>q. QED
  BY <1>1, <1>2, <1>3, <1>4, <1>5, <1>6, <1>7, <1>8, <1>9 DEF Update

\* A disk mode switch keeps the types.
LEMMA TypeSwitch ==
    ASSUME TypeOK, Switch
    PROVE  TypeOK'
<1> USE DEF TypeOK, Modes, Desired, Media, Listed, NoMedia, msdVars,
   otgVars, lunVars, jobVars, applyVars, storeVars, reconcileVars, usbVars,
   switchVars
<1>1. CASE SwitchRefused
  BY <1>1, BooleanValues, ModeFacts DEF SwitchRefused, Unlock
<1>2. CASE SwitchMark
  BY <1>2, BooleanValues, ModeFacts DEF SwitchMark
<1>3. CASE SetCapacity
  BY <1>3, BooleanValues, ModeFacts DEF SetCapacity
<1>4. CASE Switched
  BY <1>4, BooleanValues, ModeFacts DEF Switched, Unlock
<1>5. CASE SwitchBack
  BY <1>5, BooleanValues, ModeFacts DEF SwitchBack
<1>6. CASE SwitchedBack
  BY <1>6, BooleanValues, ModeFacts DEF SwitchedBack
<1>7. CASE \E l \in Luns : RestoreMedium(l)
  <2>1. PICK l \in Luns : RestoreMedium(l)
    BY <1>7
  <2>2. PICK ok \in BOOLEAN :
          /\ ConfigureLun(l, mounted[l], ok)
          /\ pc' = IF ok THEN "s_media" ELSE "s_fail"
          /\ fresh' = IF ok THEN fresh \cup {l} ELSE fresh
    BY <2>1 DEF RestoreMedium
  <2>3. bound' \in BOOLEAN /\ file' \in [Luns -> Media \cup {None}]
    BY <2>2, LunConfigured
  <2>q. QED BY <2>1, <2>2, <2>3 DEF RestoreMedium
<1>8. CASE Restored
  BY <1>8, BooleanValues, ModeFacts DEF Restored, Unlock
<1>9. CASE SwitchGivesUp
  BY <1>9, BooleanValues, ModeFacts DEF SwitchGivesUp, Unlock
<1>q. QED
  BY <1>1, <1>2, <1>3, <1>4, <1>5, <1>6, <1>7, <1>8, <1>9 DEF Switch

\* Every step keeps the types.
LEMMA TypeNext == TypeOK /\ [Next]_vars => TypeOK'
<1> SUFFICES ASSUME TypeOK, [Next]_vars PROVE TypeOK'
  OBVIOUS
<1>1. CASE Request
  BY <1>1, TypeRequest
<1>2. CASE Reconcile
  BY <1>2, TypeReconcile
<1>3. CASE Update
  BY <1>3, TypeUpdate
<1>4. CASE Switch
  BY <1>4, TypeSwitch
<1>5. CASE UNCHANGED vars
  BY <1>5 DEF TypeOK, Modes, Desired, Media, Listed, NoMedia, msdVars,
     otgVars, lunVars, jobVars, applyVars, storeVars, reconcileVars,
     usbVars, switchVars, vars
<1>q. QED BY <1>1, <1>2, <1>3, <1>4, <1>5 DEF Next

\* Every reachable state is well typed, and media are mounted only in LUNs
\* that the disk mode offers, whichever switches and updates fail.
THEOREM TypeCorrect == Spec => []TypeOK
BY TypeInit, TypeNext, PTL DEF Spec

-----------------------------------------------------------------------------
(* Who is at work.  The step of the task tells which task it is, so a       *)
(* switch is never taken for an update.                                     *)

JobInv ==
    /\ job = "none" <=> pc = "idle"
    /\ pc \in {"idle", "s_check"} => ~rolling
    /\ pc \in {"apply", "reapply", "shutdown", "init", "store", "failed"}
        => job \in {"update", "reload"}
    /\ pc \in {"s_check", "s_set", "s_media", "s_fail"} => job = "switch"
    /\ ReenumerationEnds

\* Nobody is at work at the start.
LEMMA JobInit == Init => JobInv
BY DEF Init, JobInv, ReenumerationEnds

\* A request keeps the announcement in its place.
LEMMA JobRequest ==
    ASSUME TypeOK, JobInv, Request
    PROVE  JobInv'
<1> USE DEF TypeOK, JobInv, ReenumerationEnds, Guarded, msdVars, otgVars,
   lunVars, jobVars, applyVars, storeVars, reconcileVars, usbVars,
   switchVars
<1>1. CASE \E m \in Media, l \in Luns : Mount(m, l)
  BY <1>1 DEF Mount
<1>2. CASE \E l \in Luns : Unmount(l)
  BY <1>2 DEF Unmount
<1>3. CASE \E m \in Images : DeleteImage(m)
  BY <1>3 DEF DeleteImage
<1>4. CASE \E m \in Images : AddImage(m)
  BY <1>4 DEF AddImage
<1>5. CASE DriveOpen
  BY <1>5 DEF DriveOpen
<1>6. CASE DriveDone
  BY <1>6 DEF DriveDone
<1>7. CASE \E c \in Configs : UpdateBegin(c)
  BY <1>7 DEF UpdateBegin
<1>8. CASE \E n \in Modes : SwitchBegin(n)
  BY <1>8 DEF SwitchBegin
<1>q. QED
  BY <1>1, <1>2, <1>3, <1>4, <1>5, <1>6, <1>7, <1>8 DEF Request

\* Rebuilding the gadget keeps the announcement in its place.
LEMMA JobReconcile ==
    ASSUME TypeOK, JobInv, Reconcile
    PROVE  JobInv'
<1> USE DEF TypeOK, JobInv, ReenumerationEnds, Guarded, msdVars, otgVars,
   lunVars, jobVars, applyVars, storeVars, reconcileVars, usbVars,
   switchVars
<1>1. CASE ReconcileCheck
  BY <1>1 DEF ReconcileCheck, Reconciled
<1>2. CASE Teardown
  BY <1>2 DEF Teardown
<1>3. CASE TeardownFails
  BY <1>3 DEF TeardownFails
<1>4. CASE Build
  BY <1>4 DEF Build
<1>5. CASE BuildFails
  BY <1>5 DEF BuildFails
<1>q. QED
  BY <1>1, <1>2, <1>3, <1>4, <1>5 DEF Reconcile

\* A configuration update keeps the announcement in its place.
LEMMA JobUpdate ==
    ASSUME TypeOK, JobInv, Update
    PROVE  JobInv'
<1> USE DEF TypeOK, JobInv, ReenumerationEnds, Guarded, msdVars, otgVars,
   lunVars, jobVars, applyVars, storeVars, reconcileVars, usbVars,
   switchVars
<1>1. CASE Apply
  BY <1>1 DEF Apply
<1>2. CASE ApplyRetry
  BY <1>2 DEF ApplyRetry
<1>3. CASE ApplyFailed
  BY <1>3 DEF ApplyFailed
<1>4. CASE Applied
  BY <1>4 DEF Applied
<1>5. CASE Reapplied
  BY <1>5 DEF Reapplied
<1>6. CASE Shutdown
  BY <1>6 DEF Shutdown
<1>7. CASE InitController
  BY <1>7 DEF InitController
<1>8. CASE UpdateStore
  BY <1>8 DEF UpdateStore, Unlock
<1>9. CASE UpdateFailed
  BY <1>9 DEF UpdateFailed, Unlock
<1>q. QED
  BY <1>1, <1>2, <1>3, <1>4, <1>5, <1>6, <1>7, <1>8, <1>9 DEF Update

\* A disk mode switch keeps the announcement in its place.
LEMMA JobSwitch ==
    ASSUME TypeOK, JobInv, Switch
    PROVE  JobInv'
<1> USE DEF TypeOK, JobInv, ReenumerationEnds, Guarded, msdVars, otgVars,
   lunVars, jobVars, applyVars, storeVars, reconcileVars, usbVars,
   switchVars
<1>1. CASE SwitchRefused
  BY <1>1 DEF SwitchRefused, Unlock
<1>2. CASE SwitchMark
  BY <1>2 DEF SwitchMark
<1>3. CASE SetCapacity
  BY <1>3 DEF SetCapacity
<1>4. CASE Switched
  BY <1>4 DEF Switched, Unlock
<1>5. CASE SwitchBack
  BY <1>5 DEF SwitchBack
<1>6. CASE SwitchedBack
  BY <1>6 DEF SwitchedBack
<1>7. CASE \E l \in Luns : RestoreMedium(l)
  BY <1>7 DEF RestoreMedium
<1>8. CASE Restored
  BY <1>8 DEF Restored, Unlock
<1>9. CASE SwitchGivesUp
  BY <1>9 DEF SwitchGivesUp, Unlock
<1>q. QED
  BY <1>1, <1>2, <1>3, <1>4, <1>5, <1>6, <1>7, <1>8, <1>9 DEF Switch

\* Every step keeps the announcement in its place.
LEMMA JobNext == TypeOK /\ JobInv /\ [Next]_vars => JobInv'
<1> SUFFICES ASSUME TypeOK, JobInv, [Next]_vars PROVE JobInv'
  OBVIOUS
<1>1. CASE Request
  BY <1>1, JobRequest
<1>2. CASE Reconcile
  BY <1>2, JobReconcile
<1>3. CASE Update
  BY <1>3, JobUpdate
<1>4. CASE Switch
  BY <1>4, JobSwitch
<1>5. CASE UNCHANGED vars
  BY <1>5 DEF TypeOK, JobInv, ReenumerationEnds, Guarded, msdVars, otgVars,
     lunVars, jobVars, applyVars, storeVars, reconcileVars, usbVars,
     switchVars, vars
<1>q. QED BY <1>1, <1>2, <1>3, <1>4, <1>5 DEF Next

\* usb_reenumerating is set only while a switch keeps other requests out.
THEOREM ReenumerationIsTakenBack == Spec => []ReenumerationEnds
<1>1. JobInv => ReenumerationEnds
  BY DEF JobInv
<1>q. QED BY <1>1, TypeInit, TypeNext, JobInit, JobNext, PTL DEF Spec

-----------------------------------------------------------------------------
(* The OTG service and the stored configuration.  An update works from the  *)
(* configuration of before or, rolling back, towards it; what the service   *)
(* wants is what the update wants unless apply_config has gone back.        *)

Match(d, c) == d.msd = c.msd /\ d.others = c.others

Reconciling == pc \in {"r_check", "r_down", "r_build", "r_ok", "r_err"}

HealthyInv ==
    /\ job \notin {"update", "reload"} /\ health = "Healthy"
        => Match(desired, config)
    /\ job \in {"update", "reload"}
        => IF rolling THEN target = config ELSE origin = config
    /\ job # "switch" /\ Reconciling /\ ~retrying => Match(desired, target)
    /\ pc \in {"reapply", "shutdown", "init", "store"}
        => Match(desired, target)

\* The first configuration is applied.
LEMMA HealthyInit == Init => HealthyInv
<1> SUFFICES ASSUME Init PROVE HealthyInv
  OBVIOUS
<1>1. config.msd = TRUE
  BY BooleanValues DEF Init
<1>q. QED BY <1>1 DEF Init, HealthyInv, Match, Reconciling

\* A request keeps the service and the configuration in step.
LEMMA HealthyRequest ==
    ASSUME TypeOK, JobInv, HealthyInv, Request
    PROVE  HealthyInv'
<1> USE DEF TypeOK, Desired, JobInv, HealthyInv, Match, Reconciling,
   msdVars, otgVars, lunVars, jobVars, applyVars, storeVars, reconcileVars,
   usbVars, switchVars
<1>1. CASE \E m \in Media, l \in Luns : Mount(m, l)
  BY <1>1 DEF Mount
<1>2. CASE \E l \in Luns : Unmount(l)
  BY <1>2 DEF Unmount
<1>3. CASE \E m \in Images : DeleteImage(m)
  BY <1>3 DEF DeleteImage
<1>4. CASE \E m \in Images : AddImage(m)
  BY <1>4 DEF AddImage
<1>5. CASE DriveOpen
  BY <1>5 DEF DriveOpen
<1>6. CASE DriveDone
  BY <1>6 DEF DriveDone
<1>7. CASE \E c \in Configs : UpdateBegin(c)
  BY <1>7 DEF UpdateBegin
<1>8. CASE \E n \in Modes : SwitchBegin(n)
  BY <1>8 DEF SwitchBegin
<1>q. QED
  BY <1>1, <1>2, <1>3, <1>4, <1>5, <1>6, <1>7, <1>8 DEF Request

\* Rebuilding the gadget keeps the service and the configuration in step.
LEMMA HealthyReconcile ==
    ASSUME TypeOK, JobInv, HealthyInv, Reconcile
    PROVE  HealthyInv'
<1> USE DEF TypeOK, Desired, JobInv, HealthyInv, Match, Reconciling,
   msdVars, otgVars, lunVars, jobVars, applyVars, storeVars, reconcileVars,
   usbVars, switchVars
<1>1. CASE ReconcileCheck
  BY <1>1 DEF ReconcileCheck, Reconciled
<1>2. CASE Teardown
  BY <1>2 DEF Teardown
<1>3. CASE TeardownFails
  BY <1>3 DEF TeardownFails
<1>4. CASE Build
  BY <1>4 DEF Build
<1>5. CASE BuildFails
  BY <1>5 DEF BuildFails
<1>q. QED
  BY <1>1, <1>2, <1>3, <1>4, <1>5 DEF Reconcile

\* A configuration update keeps the service and the configuration in step.
LEMMA HealthyUpdate ==
    ASSUME TypeOK, JobInv, HealthyInv, Update
    PROVE  HealthyInv'
<1> USE DEF TypeOK, Desired, JobInv, HealthyInv, Match, Reconciling,
   msdVars, otgVars, lunVars, jobVars, applyVars, storeVars, reconcileVars,
   usbVars, switchVars
<1>1. CASE Apply
  BY <1>1 DEF Apply
<1>2. CASE ApplyRetry
  BY <1>2 DEF ApplyRetry
<1>3. CASE ApplyFailed
  BY <1>3 DEF ApplyFailed
<1>4. CASE Applied
  BY <1>4 DEF Applied
<1>5. CASE Reapplied
  BY <1>5 DEF Reapplied
<1>6. CASE Shutdown
  BY <1>6 DEF Shutdown
<1>7. CASE InitController
  BY <1>7 DEF InitController
<1>8. CASE UpdateStore
  BY <1>8 DEF UpdateStore, Unlock
<1>9. CASE UpdateFailed
  BY <1>9 DEF UpdateFailed, Unlock
<1>q. QED
  BY <1>1, <1>2, <1>3, <1>4, <1>5, <1>6, <1>7, <1>8, <1>9 DEF Update

\* A disk mode switch keeps the service and the configuration in step.
LEMMA HealthySwitch ==
    ASSUME TypeOK, JobInv, HealthyInv, Switch
    PROVE  HealthyInv'
<1> USE DEF TypeOK, Desired, JobInv, HealthyInv, Match, Reconciling,
   msdVars, otgVars, lunVars, jobVars, applyVars, storeVars, reconcileVars,
   usbVars, switchVars
<1>1. CASE SwitchRefused
  BY <1>1 DEF SwitchRefused, Unlock
<1>2. CASE SwitchMark
  BY <1>2 DEF SwitchMark
<1>3. CASE SetCapacity
  BY <1>3 DEF SetCapacity
<1>4. CASE Switched
  BY <1>4 DEF Switched, Unlock
<1>5. CASE SwitchBack
  BY <1>5 DEF SwitchBack
<1>6. CASE SwitchedBack
  BY <1>6 DEF SwitchedBack
<1>7. CASE \E l \in Luns : RestoreMedium(l)
  BY <1>7 DEF RestoreMedium
<1>8. CASE Restored
  BY <1>8 DEF Restored, Unlock
<1>9. CASE SwitchGivesUp
  BY <1>9 DEF SwitchGivesUp, Unlock
<1>q. QED
  BY <1>1, <1>2, <1>3, <1>4, <1>5, <1>6, <1>7, <1>8, <1>9 DEF Switch

\* Every step keeps the service and the configuration in step.
LEMMA HealthyNext == TypeOK /\ JobInv /\ HealthyInv /\ [Next]_vars => HealthyInv'
<1> SUFFICES ASSUME TypeOK, JobInv, HealthyInv, [Next]_vars PROVE HealthyInv'
  OBVIOUS
<1>1. CASE Request
  BY <1>1, HealthyRequest
<1>2. CASE Reconcile
  BY <1>2, HealthyReconcile
<1>3. CASE Update
  BY <1>3, HealthyUpdate
<1>4. CASE Switch
  BY <1>4, HealthySwitch
<1>5. CASE UNCHANGED vars
  BY <1>5 DEF TypeOK, Desired, JobInv, HealthyInv, Match, Reconciling,
     msdVars, otgVars, lunVars, jobVars, applyVars, storeVars,
     reconcileVars, usbVars, switchVars, vars
<1>q. QED BY <1>1, <1>2, <1>3, <1>4, <1>5 DEF Next

\* Healthy, with no update or switch running, means that the OTG service
\* wants what the stored configuration says.
THEOREM HealthyIsApplied == Spec => []HealthyMeansApplied
<1>1. HealthyInv => HealthyMeansApplied
  BY DEF HealthyInv, HealthyMeansApplied, Match
<1>q. QED
  BY <1>1, TypeInit, TypeNext, JobInit, JobNext, HealthyInit, HealthyNext, PTL
     DEF Spec

-----------------------------------------------------------------------------
(* The disk mode and the gadget.  A switch is the only task that changes    *)
(* the capacity, and it keeps requests out until it knows whether mode or   *)
(* goal is in force; the gadget in between has one of the two, or no LUNs.  *)

Lun(d) == IF d.msd THEN d.capacity ELSE 0

\* A switch on its way to the goal.
Forward ==
    /\ pc \notin {"s_media", "s_fail"}
    /\ pc = "s_set" \/ ~desired.msd => desired.capacity = mode
    /\ Reconciling /\ desired.msd => desired.capacity = goal
    /\ function \in {0, IF pc = "r_ok" THEN goal ELSE mode}

\* A switch on its way back.
Backward ==
    /\ function \in {0, mode}
    /\ pc # "s_set" \/ ~desired.msd => desired.capacity = mode
    /\ pc \in {"s_media", "s_fail"} => cached = mode

ModeInv ==
    /\ function = IF active = None THEN 0 ELSE Lun(active)
    /\ pc = "r_ok" => active = None \/ active = desired
    /\ job # "switch" => previous.capacity = desired.capacity
    /\ ~Guarded /\ function > 0 => function = desired.capacity
    /\ ~Guarded /\ controller /\ available
        => desired.capacity = mode /\ cached = mode
    /\ job = "switch" => controller /\ goal # mode
    /\ Guarded => available /\ IF rolling THEN Backward ELSE Forward
    /\ Guarded => desired.msd \/ pc \in {"s_set", "r_err"}

\* The service starts in single-disk mode.
LEMMA ModeInit == Init => ModeInv
<1> SUFFICES ASSUME Init PROVE ModeInv
  OBVIOUS
<1>1. desired \in Desired
  BY TypeInit DEF TypeOK
<1>2. active = desired /\ active # None
  BY <1>1 DEF Init, Desired, Modes
<1>3. function = 1 /\ Lun(active) = 1 /\ desired.capacity = 1
  BY DEF Init, Lun
<1>q. QED BY <1>2, <1>3 DEF Init, ModeInv, Guarded

\* A request keeps the disk mode and the gadget in step.
LEMMA ModeRequest ==
    ASSUME TypeOK, JobInv, ModeInv, Request
    PROVE  ModeInv'
<1> USE DEF TypeOK, Modes, Desired, JobInv, ModeInv, Lun, Forward, Backward,
   Guarded, Reconciling, ReenumerationEnds, msdVars, otgVars, lunVars,
   jobVars, applyVars, storeVars, reconcileVars, usbVars, switchVars
<1>1. CASE \E m \in Media, l \in Luns : Mount(m, l)
  BY <1>1 DEF Mount
<1>2. CASE \E l \in Luns : Unmount(l)
  BY <1>2 DEF Unmount
<1>3. CASE \E m \in Images : DeleteImage(m)
  BY <1>3 DEF DeleteImage
<1>4. CASE \E m \in Images : AddImage(m)
  BY <1>4 DEF AddImage
<1>5. CASE DriveOpen
  BY <1>5 DEF DriveOpen
<1>6. CASE DriveDone
  BY <1>6 DEF DriveDone
<1>7. CASE \E c \in Configs : UpdateBegin(c)
  BY <1>7 DEF UpdateBegin
<1>8. CASE \E n \in Modes : SwitchBegin(n)
  BY <1>8 DEF SwitchBegin
<1>q. QED
  BY <1>1, <1>2, <1>3, <1>4, <1>5, <1>6, <1>7, <1>8 DEF Request

\* Rebuilding the gadget keeps the disk mode and the gadget in step.
LEMMA ModeReconcile ==
    ASSUME TypeOK, JobInv, ModeInv, Reconcile
    PROVE  ModeInv'
<1> USE DEF TypeOK, Modes, Desired, JobInv, ModeInv, Lun, Forward, Backward,
   Guarded, Reconciling, ReenumerationEnds, msdVars, otgVars, lunVars,
   jobVars, applyVars, storeVars, reconcileVars, usbVars, switchVars
<1>1. CASE ReconcileCheck
  BY <1>1 DEF ReconcileCheck, Reconciled
<1>2. CASE Teardown
  BY <1>2 DEF Teardown
<1>3. CASE TeardownFails
  BY <1>3 DEF TeardownFails
<1>4. CASE Build
  BY <1>4 DEF Build
<1>5. CASE BuildFails
  BY <1>5 DEF BuildFails
<1>q. QED
  BY <1>1, <1>2, <1>3, <1>4, <1>5 DEF Reconcile

\* A configuration update keeps the disk mode and the gadget in step.
LEMMA ModeUpdate ==
    ASSUME TypeOK, JobInv, ModeInv, Update
    PROVE  ModeInv'
<1> USE DEF TypeOK, Modes, Desired, JobInv, ModeInv, Lun, Forward, Backward,
   Guarded, Reconciling, ReenumerationEnds, msdVars, otgVars, lunVars,
   jobVars, applyVars, storeVars, reconcileVars, usbVars, switchVars
<1>1. CASE Apply
  BY <1>1 DEF Apply
<1>2. CASE ApplyRetry
  BY <1>2 DEF ApplyRetry
<1>3. CASE ApplyFailed
  BY <1>3 DEF ApplyFailed
<1>4. CASE Applied
  BY <1>4 DEF Applied
<1>5. CASE Reapplied
  BY <1>5 DEF Reapplied
<1>6. CASE Shutdown
  BY <1>6 DEF Shutdown
<1>7. CASE InitController
  BY <1>7 DEF InitController
<1>8. CASE UpdateStore
  BY <1>8 DEF UpdateStore, Unlock
<1>9. CASE UpdateFailed
  BY <1>9 DEF UpdateFailed, Unlock
<1>q. QED
  BY <1>1, <1>2, <1>3, <1>4, <1>5, <1>6, <1>7, <1>8, <1>9 DEF Update

\* A disk mode switch keeps the disk mode and the gadget in step.
LEMMA ModeSwitch ==
    ASSUME TypeOK, JobInv, ModeInv, Switch
    PROVE  ModeInv'
<1> USE DEF TypeOK, Modes, Desired, JobInv, ModeInv, Lun, Forward, Backward,
   Guarded, Reconciling, ReenumerationEnds, msdVars, otgVars, lunVars,
   jobVars, applyVars, storeVars, reconcileVars, usbVars, switchVars
<1>1. CASE SwitchRefused
  BY <1>1 DEF SwitchRefused, Unlock
<1>2. CASE SwitchMark
  BY <1>2 DEF SwitchMark
<1>3. CASE SetCapacity
  BY <1>3 DEF SetCapacity
<1>4. CASE Switched
  BY <1>4 DEF Switched, Unlock
<1>5. CASE SwitchBack
  BY <1>5 DEF SwitchBack
<1>6. CASE SwitchedBack
  BY <1>6 DEF SwitchedBack
<1>7. CASE \E l \in Luns : RestoreMedium(l)
  BY <1>7 DEF RestoreMedium
<1>8. CASE Restored
  BY <1>8 DEF Restored, Unlock
<1>9. CASE SwitchGivesUp
  BY <1>9 DEF SwitchGivesUp, Unlock
<1>q. QED
  BY <1>1, <1>2, <1>3, <1>4, <1>5, <1>6, <1>7, <1>8, <1>9 DEF Switch

\* Every step keeps the disk mode and the gadget in step.
LEMMA ModeNext == TypeOK /\ JobInv /\ ModeInv /\ [Next]_vars => ModeInv'
<1> SUFFICES ASSUME TypeOK, JobInv, ModeInv, [Next]_vars PROVE ModeInv'
  OBVIOUS
<1>1. CASE Request
  BY <1>1, ModeRequest
<1>2. CASE Reconcile
  BY <1>2, ModeReconcile
<1>3. CASE Update
  BY <1>3, ModeUpdate
<1>4. CASE Switch
  BY <1>4, ModeSwitch
<1>5. CASE UNCHANGED vars
  BY <1>5 DEF TypeOK, Modes, Desired, JobInv, ModeInv, Lun, Forward,
     Backward, Guarded, Reconciling, ReenumerationEnds, msdVars, otgVars,
     lunVars, jobVars, applyVars, storeVars, reconcileVars, usbVars,
     switchVars, vars
<1>q. QED BY <1>1, <1>2, <1>3, <1>4, <1>5 DEF Next

\* Whenever requests are let in, the disk mode, the controller's copy of the
\* MSD function and the gadget have the same number of LUNs.
THEOREM ModeAlwaysAgrees == Spec => []ModeAgrees
<1>1. TypeOK /\ ModeInv => ModeAgrees
  BY DEF TypeOK, ModeInv, ModeAgrees, Serving
<1>q. QED
  BY <1>1, TypeInit, TypeNext, JobInit, JobNext, ModeInit, ModeNext, PTL
     DEF Spec

-----------------------------------------------------------------------------
(* What the host sees.  A gadget is built with empty LUNs while nothing can *)
(* be mounted, and a switch that gets through finds them empty.             *)

\* On its way to the goal a switch never finds the gadget it wants.
LEMMA SwitchRebuilds ==
    ASSUME TypeOK, JobInv, ModeInv, job = "switch", ~rolling, pc = "r_check"
    PROVE  ~Reconciled
<1>1. Guarded /\ Forward /\ goal # mode /\ desired.msd
  BY DEF ModeInv, Guarded, Reconciling
<1>2. desired.capacity = goal /\ function \in {0, mode}
  BY <1>1 DEF Forward, Reconciling
<1>3. active = desired => function = goal
  BY <1>1, <1>2 DEF ModeInv, Lun, TypeOK, Desired, Modes
<1>q. QED BY <1>1, <1>2, <1>3 DEF Reconciled, TypeOK, Modes

ExposedInv ==
    /\ ~abandoned => \A l \in Luns : Exposed(l) => mounted[l] = file[l]
    /\ pc = "r_build" => file = NoMedia /\ ~manager
    /\ pc = "init" => mounted = NoMedia /\ ~controller
    /\ job = "switch" /\ ~rolling /\ pc = "r_ok" => file = NoMedia

\* All LUNs are empty at the start.
LEMMA ExposedInit == Init => ExposedInv
BY DEF Init, ExposedInv, Exposed, NoMedia

\* A request keeps what the host sees listed.
LEMMA ExposedRequest ==
    ASSUME TypeOK, JobInv, ModeInv, ExposedInv, Request
    PROVE  ExposedInv'
<1> USE DEF TypeOK, JobInv, ExposedInv, Exposed, Guarded, NoMedia, msdVars,
   otgVars, lunVars, jobVars, applyVars, storeVars, reconcileVars, usbVars,
   switchVars
<1>1. CASE \E m \in Media, l \in Luns : Mount(m, l)
  <2>1. PICK m \in Media, l \in Luns : Mount(m, l)
    BY <1>1
  <2>2. PICK ok \in BOOLEAN :
          /\ ConfigureLun(l, m, ok)
          /\ mounted' = IF ok THEN [mounted EXCEPT ![l] = m] ELSE mounted
          /\ fresh' = IF ok THEN fresh \cup {l} ELSE fresh
    BY <2>1 DEF Mount
  <2>3. /\ bound' => bound
        /\ \A k \in Luns \ {l} : file'[k] = file[k]
        /\ ok => file'[l] = m
        /\ ~ok /\ bound' => file'[l] \in {file[l], None}
        /\ ~Configurable(l) => file' = file
    BY <2>1, <2>2, LunConfigured DEF Mount
  <2>4. mounted[l] = None
    BY <2>1 DEF Mount, SelectLun, FreeLuns
  <2>5. ASSUME ~abandoned, NEW k \in Luns, Exposed(k)'
        PROVE  mounted'[k] = file'[k]
    <3>1. CASE k # l
      BY <2>1, <2>2, <2>3, <2>5, <3>1 DEF Mount
    <3>2. CASE k = l /\ ok
      BY <2>2, <2>3, <3>2
    <3>3. CASE k = l /\ ~ok
      BY <2>2, <2>3, <2>4, <2>5, <3>3
    <3>q. QED BY <3>1, <3>2, <3>3
  <2>6. pc = "r_build" => ~Configurable(l)
    BY DEF Configurable
  <2>q. QED BY <2>1, <2>2, <2>3, <2>5, <2>6 DEF Mount
<1>2. CASE \E l \in Luns : Unmount(l)
  BY <1>2 DEF Unmount, DisconnectLun
<1>3. CASE \E m \in Images : DeleteImage(m)
  BY <1>3 DEF DeleteImage
<1>4. CASE \E m \in Images : AddImage(m)
  BY <1>4 DEF AddImage
<1>5. CASE DriveOpen
  BY <1>5 DEF DriveOpen
<1>6. CASE DriveDone
  BY <1>6 DEF DriveDone
<1>7. CASE \E c \in Configs : UpdateBegin(c)
  BY <1>7 DEF UpdateBegin
<1>8. CASE \E n \in Modes : SwitchBegin(n)
  BY <1>8 DEF SwitchBegin
<1>q. QED
  BY <1>1, <1>2, <1>3, <1>4, <1>5, <1>6, <1>7, <1>8 DEF Request

\* Rebuilding the gadget keeps what the host sees listed.
LEMMA ExposedReconcile ==
    ASSUME TypeOK, JobInv, ModeInv, ExposedInv, Reconcile
    PROVE  ExposedInv'
<1> USE DEF TypeOK, JobInv, ExposedInv, Exposed, Guarded, NoMedia, msdVars,
   otgVars, lunVars, jobVars, applyVars, storeVars, reconcileVars, usbVars,
   switchVars
<1>1. CASE ReconcileCheck
  BY <1>1, SwitchRebuilds DEF ReconcileCheck
<1>2. CASE Teardown
  BY <1>2 DEF Teardown
<1>3. CASE TeardownFails
  <2>1. PICK gone \in SUBSET Luns :
          file' = [l \in Luns |-> IF l \in gone THEN None ELSE file[l]]
    BY <1>3 DEF TeardownFails
  <2>2. bound' => bound
    BY <1>3 DEF TeardownFails
  <2>q. QED BY <1>3, <2>1, <2>2 DEF TeardownFails
<1>4. CASE Build
  BY <1>4 DEF Build
<1>5. CASE BuildFails
  BY <1>5 DEF BuildFails
<1>q. QED
  BY <1>1, <1>2, <1>3, <1>4, <1>5 DEF Reconcile

\* A configuration update keeps what the host sees listed.
LEMMA ExposedUpdate ==
    ASSUME TypeOK, JobInv, ModeInv, ExposedInv, Update
    PROVE  ExposedInv'
<1> USE DEF TypeOK, JobInv, ExposedInv, Exposed, Guarded, NoMedia, msdVars,
   otgVars, lunVars, jobVars, applyVars, storeVars, reconcileVars, usbVars,
   switchVars
<1>1. CASE Apply
  BY <1>1 DEF Apply
<1>2. CASE ApplyRetry
  BY <1>2 DEF ApplyRetry
<1>3. CASE ApplyFailed
  BY <1>3 DEF ApplyFailed
<1>4. CASE Applied
  BY <1>4 DEF Applied
<1>5. CASE Reapplied
  BY <1>5 DEF Reapplied
<1>6. CASE Shutdown
  <2>1. ASSUME ~abandoned', NEW l \in Luns, Exposed(l)' PROVE FALSE
    <3>1. /\ ~abandoned /\ bound' = bound
          /\ file' = [k \in Luns |-> IF k \in Listed THEN None ELSE file[k]]
      BY <1>6, <2>1 DEF Shutdown
    <3>2. l \notin Listed /\ file[l] # None /\ bound
      BY <2>1, <3>1
    <3>q. QED BY <3>1, <3>2 DEF Listed
  <2>q. QED BY <1>6, <2>1 DEF Shutdown
<1>7. CASE InitController
  BY <1>7 DEF InitController
<1>8. CASE UpdateStore
  BY <1>8 DEF UpdateStore, Unlock
<1>9. CASE UpdateFailed
  BY <1>9 DEF UpdateFailed, Unlock
<1>q. QED
  BY <1>1, <1>2, <1>3, <1>4, <1>5, <1>6, <1>7, <1>8, <1>9 DEF Update

\* A disk mode switch keeps what the host sees listed.
LEMMA ExposedSwitch ==
    ASSUME TypeOK, JobInv, ModeInv, ExposedInv, Switch
    PROVE  ExposedInv'
<1> USE DEF TypeOK, JobInv, ExposedInv, Exposed, Guarded, NoMedia, msdVars,
   otgVars, lunVars, jobVars, applyVars, storeVars, reconcileVars, usbVars,
   switchVars
<1>1. CASE SwitchRefused
  BY <1>1 DEF SwitchRefused, Unlock
<1>2. CASE SwitchMark
  BY <1>2 DEF SwitchMark
<1>3. CASE SetCapacity
  BY <1>3 DEF SetCapacity
<1>4. CASE Switched
  BY <1>4 DEF Switched, Unlock
<1>5. CASE SwitchBack
  BY <1>5 DEF SwitchBack
<1>6. CASE SwitchedBack
  BY <1>6 DEF SwitchedBack
<1>7. CASE \E l \in Luns : RestoreMedium(l)
  <2>1. PICK l \in Luns : RestoreMedium(l)
    BY <1>7
  <2>2. PICK ok \in BOOLEAN :
          /\ ConfigureLun(l, mounted[l], ok)
          /\ pc' = IF ok THEN "s_media" ELSE "s_fail"
    BY <2>1 DEF RestoreMedium
  <2>3. /\ bound' => bound
        /\ \A k \in Luns \ {l} : file'[k] = file[k]
        /\ ok => file'[l] = IF mounted[l] \in files THEN mounted[l] ELSE None
        /\ ~ok /\ bound' => file'[l] \in {file[l], None}
    BY <2>2, LunConfigured
  <2>4. UNCHANGED <<mounted, abandoned>>
    BY <2>1 DEF RestoreMedium
  <2>q. QED BY <2>2, <2>3, <2>4
<1>8. CASE Restored
  BY <1>8 DEF Restored, Unlock
<1>9. CASE SwitchGivesUp
  BY <1>9 DEF SwitchGivesUp, Unlock
<1>q. QED
  BY <1>1, <1>2, <1>3, <1>4, <1>5, <1>6, <1>7, <1>8, <1>9 DEF Switch

\* Every step keeps what the host sees listed.
LEMMA ExposedNext == TypeOK /\ JobInv /\ ModeInv /\ ExposedInv /\ [Next]_vars => ExposedInv'
<1> SUFFICES ASSUME TypeOK, JobInv, ModeInv, ExposedInv, [Next]_vars PROVE ExposedInv'
  OBVIOUS
<1>1. CASE Request
  BY <1>1, ExposedRequest
<1>2. CASE Reconcile
  BY <1>2, ExposedReconcile
<1>3. CASE Update
  BY <1>3, ExposedUpdate
<1>4. CASE Switch
  BY <1>4, ExposedSwitch
<1>5. CASE UNCHANGED vars
  BY <1>5 DEF TypeOK, JobInv, ExposedInv, Exposed, Guarded, NoMedia,
     msdVars, otgVars, lunVars, jobVars, applyVars, storeVars,
     reconcileVars, usbVars, switchVars, vars
<1>q. QED BY <1>1, <1>2, <1>3, <1>4, <1>5 DEF Next

\* Whatever the host sees is on the list of mounted media, unless a shutdown
\* or a mode switch that could not be undone has forgotten it.
THEOREM ExposedIsListed == Spec => []ExposedIsMounted
<1>1. TypeOK /\ ExposedInv => ExposedIsMounted
  BY DEF TypeOK, ExposedInv, ExposedIsMounted, Exposed, Listed
<1>q. QED
  BY <1>1, TypeInit, TypeNext, JobInit, JobNext, ModeInit, ModeNext,
     ExposedInit, ExposedNext, PTL DEF Spec

-----------------------------------------------------------------------------
(* What is listed.  Going back, a switch configures every LUN once, on a    *)
(* gadget that is new since the switch began.                               *)

MountedInv ==
    /\ \A l \in Listed : mounted[l] \in Images => mounted[l] \in files
    /\ \A l \in fresh \cap Listed : mounted[l] \in Images
                                       => file[l] = mounted[l]
    /\ Guarded /\ desired.msd /\ (rolling \/ pc \in {"r_build", "r_ok", "r_err"})
         => IF pc \in {"s_media", "s_fail"} THEN fresh \cap todo = {}
            ELSE fresh = {}

\* Nothing is mounted at the start.
LEMMA MountedInit == Init => MountedInv
BY DEF Init, MountedInv, Guarded, Listed, NoMedia

\* A request keeps what is listed in its LUN.
LEMMA MountedRequest ==
    ASSUME TypeOK, JobInv, ModeInv, MountedInv, Request
    PROVE  MountedInv'
<1> USE DEF TypeOK, JobInv, MountedInv, Listed, Guarded, NoMedia, msdVars,
   otgVars, lunVars, jobVars, applyVars, storeVars, reconcileVars, usbVars,
   switchVars
<1>1. CASE \E m \in Media, l \in Luns : Mount(m, l)
  <2>1. PICK m \in Media, l \in Luns : Mount(m, l)
    BY <1>1
  <2>2. PICK ok \in BOOLEAN :
          /\ ConfigureLun(l, m, ok)
          /\ mounted' = IF ok THEN [mounted EXCEPT ![l] = m] ELSE mounted
          /\ fresh' = IF ok THEN fresh \cup {l} ELSE fresh
    BY <2>1 DEF Mount
  <2>3. /\ bound' => bound
        /\ \A k \in Luns \ {l} : file'[k] = file[k]
        /\ ok => file'[l] = m
        /\ ~ok /\ bound' => file'[l] \in {file[l], None}
        /\ ~Configurable(l) => file' = file
    BY <2>1, <2>2, LunConfigured DEF Mount
  <2>4. mounted[l] = None
    BY <2>1 DEF Mount, SelectLun, FreeLuns
  <2>5. \A k \in Luns \ {l} : mounted'[k] = mounted[k]
    BY <2>2
  <2>6. ok => mounted'[l] = m /\ m \in files
    BY <2>1, <2>2 DEF Mount
  <2>7. ~ok => mounted'[l] = None /\ fresh' = fresh
    BY <2>2, <2>4
  <2>8. files' = files /\ ~Guarded /\ ~Guarded' /\ fresh' \subseteq fresh \cup {l}
    BY <2>1, <2>2 DEF Mount
  <2>9. \A k \in Listed' : mounted'[k] \in Images => mounted'[k] \in files'
    BY <2>5, <2>6, <2>7, <2>8
  <2>10. \A k \in fresh' \cap Listed' : mounted'[k] \in Images
                                           => file'[k] = mounted'[k]
    BY <2>3, <2>5, <2>6, <2>7, <2>8
  <2>q. QED BY <2>8, <2>9, <2>10
<1>2. CASE \E l \in Luns : Unmount(l)
  BY <1>2 DEF Unmount, DisconnectLun
<1>3. CASE \E m \in Images : DeleteImage(m)
  BY <1>3 DEF DeleteImage
<1>4. CASE \E m \in Images : AddImage(m)
  BY <1>4 DEF AddImage
<1>5. CASE DriveOpen
  BY <1>5 DEF DriveOpen
<1>6. CASE DriveDone
  BY <1>6 DEF DriveDone
<1>7. CASE \E c \in Configs : UpdateBegin(c)
  BY <1>7 DEF UpdateBegin
<1>8. CASE \E n \in Modes : SwitchBegin(n)
  BY <1>8 DEF SwitchBegin
<1>q. QED
  BY <1>1, <1>2, <1>3, <1>4, <1>5, <1>6, <1>7, <1>8 DEF Request

\* Rebuilding the gadget keeps what is listed in its LUN.
LEMMA MountedReconcile ==
    ASSUME TypeOK, JobInv, ModeInv, MountedInv, Reconcile
    PROVE  MountedInv'
<1> USE DEF TypeOK, JobInv, MountedInv, Listed, Guarded, NoMedia, msdVars,
   otgVars, lunVars, jobVars, applyVars, storeVars, reconcileVars, usbVars,
   switchVars
<1>1. CASE ReconcileCheck
  BY <1>1, SwitchRebuilds DEF ReconcileCheck
<1>2. CASE Teardown
  BY <1>2 DEF Teardown
<1>3. CASE TeardownFails
  BY <1>3 DEF TeardownFails
<1>4. CASE Build
  BY <1>4 DEF Build
<1>5. CASE BuildFails
  BY <1>5 DEF BuildFails
<1>q. QED
  BY <1>1, <1>2, <1>3, <1>4, <1>5 DEF Reconcile

\* A configuration update keeps what is listed in its LUN.
LEMMA MountedUpdate ==
    ASSUME TypeOK, JobInv, ModeInv, MountedInv, Update
    PROVE  MountedInv'
<1> USE DEF TypeOK, JobInv, MountedInv, Listed, Guarded, NoMedia, msdVars,
   otgVars, lunVars, jobVars, applyVars, storeVars, reconcileVars, usbVars,
   switchVars
<1>1. CASE Apply
  BY <1>1 DEF Apply
<1>2. CASE ApplyRetry
  BY <1>2 DEF ApplyRetry
<1>3. CASE ApplyFailed
  BY <1>3 DEF ApplyFailed
<1>4. CASE Applied
  BY <1>4 DEF Applied
<1>5. CASE Reapplied
  BY <1>5 DEF Reapplied
<1>6. CASE Shutdown
  BY <1>6 DEF Shutdown
<1>7. CASE InitController
  BY <1>7 DEF InitController
<1>8. CASE UpdateStore
  BY <1>8 DEF UpdateStore, Unlock
<1>9. CASE UpdateFailed
  BY <1>9 DEF UpdateFailed, Unlock
<1>q. QED
  BY <1>1, <1>2, <1>3, <1>4, <1>5, <1>6, <1>7, <1>8, <1>9 DEF Update

\* A disk mode switch keeps what is listed in its LUN.
LEMMA MountedSwitch ==
    ASSUME TypeOK, JobInv, ModeInv, MountedInv, Switch
    PROVE  MountedInv'
<1> USE DEF TypeOK, JobInv, MountedInv, Listed, Guarded, NoMedia, msdVars,
   otgVars, lunVars, jobVars, applyVars, storeVars, reconcileVars, usbVars,
   switchVars
<1>1. CASE SwitchRefused
  BY <1>1 DEF SwitchRefused, Unlock
<1>2. CASE SwitchMark
  BY <1>2 DEF SwitchMark
<1>3. CASE SetCapacity
  BY <1>3 DEF SetCapacity
<1>4. CASE Switched
  BY <1>4 DEF Switched, Unlock
<1>5. CASE SwitchBack
  BY <1>5 DEF SwitchBack
<1>6. CASE SwitchedBack
  BY <1>6 DEF SwitchedBack
<1>7. CASE \E l \in Luns : RestoreMedium(l)
  <2>1. PICK l \in Luns : RestoreMedium(l)
    BY <1>7
  <2>2. PICK ok \in BOOLEAN :
          /\ ConfigureLun(l, mounted[l], ok)
          /\ pc' = IF ok THEN "s_media" ELSE "s_fail"
          /\ fresh' = IF ok THEN fresh \cup {l} ELSE fresh
    BY <2>1 DEF RestoreMedium
  <2>3. /\ \A k \in Luns \ {l} : file'[k] = file[k]
        /\ ok => file'[l] = IF mounted[l] \in files THEN mounted[l] ELSE None
    BY <2>2, LunConfigured
  <2>4. /\ l \in todo /\ todo' = todo \ {l} /\ pc = "s_media" /\ Guarded
        /\ UNCHANGED <<mounted, files, desired, rolling, job>>
    BY <2>1 DEF RestoreMedium
  <2>5. rolling /\ (desired.msd => l \notin fresh)
    BY <2>4 DEF ModeInv, Forward
  <2>6. desired.msd
    BY <2>4 DEF ModeInv
  <2>7. \A k \in fresh' \cap Listed : mounted[k] \in Images
                                         => file'[k] = mounted[k]
    BY <2>2, <2>3, <2>5, <2>6
  <2>q. QED BY <2>2, <2>4, <2>5, <2>6, <2>7
<1>8. CASE Restored
  BY <1>8 DEF Restored, Unlock
<1>9. CASE SwitchGivesUp
  BY <1>9 DEF SwitchGivesUp, Unlock
<1>q. QED
  BY <1>1, <1>2, <1>3, <1>4, <1>5, <1>6, <1>7, <1>8, <1>9 DEF Switch

\* Every step keeps what is listed in its LUN.
LEMMA MountedNext == TypeOK /\ JobInv /\ ModeInv /\ MountedInv /\ [Next]_vars => MountedInv'
<1> SUFFICES ASSUME TypeOK, JobInv, ModeInv, MountedInv, [Next]_vars PROVE MountedInv'
  OBVIOUS
<1>1. CASE Request
  BY <1>1, MountedRequest
<1>2. CASE Reconcile
  BY <1>2, MountedReconcile
<1>3. CASE Update
  BY <1>3, MountedUpdate
<1>4. CASE Switch
  BY <1>4, MountedSwitch
<1>5. CASE UNCHANGED vars
  BY <1>5 DEF TypeOK, JobInv, MountedInv, Listed, Guarded, NoMedia, msdVars,
     otgVars, lunVars, jobVars, applyVars, storeVars, reconcileVars,
     usbVars, switchVars, vars
<1>q. QED BY <1>1, <1>2, <1>3, <1>4, <1>5 DEF Next

\* An image on the list of mounted media is in its LUN, unless the gadget has
\* been torn down since it was put there.
THEOREM MountedIsInPlace == Spec => []MountedIsExposed
<1>1. MountedInv => MountedIsExposed
  BY DEF MountedInv, MountedIsExposed
<1>q. QED
  BY <1>1, TypeInit, TypeNext, JobInit, JobNext, ModeInit, ModeNext,
     MountedInit, MountedNext, PTL DEF Spec

\* The list of mounted media and what the host sees agree.
THEOREM ListIsExact == Spec => []ListIsTrue
<1>1. MountedIsExposed /\ ExposedIsMounted => ListIsTrue
  BY DEF ListIsTrue
<1>q. QED
  BY <1>1, MountedIsInPlace, ExposedIsListed, PTL
====
